------------------------------ MODULE JobsProofs ------------------------------
(***************************************************************************)
(* Safety of the background jobs, for every number of rows, weeks, habits, *)
(* memories, requests and restarts, and every length of intervals.         *)
(***************************************************************************)
EXTENDS MCJobs, FiniteSetTheorems, SequenceTheorems, WellFoundedInduction, TLAPS

-----------------------------------------------------------------------------
(* The weekly digest *)

\* The digest of a week that is not in doubt was counted when the week was over.
DigestsAreOfPastWeeks ==
    \A w \in Weeks : digest[w] # NoDigest /\ w \notin unsure => w < week /\ digest[w] = held[w]

\* So is the one about to be stored: nothing can change its count but a loss, which
\* puts it in doubt.
CountsAreOfPastWeeks ==
    \A m \in Makers : makers[m] # NotMaking =>
        /\ makers[m].week \in Weeks
        /\ ~makers[m].unsure =>
              makers[m].week < week /\ makers[m].count = held[makers[m].week]

DigestInv == DigestsAreOfPastWeeks /\ CountsAreOfPastWeeks

DigestMakers == [week : -1..MaxWeek, count : 0..MaxPerWeek, unsure : BOOLEAN]

\* A count taken of a week that is over, or known to be early, can be stored.
LEMMA CountingKeeps ==
  ASSUME DigestTypeOK, DigestInv, NEW m \in Makers, NEW w \in Weeks, Count(m, w),
         m \in Callers \/ w < week,
         UNCHANGED <<week, held, digest, unsure>>
  PROVE  DigestTypeOK' /\ DigestInv'
<1>1. PICK early \in BOOLEAN : early = (m \in Callers /\ w >= week)
  OBVIOUS
<1>2. PICK made : made = [week |-> w, count |-> held[w], unsure |-> early]
  OBVIOUS
<1>3. /\ made \in DigestMakers
      /\ made.week = w /\ made.count = held[w] /\ made.unsure = early
  BY <1>2 DEF DigestMakers, DigestTypeOK, Weeks
<1>4. makers' = [makers EXCEPT ![m] = made]
  BY <1>1, <1>2 DEF Count
<1>5. /\ makers'[m] = made
      /\ \A k \in Makers \ {m} : makers'[k] = makers[k]
      /\ makers' \in [Makers -> DigestMakers]
  BY <1>3, <1>4 DEF DigestTypeOK, DigestMakers
<1>6. ~early => w < week
  <2>1. ~early => ~(m \in Callers /\ w >= week)
    BY <1>1, Zenon
  <2>2. w \in Int /\ week \in Int
    BY WeeklyDigestAssumption DEF WeeklyDigestAssumption, DigestTypeOK, Weeks
  <2> QED BY <2>1, <2>2
<1>7. CountsAreOfPastWeeks'
  BY <1>3, <1>5, <1>6 DEF DigestInv, CountsAreOfPastWeeks
<1>8. DigestTypeOK'
  BY <1>5 DEF DigestTypeOK, DigestMakers
<1> QED BY <1>7, <1>8 DEF DigestInv, DigestsAreOfPastWeeks

\* A call that is over leaves nothing to store.
LEMMA NoMaker ==
  /\ NotMaking \in DigestMakers
BY WeeklyDigestAssumption DEF WeeklyDigestAssumption, NotMaking, DigestMakers

\* Every step keeps the invariants of the digests.
LEMMA DigestStep ==
  ASSUME DigestTypeOK, DigestInv, [DigestNext]_digestVars
  PROVE  DigestTypeOK' /\ DigestInv'
<1> USE WeeklyDigestAssumption DEF WeeklyDigestAssumption
<1>1. CASE WeekEnds
  <2>1. week' \in Weeks /\ week < week' /\ UNCHANGED <<held, digest, makers, unsure>>
    BY <1>1 DEF WeekEnds, DigestTypeOK, Weeks
  <2>2. DigestTypeOK'
    BY <2>1 DEF DigestTypeOK
  <2>3. \A w \in Weeks : w < week => w < week'
    BY <2>1 DEF DigestTypeOK, Weeks
  <2> QED BY <2>1, <2>2, <2>3 DEF DigestInv, DigestsAreOfPastWeeks, CountsAreOfPastWeeks
<1>2. CASE IngestThisWeek
  <2>1. /\ held' \in [Weeks -> 0..MaxPerWeek]
        /\ \A w \in Weeks : w < week => held'[w] = held[w]
        /\ UNCHANGED <<week, digest, makers, unsure>>
    BY <1>2 DEF IngestThisWeek, DigestTypeOK, Weeks
  <2> QED BY <2>1 DEF DigestInv, DigestsAreOfPastWeeks, CountsAreOfPastWeeks, DigestTypeOK
<1>3. ASSUME NEW w \in Weeks, LoseSession(w) PROVE DigestTypeOK' /\ DigestInv'
  <2>1. /\ held' \in [Weeks -> 0..MaxPerWeek]
        /\ \A v \in Weeks \ {w} : held'[v] = held[v]
        /\ unsure' = unsure \cup {w}
        /\ UNCHANGED <<week, digest>>
    BY <1>3 DEF LoseSession, DigestTypeOK
  <2>2. ASSUME NEW m \in Makers
        PROVE  /\ makers'[m] \in DigestMakers
               /\ makers[m].week # w => makers'[m] = makers[m]
               /\ makers[m].week = w => makers'[m].week = w /\ makers'[m].unsure
    <3>1. makers[m] \in DigestMakers
      BY DEF DigestTypeOK, DigestMakers
    <3>2. makers'[m] = IF makers[m].week = w THEN [makers[m] EXCEPT !.unsure = TRUE] ELSE makers[m]
      BY <1>3 DEF LoseSession
    <3> QED BY <3>1, <3>2 DEF DigestMakers
  <2>3. makers' \in [Makers -> DigestMakers]
    BY <1>3, <2>2 DEF LoseSession
  <2>4. DigestTypeOK'
    BY <2>1, <2>3 DEF DigestTypeOK, DigestMakers
  <2>5. DigestsAreOfPastWeeks'
    BY <2>1 DEF DigestInv, DigestsAreOfPastWeeks
  <2>6. CountsAreOfPastWeeks'
    BY <2>1, <2>2 DEF DigestInv, CountsAreOfPastWeeks
  <2> QED BY <2>4, <2>5, <2>6 DEF DigestInv
<1>4. CASE WorkerCounts
  <2>1. PICK w \in Weeks : w = TargetWeek
    BY <1>4 DEF WorkerCounts
  <2>2. w < week /\ Worker \in Makers
    BY <2>1 DEF TargetWeek, Makers, DigestTypeOK, Weeks
  <2>3. Count(Worker, w) /\ UNCHANGED <<week, held, digest, unsure>>
    BY <1>4, <2>1 DEF WorkerCounts
  <2> QED BY <2>2, <2>3, CountingKeeps
<1>5. ASSUME NEW c \in Callers, NEW w \in Weeks, CallerCounts(c, w) PROVE DigestTypeOK' /\ DigestInv'
  BY <1>5, CountingKeeps DEF CallerCounts, Makers
<1>6. ASSUME NEW m \in Makers, UpsertDigest(m) PROVE DigestTypeOK' /\ DigestInv'
  <2>1. PICK made : made = makers[m]
    OBVIOUS
  <2>2. PICK w \in Weeks : w = made.week
    BY <1>6, <2>1 DEF UpsertDigest, DigestInv, CountsAreOfPastWeeks
  <2>3. made \in DigestMakers
    BY <2>1 DEF DigestTypeOK, DigestMakers
  <2>4. /\ digest' = [digest EXCEPT ![w] = made.count]
        /\ unsure' = IF made.unsure THEN unsure \cup {w} ELSE unsure \ {w}
        /\ UNCHANGED <<week, held>>
        /\ makers' = [makers EXCEPT ![m] = NotMaking]
    BY <1>6, <2>1, <2>2 DEF UpsertDigest
  <2>5. /\ digest'[w] = made.count
        /\ \A v \in Weeks \ {w} : digest'[v] = digest[v]
        /\ digest' \in [Weeks -> DigestRows]
    BY <2>3, <2>4 DEF DigestTypeOK, DigestMakers, DigestRows, NoDigest
  <2>6. /\ makers' \in [Makers -> DigestMakers]
        /\ makers'[m] = NotMaking
        /\ \A k \in Makers \ {m} : makers'[k] = makers[k]
    BY <2>4, NoMaker DEF DigestTypeOK, DigestMakers
  <2>7. ~made.unsure => w < week /\ made.count = held[w]
    BY <1>6, <2>1, <2>2 DEF UpsertDigest, DigestInv, CountsAreOfPastWeeks
  <2>8. DigestsAreOfPastWeeks'
    BY <2>3, <2>4, <2>5, <2>7 DEF DigestInv, DigestsAreOfPastWeeks, DigestMakers
  <2>9. CountsAreOfPastWeeks'
    BY <2>4, <2>6 DEF DigestInv, CountsAreOfPastWeeks
  <2>10. DigestTypeOK'
    BY <2>3, <2>4, <2>5, <2>6 DEF DigestTypeOK, DigestMakers
  <2> QED BY <2>8, <2>9, <2>10 DEF DigestInv
<1>7. ASSUME NEW m \in Makers, DigestFails(m) PROVE DigestTypeOK' /\ DigestInv'
  <2>1. /\ makers' \in [Makers -> DigestMakers]
        /\ makers'[m] = NotMaking
        /\ \A k \in Makers \ {m} : makers'[k] = makers[k]
        /\ UNCHANGED <<week, held, digest, unsure>>
    BY <1>7, NoMaker DEF DigestFails, DigestTypeOK, DigestMakers
  <2> QED BY <2>1 DEF DigestTypeOK, DigestMakers, DigestInv, DigestsAreOfPastWeeks, CountsAreOfPastWeeks
<1>8. CASE UNCHANGED digestVars
  BY <1>8 DEF digestVars, DigestTypeOK, DigestInv, DigestsAreOfPastWeeks, CountsAreOfPastWeeks
<1> QED BY <1>1, <1>2, <1>3, <1>4, <1>5, <1>6, <1>7, <1>8 DEF DigestNext

\* The variables of the digests keep their types, and the invariants above hold.
THEOREM DigestsAreSound == DigestSpec => [](DigestTypeOK /\ DigestInv)
<1>1. DigestInit => DigestTypeOK /\ DigestInv
  <2> SUFFICES ASSUME DigestInit PROVE DigestTypeOK /\ DigestInv
    OBVIOUS
  <2>1. DigestTypeOK
    BY WeeklyDigestAssumption, NoMaker
       DEF WeeklyDigestAssumption, DigestInit, DigestTypeOK, DigestMakers, Weeks, DigestRows, NoDigest
  <2>2. DigestInv
    BY DEF DigestInit, DigestInv, DigestsAreOfPastWeeks, CountsAreOfPastWeeks
  <2> QED BY <2>1, <2>2
<1> QED BY <1>1, DigestStep, PTL DEF DigestSpec

\* A stored digest counts its whole week, in whatever order worker and requests count
\* and store, unless it was asked for early or sessions were deleted since.
THEOREM DigestsStayComplete == DigestSpec => []DigestsCoverTheirWeek
<1>1. DigestInv => DigestsCoverTheirWeek
  BY DEF DigestInv, DigestsAreOfPastWeeks, DigestsCoverTheirWeek
<1> QED BY <1>1, DigestsAreSound, PTL
-----------------------------------------------------------------------------
(* Numbers *)

\* A set of natural numbers has a least one.
LEMMA LeastNatural ==
  ASSUME NEW T, T \subseteq Nat, T # {}
  PROVE  \E n \in T : \A m \in T : n <= m
<1>1. PICK less : less = OpToRel(<, Nat)
  OBVIOUS
<1>2. IsWellFoundedOn(less, Nat)
  BY <1>1, NatLessThanWellFounded
<1>3. PICK n \in T : \A m \in T : ~(<<m, n>> \in less)
  BY <1>2, WFMin
<1>4. \A m \in Nat : m < n => <<m, n>> \in less
  BY <1>1, <1>3 DEF OpToRel
<1>5. n \in Nat
  BY <1>3
<1>6. ASSUME NEW m \in T PROVE n <= m
  <2>1. m \in Nat /\ ~(m < n)
    BY <1>3, <1>4
  <2> QED BY <1>5, <2>1
<1> QED BY <1>6

\* A set of integers with a bound has a greatest one.
LEMMA MaxOfBounded ==
  ASSUME NEW S, S \subseteq Int, S # {}, NEW top \in Int, \A x \in S : x <= top
  PROVE  Max(S) \in S /\ \A y \in S : y <= Max(S)
<1>1. PICK T : T = {top - x : x \in S}
  OBVIOUS
<1>2. T \subseteq Nat /\ T # {}
  <2>1. \A x \in S : top - x \in Nat
    OBVIOUS
  <2> QED BY <1>1, <2>1
<1>3. PICK n \in T : \A m \in T : n <= m
  BY <1>2, LeastNatural
<1>4. PICK x \in S : n = top - x
  BY <1>1, <1>3
<1>5. \A y \in S : x >= y
  BY <1>1, <1>3, <1>4
<1>6. \E z \in S : \A y \in S : z >= y
  BY <1>5
<1>7. Max(S) \in S /\ \A y \in S : Max(S) >= y
  BY <1>6 DEF Max
<1> QED BY <1>7

\* The greater and the lesser of two.
LEMMA OfTwo ==
  ASSUME NEW a \in Int, NEW b \in Int
  PROVE  /\ Max({a, b}) = IF a >= b THEN a ELSE b
         /\ Min({a, b}) = IF a <= b THEN a ELSE b
<1>1. \E x \in {a, b} : \A y \in {a, b} : x >= y
  OBVIOUS
<1>2. \E x \in {a, b} : \A y \in {a, b} : x <= y
  OBVIOUS
<1>3. Max({a, b}) \in {a, b} /\ \A y \in {a, b} : Max({a, b}) >= y
  BY <1>1 DEF Max
<1>4. Min({a, b}) \in {a, b} /\ \A y \in {a, b} : Min({a, b}) <= y
  BY <1>2 DEF Min
<1> QED BY <1>3, <1>4

-----------------------------------------------------------------------------
(* Instincts *)

\* No more confidence than the observations of h have earned.
Earned(h, row) ==
    /\ row.count = observed[h]
    /\ observed[h] = 0 => row = NoInstinct
    /\ observed[h] > 0 => row.confidence <= InitialConfidence + Boost * (observed[h] - 1)

RowsAreEarned == \A h \in Habits : Earned(h, instincts[h])

\* What the worker has read is as good as the row: only confidence moves under it.
ObserverIsCurrent ==
    observer.habit # "none" =>
        observed[observer.habit] < MaxObserved /\ Earned(observer.habit, observer.row)

\* What a contradiction has read was earned, and so is less than that later.
CriticsAreEarned ==
    \A c \in Critics : critics[c].habit # "none" =>
        LET h == critics[c].habit
        IN  /\ observed[h] > 0
            /\ critics[c].row.confidence <= InitialConfidence + Boost * (observed[h] - 1)

InstinctInv == RowsAreEarned /\ ObserverIsCurrent /\ CriticsAreEarned

\* What the calls hold.
LEMMA CallsAreTyped ==
  ASSUME InstinctsTypeOK
  PROVE  /\ AtRest \in InstinctCalls /\ NoInstinct \in InstinctRows
         /\ \A h \in Habits : instincts[h] \in InstinctRows /\ observed[h] \in 0..MaxObserved
         /\ observer \in InstinctCalls
         /\ \A c \in Critics : critics[c] \in InstinctCalls
BY InstinctsAssumption
   DEF InstinctsAssumption, InstinctsTypeOK, AtRest, NoInstinct, InstinctCalls, InstinctRows, Floor,
       Ceiling

\* Every step keeps the invariants of the instincts.
LEMMA InstinctsStep ==
  ASSUME InstinctsTypeOK, InstinctInv, [InstinctsNext]_instinctVars
  PROVE  InstinctsTypeOK' /\ InstinctInv'
<1> USE InstinctsAssumption DEF InstinctsAssumption
<1>1. ASSUME NEW h \in Habits, LookForInstinct(h) PROVE InstinctsTypeOK' /\ InstinctInv'
  <2>1. PICK row \in InstinctRows : row = instincts[h]
    BY CallsAreTyped
  <2>2. observer' = [habit |-> h, row |-> row] /\ observer' \in InstinctCalls
    BY <1>1, <2>1 DEF LookForInstinct, InstinctCalls
  <2>3. observer'.habit = h /\ observer'.row = row
    BY <2>2
  <2>4. UNCHANGED <<instincts, critics, observed>> /\ observed[h] < MaxObserved
    BY <1>1 DEF LookForInstinct
  <2>5. InstinctsTypeOK'
    BY <2>2, <2>4 DEF InstinctsTypeOK
  <2>6. ObserverIsCurrent'
    BY <2>1, <2>3, <2>4 DEF InstinctInv, RowsAreEarned, ObserverIsCurrent, Earned
  <2> QED BY <2>4, <2>5, <2>6 DEF InstinctInv, RowsAreEarned, CriticsAreEarned, Earned
<1>2. CASE RecordObservation
  <2>1. PICK h \in Habits, row \in InstinctRows : h = observer.habit /\ row = observer.row /\ h # "none"
    BY <1>2, CallsAreTyped DEF RecordObservation, InstinctCalls
  <2>2. PICK new : new = IF row = NoInstinct
                         THEN [confidence |-> InitialConfidence, count |-> 1]
                         ELSE [confidence |-> Min({Ceiling, row.confidence + Boost}),
                               count |-> row.count + 1]
    OBVIOUS
  <2>3. /\ instincts' = [instincts EXCEPT ![h] = new]
        /\ observed' = [observed EXCEPT ![h] = @ + 1]
        /\ observer' = AtRest /\ UNCHANGED critics
    BY <1>2, <2>1, <2>2 DEF RecordObservation
  <2>4. observed[h] \in 0..MaxObserved /\ observed[h] < MaxObserved /\ Earned(h, row)
    BY <2>1, CallsAreTyped DEF InstinctInv, ObserverIsCurrent
  <2>5. /\ observed' \in [Habits -> 0..MaxObserved]
        /\ observed'[h] = observed[h] + 1
        /\ \A g \in Habits \ {h} : observed'[g] = observed[g]
        /\ \A g \in Habits : observed[g] \in Nat /\ observed'[g] \in Nat /\ observed[g] <= observed'[g]
    BY <2>3, <2>4 DEF InstinctsTypeOK
  <2>6. /\ new \in InstinctRows
        /\ new.count = observed[h] + 1
        /\ new.confidence <= InitialConfidence + Boost * observed[h]
    <3>1. CASE row = NoInstinct
      BY <2>2, <2>4, <3>1
         DEF InstinctRows, Earned, NoInstinct, InitialConfidence, Boost, Floor, Ceiling
    <3>2. CASE row # NoInstinct
      <4>1. observed[h] > 0 /\ row.confidence <= InitialConfidence + Boost * (observed[h] - 1)
        BY <2>4, <3>2 DEF Earned
      <4>2. row.confidence \in {0} \cup 10..90 /\ row.count = observed[h]
        BY <2>1, <2>4 DEF InstinctRows, Earned, Floor, Ceiling
      <4>3. Min({90, row.confidence + 10}) =
               IF 90 <= row.confidence + 10 THEN 90 ELSE row.confidence + 10
        <5>1. PICK c \in Int : c = row.confidence + 10
          BY <4>2
        <5>2. Min({90, c}) = IF 90 <= c THEN 90 ELSE c
          BY OfTwo
        <5> QED BY <5>1, <5>2
      <4>4. new.confidence = Min({90, row.confidence + 10}) /\ new.count = row.count + 1
            /\ new = [confidence |-> new.confidence, count |-> new.count]
        BY <2>2, <3>2 DEF Ceiling, Boost
      <4>5. new.confidence \in 10..90 /\ new.confidence <= row.confidence + 10
        BY <4>2, <4>3, <4>4
      <4>6. new.confidence <= InitialConfidence + Boost * observed[h]
        <5>1. observed[h] \in Int /\ new.confidence \in Int /\ row.confidence \in Int
          BY <2>4, <4>2, <4>5
        <5> QED BY <4>1, <4>5, <5>1 DEF InitialConfidence, Boost
      <4>7. new \in InstinctRows
        BY <2>4, <4>2, <4>4, <4>5 DEF InstinctRows, Floor, Ceiling
      <4> QED BY <4>2, <4>4, <4>6, <4>7
    <3> QED BY <3>1, <3>2
  <2>7. /\ instincts' \in [Habits -> InstinctRows]
        /\ instincts'[h] = new
        /\ \A g \in Habits \ {h} : instincts'[g] = instincts[g]
    BY <2>3, <2>6 DEF InstinctsTypeOK
  <2>8. InstinctsTypeOK'
    BY <2>3, <2>5, <2>7, CallsAreTyped DEF InstinctsTypeOK
  <2>9. RowsAreEarned'
    <3>1. ASSUME NEW g \in Habits \ {h} PROVE Earned(g, instincts[g])'
      BY <2>5, <2>7 DEF InstinctInv, RowsAreEarned, Earned
    <3>2. Earned(h, instincts[h])'
      BY <2>4, <2>5, <2>6, <2>7 DEF Earned
    <3> QED BY <3>1, <3>2 DEF RowsAreEarned
  <2>10. ObserverIsCurrent'
    BY <2>3 DEF ObserverIsCurrent, AtRest
  <2>11. CriticsAreEarned'
    <3> SUFFICES ASSUME NEW c \in Critics, critics[c].habit # "none"
                 PROVE  LET k == critics[c].habit
                        IN  /\ observed'[k] > 0
                            /\ critics[c].row.confidence <= InitialConfidence + Boost * (observed'[k] - 1)
      BY <2>3 DEF CriticsAreEarned
    <3>1. PICK k \in Habits : k = critics[c].habit
      BY CallsAreTyped DEF InstinctCalls
    <3>2. critics[c].row.confidence \in Int
      BY CallsAreTyped DEF InstinctCalls, InstinctRows
    <3>3. observed[k] > 0 /\ critics[c].row.confidence <= InitialConfidence + Boost * (observed[k] - 1)
      BY <3>1 DEF InstinctInv, CriticsAreEarned
    <3> QED BY <2>5, <3>1, <3>2, <3>3 DEF InitialConfidence, Boost
  <2> QED BY <2>8, <2>9, <2>10, <2>11 DEF InstinctInv
<1>3. CASE ObservationFails
  BY <1>3, CallsAreTyped
     DEF ObservationFails, InstinctsTypeOK, InstinctInv, RowsAreEarned, ObserverIsCurrent,
         CriticsAreEarned, Earned, AtRest
<1>4. ASSUME NEW c \in Critics, NEW h \in Habits, ReadInstinct(c, h)
      PROVE  InstinctsTypeOK' /\ InstinctInv'
  <2>1. PICK row \in InstinctRows : row = instincts[h]
    BY CallsAreTyped
  <2>2. PICK reading \in InstinctCalls : reading = [habit |-> h, row |-> row]
    BY DEF InstinctCalls
  <2>3. /\ critics' = [critics EXCEPT ![c] = reading]
        /\ UNCHANGED <<instincts, observer, observed>>
        /\ row # NoInstinct
    BY <1>4, <2>1, <2>2 DEF ReadInstinct
  <2>4. /\ critics' \in [Critics -> InstinctCalls]
        /\ critics'[c] = reading
        /\ \A k \in Critics \ {c} : critics'[k] = critics[k]
    BY <2>3 DEF InstinctsTypeOK
  <2>5. reading.habit = h /\ reading.row = row
    BY <2>2
  <2>6. observed[h] > 0 /\ row.confidence <= InitialConfidence + Boost * (observed[h] - 1)
    BY <2>1, <2>3, CallsAreTyped DEF InstinctInv, RowsAreEarned, Earned
  <2>7. CriticsAreEarned'
    BY <2>3, <2>4, <2>5, <2>6 DEF InstinctInv, CriticsAreEarned
  <2> QED BY <2>3, <2>4, <2>7 DEF InstinctsTypeOK, InstinctInv, RowsAreEarned, ObserverIsCurrent, Earned
<1>5. ASSUME NEW c \in Critics, WriteDecay(c) PROVE InstinctsTypeOK' /\ InstinctInv'
  <2>1. PICK h \in Habits, read \in InstinctRows :
          h = critics[c].habit /\ read = critics[c].row /\ h # "none"
    BY <1>5, CallsAreTyped DEF WriteDecay, InstinctCalls
  <2>2. instincts[h] \in InstinctRows /\ read.confidence \in {0} \cup 10..90
    BY <2>1, CallsAreTyped DEF InstinctRows, Floor, Ceiling
  <2>3. /\ observed[h] > 0 /\ observed[h] \in Nat
        /\ read.confidence <= InitialConfidence + Boost * (observed[h] - 1)
    BY <2>1, CallsAreTyped DEF InstinctInv, CriticsAreEarned
  <2>4. PICK lower : lower = Max({Floor, read.confidence - Decay})
    OBVIOUS
  <2>5. lower \in 10..90 /\ (lower = 10 \/ lower <= read.confidence)
    <3>1. Max({10, read.confidence - 15}) =
             IF 10 >= read.confidence - 15 THEN 10 ELSE read.confidence - 15
      <4>1. 10 \in Int /\ read.confidence - 15 \in Int
        BY <2>2
      <4> QED BY ONLY <4>1, OfTwo
    <3> QED BY <2>2, <2>4, <3>1 DEF Floor, Decay
  <2>6. PICK new : new = [instincts[h] EXCEPT !.confidence = lower]
    OBVIOUS
  <2>7. new \in InstinctRows /\ new.count = instincts[h].count /\ new.confidence = lower
    BY <2>2, <2>5, <2>6 DEF InstinctRows, Floor, Ceiling
  <2>8. /\ instincts' = [instincts EXCEPT ![h] = new]
        /\ critics' = [critics EXCEPT ![c] = AtRest]
        /\ UNCHANGED <<observer, observed>>
    BY <1>5, <2>1, <2>4, <2>6 DEF WriteDecay, Decayed
  <2>9. /\ instincts' \in [Habits -> InstinctRows]
        /\ instincts'[h] = new
        /\ \A g \in Habits \ {h} : instincts'[g] = instincts[g]
        /\ critics' \in [Critics -> InstinctCalls]
        /\ critics'[c] = AtRest
        /\ \A k \in Critics \ {c} : critics'[k] = critics[k]
    BY <2>7, <2>8, CallsAreTyped DEF InstinctsTypeOK
  <2>10. lower <= InitialConfidence + Boost * (observed[h] - 1)
    BY <2>2, <2>3, <2>5, SMTT(40) DEF InitialConfidence, Boost
  <2>11. RowsAreEarned'
    BY <2>3, <2>7, <2>8, <2>9, <2>10 DEF InstinctInv, RowsAreEarned, Earned
  <2>12. CriticsAreEarned'
    BY <2>8, <2>9 DEF InstinctInv, CriticsAreEarned, AtRest
  <2> QED BY <2>8, <2>9, <2>11, <2>12 DEF InstinctsTypeOK, InstinctInv, ObserverIsCurrent, Earned
<1>6. CASE UNCHANGED instinctVars
  BY <1>6 DEF instinctVars, InstinctsTypeOK, InstinctInv, RowsAreEarned, ObserverIsCurrent,
              CriticsAreEarned, Earned
<1> QED BY <1>1, <1>2, <1>3, <1>4, <1>5, <1>6 DEF InstinctsNext

\* The variables of the instincts keep their types, and the invariants above hold.
THEOREM InstinctsAreSound == InstinctsSpec => [](InstinctsTypeOK /\ InstinctInv)
<1>1. InstinctsInit => InstinctsTypeOK /\ InstinctInv
  <2> SUFFICES ASSUME InstinctsInit PROVE InstinctsTypeOK /\ InstinctInv
    OBVIOUS
  <2>1. NoInstinct \in InstinctRows /\ AtRest \in InstinctCalls /\ 0 \in 0..MaxObserved
    BY InstinctsAssumption
       DEF InstinctsAssumption, AtRest, NoInstinct, InstinctCalls, InstinctRows, Floor, Ceiling
  <2>2. InstinctsTypeOK
    BY <2>1 DEF InstinctsInit, InstinctsTypeOK
  <2>3. InstinctInv
    BY DEF InstinctsInit, InstinctInv, RowsAreEarned, ObserverIsCurrent, CriticsAreEarned, Earned,
           AtRest, NoInstinct
  <2> QED BY <2>2, <2>3
<1> QED BY <1>1, InstinctsStep, PTL DEF InstinctsSpec

\* Whatever contradictions run between the two halves of an observation, each is
\* counted once, and no habit is recommended before its fourth.
THEOREM ObservationsStayCounted == InstinctsSpec => []ObservationsAreCounted
<1>1. InstinctsTypeOK /\ InstinctInv => ObservationsAreCounted
  <2> SUFFICES ASSUME InstinctsTypeOK, InstinctInv, NEW h \in Habits
               PROVE  /\ instincts[h].count = observed[h]
                      /\ observed[h] > 0 =>
                            instincts[h].confidence <= InitialConfidence + Boost * (observed[h] - 1)
                      /\ h \in Promoted => observed[h] >= 4
    BY DEF ObservationsAreCounted
  <2>1. Earned(h, instincts[h])
    BY DEF InstinctInv, RowsAreEarned
  <2>2. observed[h] \in Nat /\ instincts[h].confidence \in Int
    BY CallsAreTyped DEF InstinctRows
  <2>3. h \in Promoted => instincts[h].count >= 3 /\ instincts[h].confidence >= 60
    BY DEF Promoted
  <2> QED BY <2>1, <2>2, <2>3 DEF Earned, InitialConfidence, Boost
<1> QED BY <1>1, InstinctsAreSound, PTL
-----------------------------------------------------------------------------
(* Profiles *)

\* A memory has the number and the second of its last save.
NotesAreNumbered ==
    \A n \in Stored : notes[n].nr \in 1..saves /\ notes[n].at \in 0..second

\* A profile is not stored ahead of the clock, and no memory looks older than it that
\* it does not show, or that is not known to have come at a bad time.
OlderNotesAreCovered ==
    profile # NoProfile =>
        /\ profile.at \in 0..second
        /\ \A n \in Stored :
              notes[n].at <= profile.at => notes[n].nr \in profile.of \cup late

ProfileInv == NotesAreNumbered /\ OlderNotesAreCovered

\* The numbers of the memories are numbers of saves.
LEMMA NumbersAreOfSaves ==
  ASSUME ProfilesTypeOK, NotesAreNumbered
  PROVE  Numbers \subseteq SaveNumbers
<1>1. \A n \in Stored : notes[n].nr \in SaveNumbers
  BY ProfilesAssumption DEF ProfilesAssumption, ProfilesTypeOK, NotesAreNumbered, SaveNumbers
<1> QED BY <1>1 DEF Numbers

\* Every step keeps the invariants of the profiles.
LEMMA ProfilesStep ==
  ASSUME ProfilesTypeOK, ProfileInv, [ProfilesNext]_profileVars
  PROVE  ProfilesTypeOK' /\ ProfileInv'
<1> USE ProfilesAssumption DEF ProfilesAssumption
<1>1. CASE ClockTicks
  <2>1. /\ second' \in 0..MaxSecond /\ \A i \in 0..second : i \in 0..second'
        /\ UNCHANGED <<notes, saves, profile, looked, refresh, late>>
    BY <1>1 DEF ClockTicks, ProfilesTypeOK
  <2> QED BY <2>1 DEF ProfilesTypeOK, ProfileInv, NotesAreNumbered, OlderNotesAreCovered, Stored
<1>2. ASSUME NEW n \in Notes, SaveNote(n) PROVE ProfilesTypeOK' /\ ProfileInv'
  <2>1. PICK new : new = saves + 1
    OBVIOUS
  <2>2. PICK note : note = [nr |-> new, at |-> second]
    OBVIOUS
  <2>3. /\ saves' = new /\ new \in 1..MaxSaves /\ new \in 0..MaxSaves
        /\ new \in SaveNumbers /\ \A i \in 1..saves : i \in 1..new
        /\ new \in 1..new /\ second \in 0..second /\ second \in Seconds
    BY <1>2, <2>1 DEF SaveNote, ProfilesTypeOK, SaveNumbers, Seconds
  <2>4. note \in [nr : 0..MaxSaves, at : Seconds] /\ note.nr = new /\ note.at = second
    BY <2>2, <2>3
  <2>5. /\ notes' = [notes EXCEPT ![n] = note]
        /\ late' = IF profile # NoProfile /\ profile.at = second THEN late \cup {new} ELSE late
        /\ UNCHANGED <<second, profile, looked, refresh>>
    BY <1>2, <2>1, <2>2 DEF SaveNote
  <2>6. /\ notes' \in [Notes -> [nr : 0..MaxSaves, at : Seconds]]
        /\ notes'[n] = note
        /\ \A m \in Notes \ {n} : notes'[m] = notes[m]
    BY <2>4, <2>5 DEF ProfilesTypeOK
  <2>7. ProfilesTypeOK'
    BY <2>3, <2>5, <2>6 DEF ProfilesTypeOK
  <2>8. NotesAreNumbered'
    BY <2>3, <2>4, <2>5, <2>6 DEF ProfileInv, NotesAreNumbered, Stored
  <2>9. ASSUME profile # NoProfile, NEW m \in Stored', notes'[m].at <= profile.at
        PROVE  notes'[m].nr \in profile.of \cup late'
    <3>1. CASE m = n
      <4>1. profile.at \in 0..second /\ second <= profile.at
        BY <2>4, <2>6, <2>9, <3>1 DEF ProfileInv, OlderNotesAreCovered
      <4>2. profile.at = second
        BY <4>1 DEF ProfilesTypeOK
      <4> QED BY <2>4, <2>5, <2>6, <2>9, <3>1, <4>2
    <3>2. CASE m # n
      BY <2>5, <2>6, <2>9, <3>2 DEF ProfileInv, OlderNotesAreCovered, Stored
    <3> QED BY <3>1, <3>2
  <2>10. OlderNotesAreCovered'
    BY <2>5, <2>9 DEF ProfileInv, OlderNotesAreCovered
  <2> QED BY <2>7, <2>8, <2>10 DEF ProfileInv
<1>3. ASSUME NEW n \in Notes, DeleteNote(n) PROVE ProfilesTypeOK' /\ ProfileInv'
  <2>1. Missing \in [nr : 0..MaxSaves, at : Seconds]
    BY DEF Missing, Seconds
  <2>2. /\ notes' \in [Notes -> [nr : 0..MaxSaves, at : Seconds]]
        /\ notes'[n] = Missing
        /\ \A m \in Notes \ {n} : notes'[m] = notes[m]
        /\ UNCHANGED <<second, saves, profile, looked, refresh, late>>
    BY <1>3, <2>1 DEF DeleteNote, ProfilesTypeOK
  <2>3. \A m \in Stored' : m \in Stored /\ notes'[m] = notes[m]
    BY <2>2 DEF Stored
  <2> QED BY <2>2, <2>3 DEF ProfilesTypeOK, ProfileInv, NotesAreNumbered, OlderNotesAreCovered
<1>4. ASSUME UNCHANGED <<second, notes, saves, profile, late>>,
             looked' \in Seconds,
             refresh' \in [asking : BOOLEAN, of : SUBSET SaveNumbers, began : Seconds]
      PROVE  ProfilesTypeOK' /\ ProfileInv'
  BY <1>4 DEF ProfilesTypeOK, ProfileInv, NotesAreNumbered, OlderNotesAreCovered, Stored
<1>5. NoRefresh \in [asking : BOOLEAN, of : SUBSET SaveNumbers, began : Seconds] /\ -1 \in Seconds
  <2>1. {} \in SUBSET SaveNumbers /\ -1 \in Seconds
    BY DEF Seconds
  <2> QED BY <2>1 DEF NoRefresh
<1>6. CASE RestartRefresh
  BY <1>4, <1>5, <1>6 DEF RestartRefresh
<1>7. CASE ChangeGate
  BY <1>4, <1>7 DEF ChangeGate, ProfilesTypeOK, Seconds
<1>8. CASE AskForProfile
  <2>1. Numbers \in SUBSET SaveNumbers /\ second \in Seconds
    BY NumbersAreOfSaves DEF ProfileInv, ProfilesTypeOK, Seconds
  <2>2. refresh' \in [asking : BOOLEAN, of : SUBSET SaveNumbers, began : Seconds]
    BY <1>8, <2>1 DEF AskForProfile
  <2> QED BY <1>4, <1>8, <2>2 DEF AskForProfile, ProfilesTypeOK
<1>9. ASSUME NEW failed \in BOOLEAN, StoreProfile(failed) PROVE ProfilesTypeOK' /\ ProfileInv'
  <2>1. refresh.of \in SUBSET SaveNumbers /\ {} \in SUBSET SaveNumbers /\ refresh.began \in Seconds
    BY DEF ProfilesTypeOK
  <2>2. PICK of \in SUBSET SaveNumbers : of = IF failed THEN {} ELSE refresh.of
    BY <2>1
  <2>3. /\ profile' = [of |-> of, at |-> second]
        /\ late' = Numbers \ of
        /\ looked' = refresh.began /\ refresh' = NoRefresh
        /\ UNCHANGED <<second, notes, saves>>
    BY <1>9, <2>2 DEF StoreProfile
  <2>4. profile' \in ProfileRows /\ profile'.of = of /\ profile'.at = second /\ second \in 0..second
    BY <2>2, <2>3 DEF ProfileRows, ProfilesTypeOK, Seconds
  <2>5. late' \subseteq SaveNumbers
    BY <2>3, NumbersAreOfSaves DEF ProfileInv
  <2>6. ProfilesTypeOK'
    BY <1>5, <2>1, <2>3, <2>4, <2>5 DEF ProfilesTypeOK
  <2>7. NotesAreNumbered'
    BY <2>3 DEF ProfileInv, NotesAreNumbered, Stored
  <2>8. \A n \in Stored : notes[n].nr \in of \cup (Numbers \ of)
    BY DEF Numbers
  <2>9. OlderNotesAreCovered'
    BY <2>3, <2>4, <2>8 DEF OlderNotesAreCovered, Stored
  <2> QED BY <2>6, <2>7, <2>9 DEF ProfileInv
<1>10. CASE UNCHANGED profileVars
  BY <1>4, <1>10 DEF profileVars, ProfilesTypeOK
<1> QED BY <1>1, <1>2, <1>3, <1>6, <1>7, <1>8, <1>9, <1>10 DEF ProfilesNext

\* The variables of the profiles keep their types, and the invariants above hold.
THEOREM ProfilesAreSound == ProfilesSpec => [](ProfilesTypeOK /\ ProfileInv)
<1>1. ProfilesInit => ProfilesTypeOK /\ ProfileInv
  <2> SUFFICES ASSUME ProfilesInit PROVE ProfilesTypeOK /\ ProfileInv
    OBVIOUS
  <2>1. /\ Missing \in [nr : 0..MaxSaves, at : Seconds]
        /\ -1 \in Seconds /\ 0 \in 0..MaxSecond /\ 0 \in 0..MaxSaves
    BY ProfilesAssumption DEF ProfilesAssumption, Missing, Seconds
  <2>2. {} \in SUBSET SaveNumbers
    OBVIOUS
  <2>3. NoProfile \in ProfileRows
        /\ NoRefresh \in [asking : BOOLEAN, of : SUBSET SaveNumbers, began : Seconds]
    BY <2>1, <2>2 DEF NoProfile, NoRefresh, ProfileRows
  <2>4. ProfilesTypeOK
    BY <2>1, <2>3 DEF ProfilesInit, ProfilesTypeOK
  <2>5. ProfileInv
    BY DEF ProfilesInit, ProfileInv, NotesAreNumbered, OlderNotesAreCovered, Stored
  <2> QED BY <2>4, <2>5
<1> QED BY <1>1, ProfilesStep, PTL DEF ProfilesSpec

\* A refresh that the change-gate ends early loses nothing that came at a quiet time.
THEOREM SkippingLosesNothing == ProfilesSpec => SkippedIsCovered
<1>1. ProfilesTypeOK /\ ProfileInv =>
         [ChangeGate => Numbers \subseteq profile.of \cup late]_profileVars
  <2> SUFFICES ASSUME ProfilesTypeOK, ProfileInv, ChangeGate, NEW n \in Stored
               PROVE  notes[n].nr \in profile.of \cup late
    BY DEF Numbers
  <2>1. PICK times : times = {notes[m].at : m \in Stored} \cup {0}
    OBVIOUS
  <2>2. times \subseteq Int /\ times # {} /\ \A i \in times : i <= second
    BY <2>1 DEF ProfileInv, NotesAreNumbered, ProfilesTypeOK
  <2>3. second \in Int
    BY ProfilesAssumption DEF ProfilesAssumption, ProfilesTypeOK
  <2>4. Max(times) \in times /\ \A i \in times : i <= Max(times)
    BY <2>2, <2>3, MaxOfBounded
  <2>5. profile # NoProfile /\ Max(times) <= profile.at
    BY <2>1 DEF ChangeGate, NothingNewer, Newest
  <2>6. notes[n].at \in times /\ profile.at \in Int
    BY <2>1, <2>5 DEF ProfileInv, OlderNotesAreCovered
  <2>7. notes[n].at <= profile.at
    <3>1. notes[n].at <= Max(times)
      BY <2>4, <2>6
    <3>2. notes[n].at \in Int /\ Max(times) \in Int
      BY <2>2, <2>4, <2>6
    <3> QED BY <2>5, <2>6, <3>1, <3>2
  <2> QED BY <2>5, <2>7 DEF ProfileInv, OlderNotesAreCovered
<1> QED BY <1>1, ProfilesAreSound, PTL DEF SkippedIsCovered

-----------------------------------------------------------------------------
(* The windows of the day *)

\* The remainder of a number that is less than a day from midnight.
LEMMA AroundMidnight ==
  ASSUME NEW x \in Int, -Day <= x, x < Day
  PROVE  x % Day = IF x >= 0 THEN x ELSE x + Day
BY IdleWindowsAssumption DEF IdleWindowsAssumption

\* A window holds the times from its start to its end, midnight or not, and the
\* start that is announced is the next one, for every length of the day.
THEOREM WindowsKeepTime == WindowsSpec => []WindowsMatchTheClock
<1>1. asked \in Questions => WindowsMatchTheClock
  <2> SUFFICES ASSUME asked \in Questions PROVE WindowsMatchTheClock
    OBVIOUS
  <2>1. PICK start \in Times, end \in Times, now \in Times :
          start = asked.start /\ end = asked.end /\ now = asked.now
    BY DEF Questions
  <2>2. /\ start \in 0..(Day - 1) /\ end \in 0..(Day - 1) /\ now \in 0..(Day - 1)
        /\ Day \in Nat /\ Day > 0
    BY IdleWindowsAssumption DEF IdleWindowsAssumption, Times
  <2>3. /\ Until(start, now) = IF now >= start THEN now - start ELSE now - start + Day
        /\ Until(start, end) = IF end >= start THEN end - start ELSE end - start + Day
    BY <2>2, AroundMidnight DEF Until
  <2>4. start # end => (InWindow(start, end, now) <=> Until(start, now) < Until(start, end))
    BY <2>2, <2>3 DEF InWindow
  <2>5. PICK next : next = NextIdleWindow(start, now)
    OBVIOUS
  <2>6. next = (IF start <= now THEN start + Day ELSE start) /\ next - now \in 1..Day
    BY <2>2, <2>5 DEF NextIdleWindow
  <2>7. next % Day = start
    BY <2>2, <2>6
  <2> QED BY <2>1, <2>4, <2>5, <2>6, <2>7 DEF WindowsMatchTheClock
<1>2. WindowsInit => asked \in Questions
  BY DEF WindowsInit
<1>3. asked \in Questions /\ [WindowsNext]_asked => (asked \in Questions)'
  BY DEF WindowsNext
<1> QED BY <1>1, <1>2, <1>3, PTL DEF WindowsSpec

-----------------------------------------------------------------------------
(* The reports of the health monitor *)

\* The cadence counts no more polls than the operator has waited: a restart starts it
\* again, and only a report that was sent ends the wait.
CadenceIsLate == beat \in Nat /\ silence \in Nat /\ beat <= silence

\* Every step keeps the cadence behind the wait, and ends no wait before its time.
LEMMA CadenceStep ==
  ASSUME CadenceIsLate, [HealthNext]_healthVars
  PROVE  CadenceIsLate' /\ (silence' = 0 /\ silence # 0 => silence >= Interval)
<1>1. Interval \in Nat
  BY HealthAssumption DEF HealthAssumption
<1>2. CASE PollIntervalPasses
  BY <1>1, <1>2 DEF PollIntervalPasses, AtMost, CadenceIsLate
<1>3. CASE ReportAndSleep
  BY <1>1, <1>3 DEF ReportAndSleep, CadenceIsLate
<1>4. CASE RestartMonitor
  BY <1>4 DEF RestartMonitor, FirstBeat, CadenceIsLate
<1>5. CASE Evaluate \/ LookAtWindow \/ Send \/ ReadingTurns \/ WindowTurns \/ UNCHANGED healthVars
  BY <1>5 DEF Evaluate, LookAtWindow, Send, ReadingTurns, WindowTurns, healthVars, CadenceIsLate
<1> QED BY <1>2, <1>3, <1>4, <1>5 DEF HealthNext

\* Two reports that were sent are an interval apart, however often the process restarts.
THEOREM ReportsAreSpaced == HealthSpec => ReportsKeepTheirDistance
<1>1. HealthInit => CadenceIsLate
  BY HealthAssumption DEF HealthAssumption, HealthInit, FirstBeat, CadenceIsLate
<1>2. CadenceIsLate /\ [HealthNext]_healthVars =>
         CadenceIsLate' /\ [silence' = 0 /\ silence # 0 => silence >= Interval]_healthVars
  BY CadenceStep
<1> QED BY <1>1, <1>2, PTL DEF HealthSpec, ReportsKeepTheirDistance
-----------------------------------------------------------------------------
(* The news of the health monitor *)

\* Where what comes up to each member of a finite set is a chain, the members are numbered
\* by how many come up to them.
LEMMA ChainsAreCounted ==
  ASSUME NEW S, IsFiniteSet(S), NEW upTo \in [S -> SUBSET S],
         \A i \in S : i \in upTo[i],
         \A i, k \in S : i # k =>
            upTo[i] # upTo[k] /\ (upTo[i] \subseteq upTo[k] \/ upTo[k] \subseteq upTo[i])
  PROVE  /\ Cardinality(S) \in Nat
         /\ \A i \in S : Cardinality(upTo[i]) \in 1..Cardinality(S)
         /\ \A n \in 1..Cardinality(S) : \E i \in S : Cardinality(upTo[i]) = n
         /\ \A i, k \in S : Cardinality(upTo[i]) = Cardinality(upTo[k]) => i = k
<1>1. PICK size \in Nat : size = Cardinality(S)
  BY FS_CardinalityType
<1>2. PICK rank : rank = [i \in S |-> Cardinality(upTo[i])]
  OBVIOUS
<1>3. ASSUME NEW i \in S PROVE IsFiniteSet(upTo[i]) /\ rank[i] \in 1..size
  <2>1. upTo[i] \in SUBSET S /\ upTo[i] # {}
    OBVIOUS
  <2>2. IsFiniteSet(upTo[i]) /\ Cardinality(upTo[i]) <= size
    BY <1>1, <2>1, FS_Subset
  <2>3. Cardinality(upTo[i]) # 0 /\ Cardinality(upTo[i]) \in Nat
    BY <2>1, <2>2, FS_EmptySet, FS_CardinalityType
  <2> QED BY <1>2, <2>2, <2>3
<1>4. ASSUME NEW i \in S, NEW k \in S, i # k PROVE rank[i] # rank[k]
  <2>0. IsFiniteSet(upTo[i]) /\ IsFiniteSet(upTo[k])
    BY <1>3
  <2>1. upTo[i] # upTo[k] /\ (upTo[i] \subseteq upTo[k] \/ upTo[k] \subseteq upTo[i])
    BY <1>4
  <2>2. CASE upTo[i] \subseteq upTo[k]
    <3>1. upTo[i] \in SUBSET upTo[k]
      BY <2>2
    <3> QED BY <1>2, <2>0, <2>1, <3>1, FS_Subset
  <2>3. CASE upTo[k] \subseteq upTo[i]
    <3>1. upTo[k] \in SUBSET upTo[i]
      BY <2>3
    <3> QED BY <1>2, <2>0, <2>1, <3>1, FS_Subset
  <2> QED BY <2>1, <2>2, <2>3
<1>5. rank \in Injection(S, 1..size)
  BY <1>2, <1>3, <1>4 DEF Injection, IsInjective
<1>6. rank \in Surjection(S, 1..size)
  BY <1>1, <1>5, FS_Interval, FS_Injection
<1>7. \A n \in 1..size : \E i \in S : rank[i] = n
  BY <1>6 DEF Surjection
<1> QED BY <1>1, <1>2, <1>3, <1>4, <1>7

\* The numbers of a finite set, put in order, are the numbers of the set.
LEMMA AscendingCounts ==
  ASSUME NEW S, S \subseteq Nat, IsFiniteSet(S)
  PROVE  /\ Cardinality(S) \in Nat
         /\ \A n \in 1..Cardinality(S) : Ascending(S)[n] \in S
         /\ \A i \in S : \E n \in 1..Cardinality(S) : Ascending(S)[n] = i
<1>1. PICK upTo \in [S -> SUBSET S] : \A i \in S : upTo[i] = {j \in S : j <= i}
  <2>1. [i \in S |-> {j \in S : j <= i}] \in [S -> SUBSET S]
    OBVIOUS
  <2> QED BY <2>1
<1>2. \A i \in S : i \in Nat /\ i <= i
  OBVIOUS
<1>3. \A i \in S : i \in upTo[i]
  BY <1>1, <1>2
<1>4. ASSUME NEW i \in S, NEW k \in S, i < k
      PROVE  upTo[i] # upTo[k] /\ upTo[i] \subseteq upTo[k]
  <2>1. ~(k <= i) /\ \A j \in S : j <= i => j <= k
    BY <1>2, <1>4
  <2>2. k \notin upTo[i] /\ k \in upTo[k] /\ \A j \in upTo[i] : j \in upTo[k]
    BY <1>1, <1>3, <2>1
  <2> QED BY <2>2
<1>5. \A i, k \in S : i # k => i < k \/ k < i
  BY <1>2
<1>6. /\ Cardinality(S) \in Nat
      /\ \A i \in S : Cardinality(upTo[i]) \in 1..Cardinality(S)
      /\ \A n \in 1..Cardinality(S) : \E i \in S : Cardinality(upTo[i]) = n
      /\ \A i, k \in S : Cardinality(upTo[i]) = Cardinality(upTo[k]) => i = k
  <2>1. \A i, k \in S : i # k =>
            upTo[i] # upTo[k] /\ (upTo[i] \subseteq upTo[k] \/ upTo[k] \subseteq upTo[i])
    BY <1>4, <1>5
  <2> QED BY <1>3, <2>1, ChainsAreCounted
<1>7. \A n \in 1..Cardinality(S) :
        Ascending(S)[n] = CHOOSE i \in S : Cardinality(upTo[i]) = n
  BY <1>1 DEF Ascending
<1>8. \A n \in 1..Cardinality(S) : /\ Ascending(S)[n] \in S
                                    /\ Cardinality(upTo[Ascending(S)[n]]) = n
  BY <1>6, <1>7
<1>9. ASSUME NEW i \in S PROVE \E n \in 1..Cardinality(S) : Ascending(S)[n] = i
  <2>1. PICK n \in 1..Cardinality(S) : n = Cardinality(upTo[i])
    BY <1>6
  <2>2. Ascending(S)[n] \in S /\ Cardinality(upTo[Ascending(S)[n]]) = Cardinality(upTo[i])
    BY <1>8, <2>1
  <2>3. Ascending(S)[n] = i
    BY <1>6, <2>2
  <2> QED BY <2>3
<1> QED BY <1>6, <1>8, <1>9

\* The indices of a sequence, or some of them, can be put in order.
LEMMA IndicesAreFinite ==
  ASSUME NEW n \in Nat, NEW S \in SUBSET (1..n)
  PROVE  S \subseteq Nat /\ IsFiniteSet(S)
<1>1. S \subseteq Nat /\ 1 \in Int /\ n \in Int
  OBVIOUS
<1>2. IsFiniteSet(1..n)
  BY <1>1, FS_Interval
<1> QED BY <1>1, <1>2, FS_Subset

\* What notices say last about a kind they mention is said by the last of those about it.
LEMMA LastWordIsSaid ==
  ASSUME NEW s \in Seq(Notices), NEW k \in Mentioned(s)
  PROVE  \E i \in About(k, s) : (\A j \in About(k, s) : j <= i) /\ LastWord(k, s) = s[i].says
<1>1. /\ About(k, s) \subseteq Int /\ About(k, s) # {}
      /\ Len(s) \in Int /\ \A j \in About(k, s) : j <= Len(s)
  BY DEF About, Mentioned
<1>2. \E i \in About(k, s) : \A j \in About(k, s) : j <= i
  BY <1>1, MaxOfBounded
<1> QED BY <1>2 DEF LastWord

\* The summary of what waited mentions every notice, and nothing else.
LEMMA SummaryIsComplete ==
  ASSUME NEW s \in Seq(Notices)
  PROVE  /\ Consolidated(s) \in Seq(Notices)
         /\ \A n \in DOMAIN Consolidated(s) : \E i \in DOMAIN s : Consolidated(s)[n] = s[i]
         /\ \A i \in DOMAIN s : \E n \in DOMAIN Consolidated(s) : Consolidated(s)[n] = s[i]
<1>1. PICK firsts : firsts = {i \in DOMAIN s : \A j \in 1..(i - 1) : s[j] # s[i]}
  OBVIOUS
<1>2. Len(s) \in Nat /\ firsts \in SUBSET (1..Len(s))
  BY <1>1
<1>3. firsts \subseteq Nat /\ IsFiniteSet(firsts)
  BY <1>2, IndicesAreFinite
<1>4. PICK size \in Nat : size = Cardinality(firsts)
  BY <1>3, AscendingCounts
<1>5. PICK order : order = Ascending(firsts)
  OBVIOUS
<1>6. /\ \A n \in 1..size : order[n] \in firsts
      /\ \A i \in firsts : \E n \in 1..size : order[n] = i
      /\ DOMAIN order = 1..size
  <2>1. DOMAIN order = 1..size
    BY <1>4, <1>5 DEF Ascending
  <2> QED BY <1>4, <1>5, <1>3, <2>1, AscendingCounts
<1>7. Consolidated(s) = [n \in 1..size |-> s[order[n]]]
  BY <1>1, <1>5, <1>6 DEF Consolidated
<1>8. Consolidated(s) \in Seq(Notices) /\ DOMAIN Consolidated(s) = 1..size
  <2>1. \A n \in 1..size : s[order[n]] \in Notices
    <3> TAKE n \in 1..size
    <3>1. order[n] \in 1..Len(s)
      BY <1>2, <1>6
    <3> QED BY <3>1
  <2> QED BY <1>7, <2>1
<1>9. ASSUME NEW i \in DOMAIN s PROVE \E f \in firsts : s[f] = s[i]
  <2>1. PICK same : same = {j \in DOMAIN s : s[j] = s[i]}
    OBVIOUS
  <2>2. same \subseteq Nat /\ same # {}
    BY <2>1
  <2>3. PICK f \in same : \A j \in same : f <= j
    BY <2>2, LeastNatural
  <2>4. f \in 1..Len(s) /\ \A j \in 1..(f - 1) : j \in 1..Len(s) /\ ~(f <= j)
    BY <2>1
  <2> QED BY <1>1, <2>1, <2>3, <2>4
<1>10. ASSUME NEW n \in 1..size PROVE \E i \in DOMAIN s : Consolidated(s)[n] = s[i]
  <2>1. order[n] \in 1..Len(s) /\ Consolidated(s)[n] = s[order[n]]
    BY <1>2, <1>6, <1>7
  <2> QED BY <2>1
<1>11. ASSUME NEW i \in DOMAIN s PROVE \E n \in 1..size : Consolidated(s)[n] = s[i]
  BY <1>6, <1>7, <1>9
<1> QED BY <1>8, <1>10, <1>11

\* A summary of one line says what the last notice said.
LEMMA OneLineSaysItAll ==
  ASSUME NEW s \in Seq(Notices), NEW k \in Mentioned(s), Len(Consolidated(s)) = 1
  PROVE  LastWord(k, Consolidated(s)) = LastWord(k, s)
<1>1. PICK i \in DOMAIN s : LastWord(k, s) = s[i].says /\ s[i].kind = k
  BY LastWordIsSaid DEF About
<1>2. Consolidated(s)[1] = s[i]
  BY <1>1, SummaryIsComplete
<1>3. k \in Mentioned(Consolidated(s))
  BY <1>1, <1>2, SummaryIsComplete DEF Mentioned
<1>4. PICK n \in DOMAIN Consolidated(s) : LastWord(k, Consolidated(s)) = Consolidated(s)[n].says
  BY <1>3, SummaryIsComplete, LastWordIsSaid DEF About
<1> QED BY <1>1, <1>2, <1>4, SummaryIsComplete
\* What is found in a poll is said about kinds that can be read and have something new.
LEMMA NewsIsSaid ==
  ASSUME NEW r \in SUBSET Watched
  PROVE  /\ SaidInTurn(r) \in Seq(Notices)
         /\ \A n \in DOMAIN SaidInTurn(r) : \E k \in r : Speaks(k) /\ SaidInTurn(r)[n] = Said(k)
         /\ \A k \in r : Speaks(k) => \E n \in DOMAIN SaidInTurn(r) : SaidInTurn(r)[n] = Said(k)
<1>1. PICK speaking : speaking = {i \in DOMAIN Kinds : Kinds[i] \in r /\ Speaks(Kinds[i])}
  OBVIOUS
<1>2. Len(Kinds) \in Nat /\ DOMAIN Kinds = 1..Len(Kinds) /\ speaking \in SUBSET (1..Len(Kinds))
  BY <1>1, HealthAssumption DEF HealthAssumption
<1>3. speaking \subseteq Nat /\ IsFiniteSet(speaking)
  BY <1>2, IndicesAreFinite
<1>4. PICK size \in Nat : size = Cardinality(speaking)
  BY <1>3, AscendingCounts
<1>5. PICK order : order = Ascending(speaking)
  OBVIOUS
<1>6. DOMAIN order = 1..size
  BY <1>4, <1>5 DEF Ascending
<1>7. /\ \A n \in 1..size : order[n] \in speaking
      /\ \A i \in speaking : \E n \in 1..size : order[n] = i
  BY <1>3, <1>4, <1>5, AscendingCounts
<1>8. SaidInTurn(r) = [n \in 1..size |-> Said(Kinds[order[n]])]
  BY <1>1, <1>5, <1>6 DEF SaidInTurn
<1>9. ASSUME NEW n \in 1..size
      PROVE  \E k \in r : Speaks(k) /\ SaidInTurn(r)[n] = Said(k) /\ Said(k) \in Notices
  <2>1. PICK k \in r : k = Kinds[order[n]] /\ Speaks(k)
    BY <1>1, <1>7
  <2>2. Said(k) \in Notices
    BY <2>1 DEF Said, Notices
  <2> QED BY <1>8, <2>1, <2>2
<1>10. SaidInTurn(r) \in Seq(Notices) /\ DOMAIN SaidInTurn(r) = 1..size
  <2>1. \A n \in 1..size : Said(Kinds[order[n]]) \in Notices
    BY <1>8, <1>9
  <2> QED BY <1>8, <2>1
<1>11. ASSUME NEW k \in r, Speaks(k) PROVE \E n \in 1..size : SaidInTurn(r)[n] = Said(k)
  <2>1. PICK i \in DOMAIN Kinds : Kinds[i] = k
    BY DEF Watched
  <2>2. PICK n \in 1..size : order[n] = i
    BY <1>1, <1>7, <1>11, <2>1
  <2> QED BY <1>8, <2>1, <2>2
<1> QED BY <1>9, <1>10, <1>11

\* What two notices in a row say last, the second says if it can.
LEMMA LastWordOfBoth ==
  ASSUME NEW q \in Seq(Notices), NEW f \in Seq(Notices), NEW k
  PROVE  /\ Mentioned(q \o f) = Mentioned(q) \cup Mentioned(f)
         /\ k \in Mentioned(f) => LastWord(k, q \o f) = LastWord(k, f)
         /\ k \in Mentioned(q) \ Mentioned(f) => LastWord(k, q \o f) = LastWord(k, q)
<1>0. q \o f \in Seq(Notices)
  OBVIOUS
<1>1. PICK both \in Seq(Notices) : both = q \o f
  BY <1>0
<1>2. /\ Len(both) = Len(q) + Len(f) /\ DOMAIN both = 1..(Len(q) + Len(f))
      /\ \A i \in 1..Len(q) : both[i] = q[i]
      /\ \A i \in 1..Len(f) : both[Len(q) + i] = f[i]
      /\ \A i \in 1..(Len(q) + Len(f)) : i \in 1..Len(q) \/ i - Len(q) \in 1..Len(f)
      /\ DOMAIN q = 1..Len(q) /\ DOMAIN f = 1..Len(f) /\ Len(q) \in Nat /\ Len(f) \in Nat
  BY <1>1
<1>3. Mentioned(both) = Mentioned(q) \cup Mentioned(f)
  <2>1. \A i \in DOMAIN both : both[i].kind \in Mentioned(q) \cup Mentioned(f)
    <3> TAKE i \in DOMAIN both
    <3>1. CASE i \in 1..Len(q)
      BY <1>2, <3>1 DEF Mentioned
    <3>2. CASE i - Len(q) \in 1..Len(f)
      <4>1. both[i] = f[i - Len(q)]
        BY <1>2, <3>2
      <4> QED BY <1>2, <3>2, <4>1 DEF Mentioned
    <3> QED BY <1>2, <3>1, <3>2
  <2>2. \A i \in DOMAIN q : q[i].kind \in Mentioned(both)
    BY <1>2 DEF Mentioned
  <2>3. \A i \in DOMAIN f : f[i].kind \in Mentioned(both)
    <3> TAKE i \in DOMAIN f
    <3>1. Len(q) + i \in DOMAIN both /\ both[Len(q) + i] = f[i]
      BY <1>2
    <3> QED BY <3>1 DEF Mentioned
  <2> QED BY <2>1, <2>2, <2>3 DEF Mentioned
<1>4. ASSUME k \in Mentioned(f) PROVE LastWord(k, both) = LastWord(k, f)
  <2>1. PICK a \in About(k, both) :
          (\A j \in About(k, both) : j <= a) /\ LastWord(k, both) = both[a].says
    BY <1>3, <1>4, LastWordIsSaid
  <2>2. PICK b \in About(k, f) : (\A j \in About(k, f) : j <= b) /\ LastWord(k, f) = f[b].says
    BY <1>4, LastWordIsSaid
  <2>3. b \in 1..Len(f) /\ f[b].kind = k /\ a \in 1..(Len(q) + Len(f)) /\ both[a].kind = k
    BY <1>2, <2>1, <2>2 DEF About
  <2>4. Len(q) + b <= a
    BY <1>2, <2>1, <2>3 DEF About
  <2>5. a - Len(q) \in 1..Len(f) /\ both[a] = f[a - Len(q)]
    <3>1. a - Len(q) \in 1..Len(f) /\ a = Len(q) + (a - Len(q))
      BY <1>2, <2>3, <2>4
    <3> QED BY <1>2, <3>1
  <2>6. a - Len(q) <= b
    BY <1>2, <2>2, <2>3, <2>5 DEF About
  <2>7. a - Len(q) = b
    BY <1>2, <2>3, <2>4, <2>6
  <2> QED BY <2>1, <2>2, <2>5, <2>7
<1>5. ASSUME k \in Mentioned(q), k \notin Mentioned(f) PROVE LastWord(k, both) = LastWord(k, q)
  <2>1. PICK a \in About(k, both) :
          (\A j \in About(k, both) : j <= a) /\ LastWord(k, both) = both[a].says
    BY <1>3, <1>5, LastWordIsSaid
  <2>2. PICK b \in About(k, q) : (\A j \in About(k, q) : j <= b) /\ LastWord(k, q) = q[b].says
    BY <1>5, LastWordIsSaid
  <2>3. b \in 1..Len(q) /\ q[b].kind = k /\ a \in 1..(Len(q) + Len(f)) /\ both[a].kind = k
    BY <1>2, <2>1, <2>2 DEF About
  <2>4. a \in 1..Len(q)
    <3>1. ASSUME a - Len(q) \in 1..Len(f) PROVE FALSE
      <4>1. both[a] = f[a - Len(q)]
        BY <1>2, <2>3, <3>1, SMTT(40)
      <4> QED BY <1>2, <1>5, <2>3, <3>1, <4>1 DEF Mentioned
    <3> QED BY <1>2, <2>3, <3>1
  <2>5. b <= a /\ a <= b
    BY <1>2, <2>1, <2>2, <2>3, <2>4 DEF About
  <2>6. a = b
    BY <1>2, <2>3, <2>4, <2>5
  <2> QED BY <1>2, <2>1, <2>2, <2>4, <2>6
<1> QED BY <1>1, <1>3, <1>4, <1>5

\* A message of one notice says what the notice says.
LEMMA OneNotice ==
  ASSUME NEW n \in Notices
  PROVE  /\ <<n>> \in Seq(Notices) /\ Len(<<n>>) = 1
         /\ Mentioned(<<n>>) = {n.kind}
         /\ LastWord(n.kind, <<n>>) = n.says
<1>1. <<n>> \in Seq(Notices) /\ DOMAIN <<n>> = {1} /\ <<n>>[1] = n /\ Len(<<n>>) = 1
  OBVIOUS
<1>2. Mentioned(<<n>>) = {n.kind} /\ About(n.kind, <<n>>) = {1}
  BY <1>1 DEF Mentioned, About
<1> QED BY <1>1, <1>2, LastWordIsSaid

\* What is sent when the window is open: the summary, if anything waited, and then
\* one message for each notice.
LEMMA OutboxInOrder ==
  ASSUME NEW q \in Seq(Notices), NEW f \in Seq(Notices)
  PROVE  /\ Outbox(q, f) \in Seq(Seq(Notices))
         /\ \E before \in {0, 1} :
                /\ before = 1 <=> q # <<>>
                /\ Len(Outbox(q, f)) = before + Len(f)
                /\ q # <<>> => Outbox(q, f)[1] = Consolidated(q)
                /\ \A j \in 1..Len(f) : Outbox(q, f)[before + j] = <<f[j]>>
<1>1. PICK lines : lines = Lines(f)
  OBVIOUS
<1>2. lines = [i \in 1..Len(f) |-> <<f[i]>>] /\ \A i \in 1..Len(f) : <<f[i]>> \in Seq(Notices)
  BY <1>1 DEF Lines
<1>3. lines \in Seq(Seq(Notices)) /\ Len(lines) = Len(f) /\ \A j \in 1..Len(f) : lines[j] = <<f[j]>>
  BY <1>2
<1>4. CASE q = <<>>
  <2>1. Outbox(q, f) = lines
    BY <1>1, <1>3, <1>4 DEF Outbox
  <2>2. 0 \in {0, 1} /\ \A j \in 1..Len(f) : 0 + j = j
    OBVIOUS
  <2> QED BY <1>3, <1>4, <2>1, <2>2, SMTT(40)
<1>5. CASE q # <<>>
  <2>1. Consolidated(q) \in Seq(Notices)
    BY SummaryIsComplete
  <2>2. Outbox(q, f) = <<Consolidated(q)>> \o lines
    BY <1>1, <1>5 DEF Outbox
  <2>3. PICK first \in Seq(Seq(Notices)) : first = <<Consolidated(q)>>
    <3>1. PICK summary \in Seq(Notices) : summary = Consolidated(q)
      BY <2>1
    <3>2. <<summary>> \in Seq(Seq(Notices))
      OBVIOUS
    <3> QED BY <3>1, <3>2
  <2>4. /\ Len(first) = 1 /\ first[1] = Consolidated(q)
        /\ first \o lines \in Seq(Seq(Notices))
        /\ Len(first \o lines) = 1 + Len(lines)
        /\ (first \o lines)[1] = first[1]
    BY <1>3, <2>3
  <2>5. \A j \in 1..Len(f) : (first \o lines)[1 + j] = lines[j]
    BY <1>3, <2>4, SMTT(40)
  <2> QED BY <1>3, <1>5, <2>2, <2>3, <2>4, <2>5
<1> QED BY <1>4, <1>5
\* The news about a kind, from what was said and what is still to be said of it: the last
\* word on it is the given one, unless the news is lost.  Here q waits for the window, f
\* was just found, o is on its way, said is what the operator last read, and x are the
\* kinds of which news was lost; of these, only a message that stands for itself counts.
NewsSays(k, word, q, f, o, said, x) ==
    /\ k \in Mentioned(f) => LastWord(k, f) = word
    /\ k \in Mentioned(q) \ Mentioned(f) => LastWord(k, q) = word
    /\ k \notin Mentioned(q) \cup Mentioned(f) =>
          /\ \A i \in DOMAIN o :
                 /\ k \in Mentioned(o[i])
                 /\ \A j \in DOMAIN o : j > i => k \notin Mentioned(o[j])
                 /\ Len(o[i]) = 1 \/ k \notin x
                 => LastWord(k, o[i]) = word
          /\ k \notin x /\ (\A i \in DOMAIN o : k \notin Mentioned(o[i])) => said = word

\* Only what is watched is mentioned.
LEMMA WatchedAreMentioned ==
  ASSUME NEW s \in Seq(Notices)
  PROVE  Mentioned(s) \subseteq Watched
<1>1. \A i \in DOMAIN s : s[i] \in Notices
  OBVIOUS
<1> QED BY <1>1 DEF Mentioned, Notices

\* Nothing is mentioned by no notices.
LEMMA NothingMentioned == Mentioned(<<>>) = {}
BY DEF Mentioned

\* A poll finds news of what has changed.
LEMMA NewsIsFound ==
  ASSUME NEW k, NEW old, NEW word, NEW q, NEW f, NEW said, NEW x,
         NewsSays(k, old, q, <<>>, <<>>, said, x),
         k \in Mentioned(f) => LastWord(k, f) = word,
         k \notin Mentioned(f) => word = old
  PROVE  NewsSays(k, word, q, f, <<>>, said, x)
BY NothingMentioned DEF NewsSays

\* With the window open the news goes out, and the summary says what it sums up, unless
\* the kind is marked as folded.
LEMMA NewsGoesOut ==
  ASSUME NEW k, NEW word, NEW q \in Seq(Notices), NEW f \in Seq(Notices), NEW said, NEW x,
         NewsSays(k, word, q, f, <<>>, said, x)
  PROVE  NewsSays(k, word, <<>>, <<>>, Outbox(q, f), said, x \cup Folded(q))
<1>1. PICK o : o = Outbox(q, f)
  OBVIOUS
<1>2. PICK before \in {0, 1} :
        /\ before = 1 <=> q # <<>>
        /\ Len(Outbox(q, f)) = before + Len(f)
        /\ q # <<>> => Outbox(q, f)[1] = Consolidated(q)
        /\ \A j \in 1..Len(f) : Outbox(q, f)[before + j] = <<f[j]>>
  BY OutboxInOrder
<1>3. /\ o \in Seq(Seq(Notices)) /\ Len(o) = before + Len(f)
      /\ q # <<>> => o[1] = Consolidated(q)
      /\ \A j \in 1..Len(f) : o[before + j] = <<f[j]>>
  BY <1>1, <1>2, OutboxInOrder
<1>4. /\ DOMAIN o = 1..(before + Len(f)) /\ Len(f) \in Nat /\ before \in {0, 1}
      /\ DOMAIN f = 1..Len(f) /\ (before = 1 <=> q # <<>>)
  BY <1>2, <1>3
<1>5. Mentioned(Consolidated(q)) = Mentioned(q)
  <2>1. \A n \in DOMAIN Consolidated(q) : Consolidated(q)[n].kind \in Mentioned(q)
    BY SummaryIsComplete DEF Mentioned
  <2>2. \A i \in DOMAIN q : q[i].kind \in Mentioned(Consolidated(q))
    <3> TAKE i \in DOMAIN q
    <3>1. PICK n \in DOMAIN Consolidated(q) : Consolidated(q)[n] = q[i]
      BY SummaryIsComplete
    <3> QED BY <3>1 DEF Mentioned
  <2> QED BY <2>1, <2>2 DEF Mentioned
<1>6. ASSUME NEW j \in 1..Len(f)
      PROVE  before + j \in DOMAIN o /\ Mentioned(o[before + j]) = {f[j].kind}
  <2>1. before + j \in DOMAIN o /\ f[j] \in Notices /\ o[before + j] = <<f[j]>>
    BY <1>3, <1>4
  <2> QED BY <2>1, OneNotice
<1>7. \A i \in DOMAIN o : i - before \in 1..Len(f) \/ (i = 1 /\ q # <<>>)
  BY <1>4
<1>8. ASSUME NEW i \in DOMAIN o, k \in Mentioned(o[i]),
             \A j \in DOMAIN o : j > i => k \notin Mentioned(o[j]),
             Len(o[i]) = 1 \/ k \notin x \cup Folded(q)
      PROVE  LastWord(k, o[i]) = word
  <2>1. CASE i - before \in 1..Len(f)
    <3>1. PICK n \in 1..Len(f) : n = i - before
      BY <2>1
    <3>2. o[i] = <<f[n]>> /\ f[n] \in Notices /\ i = before + n
      BY <1>3, <1>4, <3>1, SMTT(40)
    <3>3. f[n].kind = k /\ LastWord(k, o[i]) = f[n].says
      BY <1>8, <3>2, OneNotice
    <3>4. k \in Mentioned(f)
      BY <1>4, <3>3 DEF Mentioned
    <3>5. PICK m \in About(k, f) : (\A j \in About(k, f) : j <= m) /\ LastWord(k, f) = f[m].says
      BY <3>4, LastWordIsSaid
    <3>6. m \in 1..Len(f) /\ f[m].kind = k /\ n <= m
      BY <1>4, <3>3, <3>5 DEF About
    <3>7. ~(before + m > i)
      BY <1>6, <1>8, <3>6
    <3>8. m = n
      BY <1>4, <3>2, <3>6, <3>7
    <3> QED BY <3>3, <3>4, <3>5, <3>8 DEF NewsSays
  <2>2. CASE ~(i - before \in 1..Len(f))
    <3>1. i = 1 /\ q # <<>> /\ before = 1 /\ o[i] = Consolidated(q)
      BY <1>3, <1>4, <1>7, <2>2
    <3>2. k \notin Mentioned(f)
      <4>1. ASSUME NEW j \in 1..Len(f), f[j].kind = k PROVE FALSE
        <5>1. before + j \in DOMAIN o /\ k \in Mentioned(o[before + j])
          BY <1>6, <4>1
        <5>2. before + j > i
          BY <1>4, <3>1
        <5> QED BY <1>8, <5>1, <5>2
      <4> QED BY <1>4, <4>1 DEF Mentioned
    <3>3. k \in Mentioned(q)
      BY <1>5, <1>8, <3>1
    <3>4. LastWord(k, q) = word
      BY <3>2, <3>3 DEF NewsSays
    <3>5. CASE Len(o[i]) = 1
      BY <3>1, <3>3, <3>4, <3>5, OneLineSaysItAll
    <3>6. CASE k \notin Folded(q)
      BY <3>1, <3>3, <3>4, <3>6 DEF Folded
    <3> QED BY <1>8, <3>5, <3>6
  <2> QED BY <2>1, <2>2
<1>9. ASSUME k \notin x \cup Folded(q), \A i \in DOMAIN o : k \notin Mentioned(o[i])
      PROVE  said = word
  <2>1. k \notin Mentioned(f)
    BY <1>4, <1>6, <1>9 DEF Mentioned
  <2>2. k \notin Mentioned(q)
    <3>1. CASE q = <<>>
      BY <3>1, NothingMentioned
    <3>2. CASE q # <<>>
      BY <1>3, <1>4, <1>5, <1>9, <3>2
    <3> QED BY <3>1, <3>2
  <2> QED BY <1>9, <2>1, <2>2 DEF NewsSays
<1> QED BY <1>1, <1>8, <1>9, NothingMentioned DEF NewsSays

\* With the window closed the news waits behind what waits already.
LEMMA NewsWaits ==
  ASSUME NEW k, NEW word, NEW q \in Seq(Notices), NEW f \in Seq(Notices), NEW said, NEW x,
         NewsSays(k, word, q, f, <<>>, said, x)
  PROVE  NewsSays(k, word, q \o f, <<>>, <<>>, said, x)
BY LastWordOfBoth, NothingMentioned DEF NewsSays

\* A message that was sent is read; one that stands for itself ends the doubt.
LEMMA NewsIsRead ==
  ASSUME NEW k, NEW word, NEW o \in Seq(Seq(Notices)), o # <<>>, NEW said, NEW x,
         \A i \in DOMAIN o : i > 1 => Len(o[i]) = 1,
         NewsSays(k, word, <<>>, <<>>, o, said, x),
         NEW m, m = Head(o)
  PROVE  NewsSays(k, word, <<>>, <<>>, Tail(o),
                  IF k \in Mentioned(m) THEN LastWord(k, m) ELSE said,
                  IF Len(m) = 1 THEN x \ Mentioned(m) ELSE x)
<1>1. PICK rest : rest = Tail(o)
  OBVIOUS
<1>2. PICK lost : lost = IF Len(m) = 1 THEN x \ Mentioned(m) ELSE x
  OBVIOUS
<1>3. PICK read : read = IF k \in Mentioned(m) THEN LastWord(k, m) ELSE said
  OBVIOUS
<1>4. /\ m = o[1] /\ 1 \in DOMAIN o
      /\ Len(o) \in Nat /\ DOMAIN o = 1..Len(o) /\ DOMAIN rest = 1..(Len(o) - 1)
      /\ \A i \in DOMAIN rest : i + 1 \in DOMAIN o /\ rest[i] = o[i + 1]
  BY <1>1
<1>5. ASSUME NEW i \in DOMAIN rest, k \in Mentioned(rest[i]),
             \A j \in DOMAIN rest : j > i => k \notin Mentioned(rest[j]),
             Len(rest[i]) = 1 \/ k \notin lost
      PROVE  LastWord(k, rest[i]) = word
  <2>1. PICK n \in DOMAIN o : n = i + 1 /\ n > 1 /\ o[n] = rest[i]
    BY <1>4
  <2>2. ASSUME NEW j \in DOMAIN o, j > n PROVE k \notin Mentioned(o[j])
    <3>1. j - 1 \in DOMAIN rest /\ j - 1 > i /\ rest[j - 1] = o[j]
      BY <1>4, <2>1, <2>2, SMTT(40)
    <3> QED BY <1>5, <3>1
  <2> QED BY <1>5, <2>1, <2>2, NothingMentioned DEF NewsSays
<1>6. ASSUME k \notin lost, \A i \in DOMAIN rest : k \notin Mentioned(rest[i])
      PROVE  read = word
  <2>1. ASSUME NEW j \in DOMAIN o, j > 1 PROVE k \notin Mentioned(o[j])
    <3>1. j - 1 \in DOMAIN rest /\ rest[j - 1] = o[j]
      BY <1>4, <2>1
    <3> QED BY <1>6, <3>1
  <2>2. CASE k \in Mentioned(m)
    <3>1. Len(o[1]) = 1 \/ k \notin x
      BY <1>2, <1>4, <1>6
    <3> QED BY <1>3, <1>4, <2>1, <2>2, <3>1, NothingMentioned DEF NewsSays
  <2>3. CASE k \notin Mentioned(m)
    <3>1. \A i \in DOMAIN o : k \notin Mentioned(o[i])
      BY <1>4, <2>1, <2>3
    <3>2. k \notin x
      BY <1>2, <1>6, <2>3
    <3> QED BY <1>3, <2>3, <3>1, <3>2, NothingMentioned DEF NewsSays
  <2> QED BY <2>2, <2>3
<1> QED BY <1>1, <1>2, <1>3, <1>5, <1>6, NothingMentioned DEF NewsSays

\* A message that was not sent leaves its kinds in doubt.
LEMMA NewsIsLost ==
  ASSUME NEW k, NEW word, NEW o \in Seq(Seq(Notices)), o # <<>>, NEW said, NEW x,
         NewsSays(k, word, <<>>, <<>>, o, said, x),
         NEW m, m = Head(o)
  PROVE  NewsSays(k, word, <<>>, <<>>, Tail(o), said, x \cup Mentioned(m))
<1>1. PICK rest : rest = Tail(o)
  OBVIOUS
<1>2. /\ m = o[1] /\ 1 \in DOMAIN o
      /\ Len(o) \in Nat /\ DOMAIN o = 1..Len(o) /\ DOMAIN rest = 1..(Len(o) - 1)
      /\ \A i \in DOMAIN rest : i + 1 \in DOMAIN o /\ rest[i] = o[i + 1]
  BY <1>1
<1>3. ASSUME NEW i \in DOMAIN rest, k \in Mentioned(rest[i]),
             \A j \in DOMAIN rest : j > i => k \notin Mentioned(rest[j]),
             Len(rest[i]) = 1 \/ k \notin x \cup Mentioned(m)
      PROVE  LastWord(k, rest[i]) = word
  <2>1. PICK n \in DOMAIN o : n = i + 1 /\ o[n] = rest[i]
    BY <1>2
  <2>2. ASSUME NEW j \in DOMAIN o, j > n PROVE k \notin Mentioned(o[j])
    <3>1. j - 1 \in DOMAIN rest /\ j - 1 > i /\ rest[j - 1] = o[j]
      BY <1>2, <2>1, <2>2, SMTT(40)
    <3> QED BY <1>3, <3>1
  <2> QED BY <1>3, <2>1, <2>2, NothingMentioned DEF NewsSays
<1>4. ASSUME k \notin x \cup Mentioned(m), \A i \in DOMAIN rest : k \notin Mentioned(rest[i])
      PROVE  said = word
  <2>1. ASSUME NEW j \in DOMAIN o PROVE k \notin Mentioned(o[j])
    <3>1. CASE j = 1
      BY <1>2, <1>4, <3>1
    <3>2. CASE j # 1
      <4>1. j - 1 \in DOMAIN rest /\ rest[j - 1] = o[j]
        BY <1>2, <3>2
      <4> QED BY <1>4, <4>1
    <3> QED BY <3>1, <3>2
  <2> QED BY <1>4, <2>1, NothingMentioned DEF NewsSays
<1> QED BY <1>1, <1>3, <1>4, NothingMentioned DEF NewsSays
\* What the tracker of a kind holds true.
Word(k) == IF tracker[k].alerted THEN "trouble" ELSE "fine"

\* Notices are found and sent within a poll, a summary before all others; they do not
\* wait for the window while any are on their way.
MonitorIsInStep ==
    /\ monitor.at # "evaluated" => monitor.fired = <<>>
    /\ monitor.outbox # <<>> => monitor.at = "sending" /\ queue = <<>>
    /\ \A i \in DOMAIN monitor.outbox : i > 1 => Len(monitor.outbox[i]) = 1

\* At every step of the poll the last word about a kind is what its tracker holds true.
NewsIsTrue ==
    \A k \in Watched :
        NewsSays(k, Word(k), queue, monitor.fired, monitor.outbox, told[k], excused)

HealthInv == MonitorIsInStep /\ NewsIsTrue

\* A reading changes what a tracker holds true if, and only if, it has something to say.
LEMMA ReadingsAreToldOf ==
  ASSUME HealthTypeOK, NEW k \in Watched
  PROVE  /\ Evaluated(k) \in [alerted : BOOLEAN, streak : 0..Consecutive, age : 0..Cooldown]
         /\ Speaks(k) => (Evaluated(k).alerted <=> k \in breached)
         /\ ~Speaks(k) => (Evaluated(k).alerted <=> tracker[k].alerted)
<1>1. PICK t \in [alerted : BOOLEAN, streak : 0..Consecutive, age : 0..Cooldown] : t = tracker[k]
  BY DEF HealthTypeOK
<1>2. Consecutive \in Nat /\ Cooldown \in Nat
  BY HealthAssumption DEF HealthAssumption
<1>3. CASE k \in breached
  <2>1. Evaluated(k) = Breach(t) /\ (Speaks(k) <=> Fires(t))
    BY <1>1, <1>3 DEF Evaluated, Speaks
  <2>2. PICK streak \in 0..Consecutive : streak = AtMost(t.streak + 1, Consecutive)
    BY <1>2 DEF AtMost
  <2>3. PICK age \in 0..Cooldown : age = IF Fires(t) THEN 0 ELSE t.age
    BY <1>2
  <2>4. PICK alerted \in BOOLEAN : alerted = (t.alerted \/ Fires(t))
    OBVIOUS
  <2>5. Breach(t) = [alerted |-> alerted, streak |-> streak, age |-> age]
    BY <2>2, <2>3, <2>4 DEF Breach
  <2>6. alerted <=> t.alerted \/ Fires(t)
    BY <2>4
  <2>7. /\ Breach(t) \in [alerted : BOOLEAN, streak : 0..Consecutive, age : 0..Cooldown]
        /\ Breach(t).alerted <=> t.alerted \/ Fires(t)
    BY <2>5, <2>6
  <2>8. Fires(t) => ~t.alerted
    BY DEF Fires
  <2> QED BY <1>1, <1>3, <2>1, <2>7, <2>8
<1>4. CASE k \notin breached
  <2>1. Evaluated(k) = [alerted |-> FALSE, streak |-> 0, age |-> t.age]
    BY <1>1, <1>4 DEF Evaluated, Recover
  <2>2. Speaks(k) <=> t.alerted
    BY <1>1, <1>4 DEF Speaks
  <2>3. FALSE \in BOOLEAN /\ 0 \in 0..Consecutive /\ t.age \in 0..Cooldown
    BY <1>2
  <2>4. /\ Evaluated(k) \in [alerted : BOOLEAN, streak : 0..Consecutive, age : 0..Cooldown]
        /\ ~Evaluated(k).alerted
    BY <2>1, <2>3
  <2> QED BY <1>1, <1>4, <2>2, <2>4
<1> QED BY <1>3, <1>4

\* A poll that evaluates the readings keeps the news true.
LEMMA EvaluateStep ==
  ASSUME HealthTypeOK, HealthInv, Evaluate
  PROVE  HealthTypeOK' /\ HealthInv'
<1>1. PICK r \in SUBSET Watched :
        /\ tracker' = [k \in Watched |-> IF k \in r THEN Evaluated(k) ELSE tracker[k]]
        /\ monitor' = [monitor EXCEPT !.at = "evaluated", !.fired = SaidInTurn(r)]
  BY DEF Evaluate
<1>2. PICK f \in Seq(Notices) : f = SaidInTurn(r)
  BY NewsIsSaid
<1>3. /\ monitor.fired = <<>> /\ monitor.outbox = <<>>
      /\ monitor'.at = "evaluated" /\ monitor'.fired = f /\ monitor'.outbox = <<>>
      /\ monitor' \in [at : {"asleep", "evaluated", "sending"},
                       fired : Seq(Notices), outbox : Seq(Seq(Notices))]
      /\ UNCHANGED <<breached, open, queue, beat, told, excused, silence>>
  BY <1>1, <1>2 DEF Evaluate, HealthInv, MonitorIsInStep, HealthTypeOK
<1>4. \A k \in Watched :
        tracker'[k] \in [alerted : BOOLEAN, streak : 0..Consecutive, age : 0..Cooldown]
  BY <1>1, ReadingsAreToldOf DEF HealthTypeOK
<1>5. HealthTypeOK'
  BY <1>1, <1>3, <1>4 DEF HealthTypeOK
<1>6. MonitorIsInStep'
  BY <1>3 DEF MonitorIsInStep
<1>7. ASSUME NEW k \in Watched
      PROVE  NewsSays(k, Word(k)', queue, f, <<>>, told[k], excused)
  <2>1. PICK old, word : old = Word(k) /\ word = Word(k)'
    OBVIOUS
  <2>2. NewsSays(k, old, queue, <<>>, <<>>, told[k], excused)
    BY <1>3, <2>1 DEF HealthInv, NewsIsTrue
  <2>3. ASSUME k \in Mentioned(f) PROVE LastWord(k, f) = word
    <3>1. PICK i \in About(k, f) : LastWord(k, f) = f[i].says
      BY <2>3, LastWordIsSaid
    <3>2. k \in r /\ Speaks(k) /\ f[i] = Said(k)
      BY <1>2, <3>1, NewsIsSaid DEF About, Said
    <3>3. tracker'[k].alerted <=> k \in breached
      BY <1>1, <3>2, ReadingsAreToldOf
    <3> QED BY <2>1, <3>1, <3>2, <3>3 DEF Word, Said
  <2>4. ASSUME k \notin Mentioned(f) PROVE word = old
    <3>1. k \in r => ~Speaks(k)
      BY <1>2, <2>4, NewsIsSaid DEF Mentioned, Said
    <3>2. tracker'[k].alerted <=> tracker[k].alerted
      BY <1>1, <3>1, ReadingsAreToldOf
    <3> QED BY <2>1, <3>2 DEF Word
  <2> QED BY <2>1, <2>2, <2>3, <2>4, NewsIsFound
<1>8. NewsIsTrue'
  BY <1>3, <1>7 DEF NewsIsTrue
<1> QED BY <1>5, <1>6, <1>8 DEF HealthInv

\* Of what is sent when the window is open only the first message has several lines.
LEMMA OnlySummariesAreLong ==
  ASSUME NEW q \in Seq(Notices), NEW f \in Seq(Notices)
  PROVE  /\ Outbox(q, f) \in Seq(Seq(Notices))
         /\ \A i \in DOMAIN Outbox(q, f) : i > 1 => Len(Outbox(q, f)[i]) = 1
<1>1. PICK before \in {0, 1} :
        /\ before = 1 <=> q # <<>>
        /\ Len(Outbox(q, f)) = before + Len(f)
        /\ q # <<>> => Outbox(q, f)[1] = Consolidated(q)
        /\ \A j \in 1..Len(f) : Outbox(q, f)[before + j] = <<f[j]>>
  BY OutboxInOrder
<1>2. PICK o : o = Outbox(q, f)
  OBVIOUS
<1>3. /\ o \in Seq(Seq(Notices)) /\ Len(o) = before + Len(f)
      /\ \A j \in 1..Len(f) : o[before + j] = <<f[j]>>
  BY <1>1, <1>2, OutboxInOrder
<1>4. ASSUME NEW i \in DOMAIN o, i > 1 PROVE Len(o[i]) = 1
  <2>1. i - before \in 1..Len(f) /\ i = before + (i - before)
    BY <1>1, <1>3, <1>4, SMTT(40)
  <2>2. o[i] = <<f[i - before]>>
    BY <1>3, <2>1
  <2> QED BY <2>2
<1> QED BY <1>2, <1>3, <1>4

\* A look at the window, which sends the news out or lets it wait, keeps it true.
LEMMA LookStep ==
  ASSUME HealthTypeOK, HealthInv, LookAtWindow
  PROVE  HealthTypeOK' /\ HealthInv'
<1>1. PICK q \in Seq(Notices), f \in Seq(Notices) : q = queue /\ f = monitor.fired
  BY DEF HealthTypeOK
<1>2. /\ monitor.outbox = <<>>
      /\ UNCHANGED <<breached, open, tracker, beat, told, silence>>
  BY DEF LookAtWindow, HealthInv, MonitorIsInStep
<1>3. \A k \in Watched : Word(k)' = Word(k) /\ NewsSays(k, Word(k), q, f, <<>>, told[k], excused)
  BY <1>1, <1>2 DEF Word, HealthInv, NewsIsTrue
<1>4. CASE open
  <2>1. PICK o : o = Outbox(q, f)
    OBVIOUS
  <2>2. o \in Seq(Seq(Notices)) /\ \A i \in DOMAIN o : i > 1 => Len(o[i]) = 1
    BY <2>1, OnlySummariesAreLong
  <2>3. /\ queue' = <<>>
        /\ monitor' = [at |-> "sending", fired |-> <<>>, outbox |-> o]
        /\ excused' = excused \cup Folded(q)
    BY <1>1, <1>4, <2>1 DEF LookAtWindow
  <2>4. Folded(q) \subseteq Watched
    BY WatchedAreMentioned DEF Folded
  <2>5. HealthTypeOK'
    BY <1>2, <2>2, <2>3, <2>4 DEF HealthTypeOK
  <2>6. MonitorIsInStep'
    BY <2>2, <2>3 DEF MonitorIsInStep
  <2>7. \A k \in Watched :
          NewsSays(k, Word(k)', <<>>, <<>>, o, told[k], excused \cup Folded(q))
    BY <1>3, <2>1, NewsGoesOut
  <2>8. NewsIsTrue'
    BY <1>2, <2>3, <2>7 DEF NewsIsTrue
  <2> QED BY <2>5, <2>6, <2>8 DEF HealthInv
<1>5. CASE ~open
  <2>1. /\ queue' = q \o f
        /\ monitor' = [at |-> "sending", fired |-> <<>>, outbox |-> <<>>]
        /\ excused' = excused
    BY <1>1, <1>5 DEF LookAtWindow, Asleep
  <2>2. q \o f \in Seq(Notices) /\ <<>> \in Seq(Notices) /\ <<>> \in Seq(Seq(Notices))
    OBVIOUS
  <2>3. HealthTypeOK'
    BY <1>2, <2>1, <2>2 DEF HealthTypeOK
  <2>4. MonitorIsInStep'
    BY <2>1 DEF MonitorIsInStep
  <2>5. \A k \in Watched : NewsSays(k, Word(k)', q \o f, <<>>, <<>>, told[k], excused)
    BY <1>3, NewsWaits
  <2>6. NewsIsTrue'
    BY <1>2, <2>1, <2>5 DEF NewsIsTrue
  <2> QED BY <2>3, <2>4, <2>6 DEF HealthInv
<1> QED BY <1>4, <1>5

\* A message that is sent, or fails to be, keeps the news true.
LEMMA SendStep ==
  ASSUME HealthTypeOK, HealthInv, Send
  PROVE  HealthTypeOK' /\ HealthInv'
<1>1. PICK o \in Seq(Seq(Notices)) : o = monitor.outbox
  BY DEF HealthTypeOK
<1>2. o # <<>> /\ monitor.at = "sending" /\ queue = <<>> /\ monitor.fired = <<>>
  BY <1>1 DEF Send, HealthInv, MonitorIsInStep
<1>3. PICK m \in Seq(Notices) : m = Head(o)
  BY <1>2
<1>4. /\ UNCHANGED <<breached, open, tracker, queue, beat, silence>>
      /\ monitor'.at = "sending" /\ monitor'.fired = <<>> /\ monitor'.outbox = Tail(o)
      /\ monitor' \in [at : {"asleep", "evaluated", "sending"},
                       fired : Seq(Notices), outbox : Seq(Seq(Notices))]
  <2>1. Tail(o) \in Seq(Seq(Notices))
    BY <1>2
  <2> QED BY <1>1, <1>2, <2>1 DEF Send, HealthTypeOK
<1>5. \A i \in DOMAIN o : i > 1 => Len(o[i]) = 1
  BY <1>1 DEF HealthInv, MonitorIsInStep
<1>6. MonitorIsInStep'
  <2>1. PICK rest : rest = Tail(o)
    OBVIOUS
  <2>2. \A i \in DOMAIN rest : i + 1 \in DOMAIN o /\ i + 1 > 1 /\ rest[i] = o[i + 1]
    BY <1>2, <2>1
  <2>3. \A i \in DOMAIN rest : Len(rest[i]) = 1
    BY <1>5, <2>2
  <2> QED BY <1>2, <1>4, <2>1, <2>3 DEF MonitorIsInStep
<1>7. \A k \in Watched : /\ Word(k)' = Word(k)
                         /\ NewsSays(k, Word(k), <<>>, <<>>, o, told[k], excused)
  BY <1>1, <1>2, <1>4 DEF Word, HealthInv, NewsIsTrue
<1>8. Mentioned(m) \subseteq Watched
  BY WatchedAreMentioned
<1>9. CASE /\ told' = [k \in Watched |-> IF k \in Mentioned(m) THEN LastWord(k, m) ELSE told[k]]
           /\ excused' = IF Len(m) = 1 THEN excused \ Mentioned(m) ELSE excused
  <2>1. \A k \in Mentioned(m) : LastWord(k, m) \in {"trouble", "fine"}
    <3> TAKE k \in Mentioned(m)
    <3>1. PICK i \in About(k, m) : LastWord(k, m) = m[i].says
      BY LastWordIsSaid
    <3>2. m[i] \in Notices
      BY <3>1 DEF About
    <3> QED BY <3>1, <3>2 DEF Notices
  <2>2. HealthTypeOK'
    BY <1>4, <1>9, <2>1 DEF HealthTypeOK
  <2>3. \A k \in Watched :
          NewsSays(k, Word(k)', <<>>, <<>>, Tail(o),
                   IF k \in Mentioned(m) THEN LastWord(k, m) ELSE told[k],
                   IF Len(m) = 1 THEN excused \ Mentioned(m) ELSE excused)
    BY <1>2, <1>3, <1>5, <1>7, NewsIsRead
  <2>4. NewsIsTrue'
    BY <1>2, <1>4, <1>9, <2>3 DEF NewsIsTrue
  <2> QED BY <1>6, <2>2, <2>4 DEF HealthInv
<1>10. CASE excused' = excused \cup Mentioned(m) /\ told' = told
  <2>1. HealthTypeOK'
    BY <1>4, <1>8, <1>10 DEF HealthTypeOK
  <2>2. \A k \in Watched :
          NewsSays(k, Word(k)', <<>>, <<>>, Tail(o), told[k], excused \cup Mentioned(m))
    BY <1>2, <1>3, <1>7, NewsIsLost
  <2>3. NewsIsTrue'
    BY <1>2, <1>4, <1>10, <2>2 DEF NewsIsTrue
  <2> QED BY <1>6, <2>1, <2>3 DEF HealthInv
<1> QED BY <1>1, <1>3, <1>9, <1>10 DEF Send
\* Every step of the monitor and of the world around it keeps the news true.
LEMMA HealthStep ==
  ASSUME HealthTypeOK, HealthInv, [HealthNext]_healthVars
  PROVE  HealthTypeOK' /\ HealthInv'
<1>1. Interval \in Nat /\ Cooldown \in Nat /\ Consecutive \in Nat
  BY HealthAssumption DEF HealthAssumption
<1>2. Asleep \in [at : {"asleep", "evaluated", "sending"},
                  fired : Seq(Notices), outbox : Seq(Seq(Notices))]
  <2>1. <<>> \in Seq(Notices) /\ <<>> \in Seq(Seq(Notices))
    OBVIOUS
  <2> QED BY <2>1 DEF Asleep
<1>3. CASE Evaluate
  BY <1>3, EvaluateStep
<1>4. CASE LookAtWindow
  BY <1>4, LookStep
<1>5. CASE Send
  BY <1>5, SendStep
<1>6. CASE ReportAndSleep
  <2>1. /\ monitor.fired = <<>> /\ monitor.outbox = <<>>
        /\ monitor' = Asleep
        /\ UNCHANGED <<breached, open, tracker, queue, told, excused>>
    BY <1>6 DEF ReportAndSleep, HealthInv, MonitorIsInStep
  <2>2. HealthTypeOK'
    BY <1>1, <1>2, <1>6, <2>1 DEF ReportAndSleep, HealthTypeOK
  <2>3. MonitorIsInStep'
    BY <2>1 DEF MonitorIsInStep, Asleep
  <2>4. NewsIsTrue'
    BY <2>1 DEF NewsIsTrue, Word, Asleep, HealthInv
  <2> QED BY <2>2, <2>3, <2>4 DEF HealthInv
<1>7. CASE PollIntervalPasses
  <2>1. UNCHANGED <<breached, open, queue, monitor, told, excused>>
    BY <1>7 DEF PollIntervalPasses
  <2>2. ASSUME NEW k \in Watched
        PROVE  /\ tracker'[k] \in [alerted : BOOLEAN, streak : 0..Consecutive, age : 0..Cooldown]
               /\ Word(k)' = Word(k)
    <3>1. PICK alerted \in BOOLEAN, streak \in 0..Consecutive, age \in 0..Cooldown :
            tracker[k] = [alerted |-> alerted, streak |-> streak, age |-> age]
      BY DEF HealthTypeOK
    <3>2. PICK older \in 0..Cooldown : older = AtMost(age + 1, Cooldown)
      BY <1>1 DEF AtMost
    <3>3. tracker'[k] = [alerted |-> alerted, streak |-> streak, age |-> older]
      BY <1>7, <3>1, <3>2 DEF PollIntervalPasses
    <3> QED BY <3>1, <3>3 DEF Word
  <2>3. tracker' \in [Watched -> [alerted : BOOLEAN, streak : 0..Consecutive, age : 0..Cooldown]]
    <3>1. tracker' = [k \in Watched |-> tracker'[k]]
      BY <1>7 DEF PollIntervalPasses
    <3> QED BY <2>2, <3>1
  <2>7. beat' \in 0..Interval /\ silence' \in 0..Interval
    BY <1>1, <1>7, SMTT(40) DEF PollIntervalPasses, AtMost, HealthTypeOK
  <2>4. HealthTypeOK'
    BY <2>1, <2>3, <2>7 DEF HealthTypeOK
  <2>5. MonitorIsInStep'
    BY <2>1 DEF MonitorIsInStep, HealthInv
  <2>6. NewsIsTrue'
    BY <2>1, <2>2 DEF NewsIsTrue, HealthInv
  <2> QED BY <2>4, <2>5, <2>6 DEF HealthInv
<1>8. CASE ReadingTurns
  <2>1. UNCHANGED <<open, tracker, queue, monitor, beat, told, excused, silence>>
    BY <1>8 DEF ReadingTurns
  <2>2. breached' \subseteq Watched
    BY <1>8 DEF ReadingTurns, HealthTypeOK
  <2> QED BY <2>1, <2>2 DEF HealthTypeOK, HealthInv, MonitorIsInStep, NewsIsTrue, Word
<1>9. CASE WindowTurns
  BY <1>9 DEF WindowTurns, HealthTypeOK, HealthInv, MonitorIsInStep, NewsIsTrue, Word
<1>10. CASE RestartMonitor
  <2>1. /\ tracker' = [k \in Watched |-> Calm] /\ queue' = <<>> /\ monitor' = Asleep
        /\ beat' = 0 /\ excused' = Watched
        /\ UNCHANGED <<breached, open, told, silence>>
    BY <1>10 DEF RestartMonitor, FirstBeat
  <2>2. HealthTypeOK'
    BY <1>1, <1>2, <2>1 DEF HealthTypeOK, Calm
  <2>3. MonitorIsInStep'
    BY <2>1 DEF MonitorIsInStep, Asleep
  <2>4. NewsIsTrue'
    BY <2>1, NothingMentioned DEF NewsIsTrue, NewsSays, Asleep
  <2> QED BY <2>2, <2>3, <2>4 DEF HealthInv
<1>11. CASE UNCHANGED healthVars
  BY <1>11 DEF healthVars, HealthTypeOK, HealthInv, MonitorIsInStep, NewsIsTrue, Word
<1> QED
  BY <1>3, <1>4, <1>5, <1>6, <1>7, <1>8, <1>9, <1>10, <1>11 DEF HealthNext

\* The monitor keeps its types and the invariants above.
THEOREM MonitorIsSound == HealthSpec => [](HealthTypeOK /\ HealthInv)
<1>1. HealthInit => HealthTypeOK /\ HealthInv
  <2> SUFFICES ASSUME HealthInit PROVE HealthTypeOK /\ HealthInv
    OBVIOUS
  <2>1. Interval \in Nat /\ Cooldown \in Nat /\ Consecutive \in Nat
    BY HealthAssumption DEF HealthAssumption
  <2>2. <<>> \in Seq(Notices) /\ <<>> \in Seq(Seq(Notices))
    OBVIOUS
  <2>3. HealthTypeOK
    BY <2>1, <2>2 DEF HealthInit, HealthTypeOK, Asleep, Calm, FirstBeat
  <2>4. MonitorIsInStep
    BY DEF HealthInit, MonitorIsInStep, Asleep
  <2>5. NewsIsTrue
    BY NothingMentioned DEF HealthInit, NewsIsTrue, NewsSays, Word, Asleep, Calm
  <2> QED BY <2>3, <2>4, <2>5 DEF HealthInv
<1> QED BY <1>1, HealthStep, PTL DEF HealthSpec

\* What the operator read last about a kind, counting what waits for the window, is what
\* the monitor holds true, for any kinds, thresholds, and lengths of the quiet hours.
THEOREM TheOperatorIsToldTheTruth == HealthSpec => []LastNoticeIsTrue
<1>1. HealthInv => LastNoticeIsTrue
  <2> SUFFICES ASSUME HealthInv, monitor.at = "asleep", NEW k \in Watched \ excused
               PROVE  (IF k \in Mentioned(queue) THEN LastWord(k, queue) ELSE told[k]) = Word(k)
    BY DEF LastNoticeIsTrue, Word
  <2>1. monitor.fired = <<>> /\ monitor.outbox = <<>>
    BY DEF HealthInv, MonitorIsInStep
  <2>2. NewsSays(k, Word(k), queue, <<>>, <<>>, told[k], excused)
    BY <2>1 DEF HealthInv, NewsIsTrue
  <2> QED BY <2>2, NothingMentioned DEF NewsSays
<1> QED BY <1>1, MonitorIsSound, PTL
-----------------------------------------------------------------------------
(* How a transcript is cut *)

\* Division rounds down.
LEMMA Quotient ==
  ASSUME NEW n \in Nat, NEW d \in Nat, d > 0
  PROVE  n \div d \in Nat /\ (n \div d) * d <= n /\ n < (n \div d) * d + d
OBVIOUS

\* A smaller number of strides is no longer.
LEMMA FewerStrides ==
  ASSUME NEW a \in Nat, NEW b \in Nat, NEW t \in Nat, t > 0, a * t < b * t
  PROVE  a < b
<1>1. SUFFICES ASSUME a >= b PROVE FALSE
  OBVIOUS
<1>2. PICK c \in Nat : a = b + c
  <2>1. a - b \in Nat /\ a = b + (a - b)
    BY <1>1
  <2> QED BY <2>1
<1>3. a * t = b * t + c * t
  BY <1>2
<1>4. c * t \in Nat
  OBVIOUS
<1>5. a * t \in Nat /\ b * t \in Nat
  OBVIOUS
<1> QED BY <1>3, <1>4, <1>5
\* Where a transcript is cut into chunks the stride is what a chunk adds to the one before.
LEMMA StrideOf ==
  ASSUME NEW size \in Nat, NEW overlap \in Nat, overlap < size
  PROVE  Stride(size, overlap) = size - overlap
<1>1. size - overlap >= 1 /\ size - overlap \in Int
  OBVIOUS
<1> QED BY <1>1, OfTwo DEF Stride

\* What is read of a transcript that is longer than a chunk: chunks a stride apart, so
\* many that they reach its end, or as many as are allowed.
LEMMA ChunksOfALongText ==
  ASSUME NEW length \in Nat, NEW size \in Nat, NEW overlap \in Nat, overlap < size, length > size
  PROVE  \E number \in Nat :
           /\ ReadChunks(length, size, overlap) \in Seq(Nat)
           /\ Len(ReadChunks(length, size, overlap)) = number
           /\ \A i \in 1..number : ReadChunks(length, size, overlap)[i] = (i - 1) * (size - overlap)
           /\ length <= number * (size - overlap) \/ number = MaxFull
<1>0. PICK stride : stride = size - overlap
  OBVIOUS
<1>1. MaxFull \in Nat /\ MaxFull > 0 /\ stride \in Nat /\ stride > 0
  BY <1>0, ChunkingAssumption DEF ChunkingAssumption
<1>2. PICK needed \in Nat : needed = (length + stride - 1) \div stride
  BY <1>1
<1>3. length <= needed * stride /\ needed > 0
  <2>1. length + stride - 1 \in Nat
    BY <1>1
  <2>2. length + stride - 1 < needed * stride + stride
    BY <1>1, <1>2, <2>1, Quotient
  <2>3. needed * stride \in Nat
    BY <1>1, <1>2
  <2>4. length <= needed * stride
    BY <1>1, <2>2, <2>3
  <2>5. needed # 0
    <3>1. ASSUME needed = 0 PROVE FALSE
      BY <1>1, <2>4, <3>1
    <3> QED BY <3>1
  <2> QED BY <2>4, <2>5
<1>4. PICK chunks : chunks = SplitFullCoverage(length, size, overlap)
  OBVIOUS
<1>5. chunks = [i \in 1..needed |-> (i - 1) * stride]
  <2>1. FullStride(size, overlap) = stride
    BY <1>0, StrideOf DEF FullStride
  <2>2. length # 0 /\ ~(length <= size)
    OBVIOUS
  <2>3. SplitFullCoverage(length, size, overlap)
          = [i \in 1..((length + stride - 1) \div stride) |-> (i - 1) * stride]
    BY <2>1, <2>2 DEF SplitFullCoverage
  <2> QED BY <1>2, <1>4, <2>3
<1>6. \A i \in 1..needed : chunks[i] \in Nat /\ chunks[i] = (i - 1) * stride
  BY <1>1, <1>5
<1>7. Len(chunks) = needed /\ chunks \in Seq(Nat)
  BY <1>5, <1>6
<1>8. PICK number \in Nat : number = Smaller(needed, MaxFull)
  BY <1>1 DEF Smaller
<1>9. number \in 1..needed /\ (number = needed \/ number = MaxFull)
  BY <1>1, <1>3, <1>8 DEF Smaller
<1>10. ReadChunks(length, size, overlap) = SubSeq(chunks, 1, number)
  BY <1>4, <1>7, <1>8 DEF ReadChunks
<1>11. /\ SubSeq(chunks, 1, number) \in Seq(Nat)
       /\ Len(SubSeq(chunks, 1, number)) = number
       /\ \A i \in 1..number : SubSeq(chunks, 1, number)[i] = chunks[i]
  BY <1>7, <1>9
<1>12. \A i \in 1..number : ReadChunks(length, size, overlap)[i] = (i - 1) * stride
  BY <1>6, <1>9, <1>10, <1>11
<1>13. length <= number * stride \/ number = MaxFull
  BY <1>3, <1>9
<1> QED BY <1>0, <1>10, <1>11, <1>12, <1>13

\* The chunk in whose stride a character lies shows it, and an overlap's length after it.
LEMMA CharacterIsShown ==
  ASSUME NEW size \in Nat, NEW overlap \in Nat, overlap < size, NEW stride, stride = size - overlap,
         NEW length \in Nat, NEW number \in Nat, NEW at \in Nat, at > 0, at <= length,
         NEW limit \in Nat, at <= limit * stride, length <= number * stride \/ number = limit
  PROVE  \E i \in 1..number : /\ (i - 1) * stride < at
                              /\ at + overlap <= (i - 1) * stride + size
<1>1. stride \in Nat /\ stride > 0 /\ at - 1 \in Nat
  OBVIOUS
<1>2. PICK before \in Nat : before = (at - 1) \div stride
  BY <1>1, Quotient
<1>3. before * stride <= at - 1 /\ at - 1 < before * stride + stride
  BY <1>1, <1>2, Quotient
<1>4. before * stride \in Nat /\ number * stride \in Nat /\ limit * stride \in Nat
  BY <1>1
<1>5. before * stride < number * stride
  BY <1>3, <1>4
<1>6. before < number
  BY <1>1, <1>5, FewerStrides
<1>7. PICK i \in 1..number : i = before + 1 /\ i - 1 = before
  BY <1>6
<1>8. (i - 1) * stride = before * stride
  BY <1>7
<1>9. before * stride < at /\ at + overlap <= before * stride + size
  BY <1>1, <1>3, <1>4
<1> QED BY <1>8, <1>9

\* Until their number is exhausted the chunks of a whole transcript leave nothing out, and
\* what is no longer than the overlap lies whole in one of them, for all lengths and
\* settings.
THEOREM WholeTextsAreRead == ChunkingSpec => []WholeTextIsRead
<1>1. cut \in Cuts => WholeTextIsRead
  <2> SUFFICES ASSUME cut \in Cuts PROVE WholeTextIsRead
    OBVIOUS
  <2>1. PICK length \in Nat, size \in Nat, overlap \in Nat :
          /\ length = cut.length /\ size = cut.size /\ overlap = cut.overlap
          /\ overlap < size
    BY ChunkingAssumption DEF ChunkingAssumption, Cuts
  <2>2. PICK stride : stride = size - overlap
    OBVIOUS
  <2>3. stride \in Nat /\ stride > 0 /\ MaxFull \in Nat /\ MaxFull > 0
    BY <2>1, <2>2, ChunkingAssumption DEF ChunkingAssumption
  <2>4. MaxFull * stride \in Nat
    BY <2>3
  <2>5. PICK reach \in Nat : reach = Smaller(length, MaxFull * stride)
    BY <2>4 DEF Smaller
  <2>6. reach <= length /\ reach <= MaxFull * stride
    BY <2>4, <2>5 DEF Smaller
  <2>7. PICK starts : starts = ReadChunks(length, size, overlap)
    OBVIOUS
  <2>8. ASSUME NEW at \in 1..reach
        PROVE  \E s \in ToSet(starts) :
                 /\ s \in Nat /\ s < at /\ at <= Smaller(s + size, length)
                 /\ Smaller(at + overlap - 1, length) <= s + size
    <3>1. at \in Nat /\ at > 0 /\ at <= length /\ at <= MaxFull * stride
      BY <2>4, <2>6
    <3>2. CASE length <= size
      <4>1. SplitFullCoverage(length, size, overlap) = <<0>>
        BY <3>1, <3>2 DEF SplitFullCoverage
      <4>2. Smaller(Len(<<0>>), MaxFull) = 1
        BY <2>3 DEF Smaller
      <4>3. starts = SubSeq(<<0>>, 1, 1)
        BY <2>7, <4>1, <4>2 DEF ReadChunks
      <4>4. starts[1] = 0 /\ 1 \in DOMAIN starts
        BY <4>3
      <4>5. 0 \in ToSet(starts)
        BY <4>4 DEF ToSet
      <4> QED BY <2>1, <3>1, <3>2, <4>5 DEF Smaller
    <3>3. CASE length > size
      <4>1. PICK number \in Nat :
              /\ starts \in Seq(Nat) /\ Len(starts) = number
              /\ \A i \in 1..number : starts[i] = (i - 1) * stride
              /\ length <= number * stride \/ number = MaxFull
        <5>1. \E number \in Nat :
                /\ ReadChunks(length, size, overlap) \in Seq(Nat)
                /\ Len(ReadChunks(length, size, overlap)) = number
                /\ \A i \in 1..number :
                       ReadChunks(length, size, overlap)[i] = (i - 1) * (size - overlap)
                /\ length <= number * (size - overlap) \/ number = MaxFull
          <6>1. overlap < size /\ length > size
            BY <2>1, <3>3
          <6> QED BY ONLY <6>1, ChunksOfALongText
        <5> QED BY <2>2, <2>7, <5>1
      <4>2. PICK i \in 1..number : /\ (i - 1) * stride < at
                                   /\ at + overlap <= (i - 1) * stride + size
        <5>1. /\ size \in Nat /\ overlap \in Nat /\ overlap < size /\ stride = size - overlap
              /\ length \in Nat /\ number \in Nat /\ MaxFull \in Nat
              /\ at \in Nat /\ at > 0 /\ at <= length /\ at <= MaxFull * stride
              /\ length <= number * stride \/ number = MaxFull
          BY <2>1, <2>2, <2>3, <3>1, <4>1
        <5> QED BY ONLY <5>1, CharacterIsShown
      <4>3. i \in DOMAIN starts
        <5>1. DOMAIN starts = 1..number
          BY <4>1
        <5> QED BY <4>2, <5>1
      <4>4. starts[i] = (i - 1) * stride /\ starts[i] \in Nat
        <5>1. \A j \in DOMAIN starts : starts[j] \in Nat
          BY <4>1
        <5> QED BY <4>1, <4>2, <4>3, <5>1
      <4>5. PICK s \in Nat : s = starts[i]
        BY <4>4
      <4>6. s \in {starts[j] : j \in DOMAIN starts}
        BY <4>3, <4>5
      <4>7. s < at /\ at + overlap <= s + size
        BY <4>2, <4>4, <4>5
      <4>8. s < at /\ at <= Smaller(s + size, length) /\ Smaller(at + overlap - 1, length) <= s + size
        BY <2>1, <3>1, <4>5, <4>7 DEF Smaller
      <4> QED BY <4>5, <4>6, <4>8 DEF ToSet
    <3> QED BY <2>1, <3>2, <3>3
  <2>9. 1..reach \subseteq Shown(starts, size, length)
    <3>1. ASSUME NEW at \in 1..reach PROVE at \in Shown(starts, size, length)
      <4>1. PICK s \in ToSet(starts) : s \in Nat /\ s < at /\ at <= Smaller(s + size, length)
        BY <2>8
      <4>2. at \in (s + 1)..Smaller(s + size, length)
        BY <2>1, <4>1 DEF Smaller
      <4> QED BY <4>2 DEF Shown
    <3> QED BY <3>1
  <2>10. reach = Smaller(cut.length, MaxFull * Stride(cut.size, cut.overlap))
    BY <2>1, <2>2, <2>5, StrideOf
  <2> QED BY <2>1, <2>7, <2>8, <2>9, <2>10 DEF WholeTextIsRead
<1>2. ChunkingInit => cut \in Cuts
  BY DEF ChunkingInit
<1>3. cut \in Cuts /\ [ChunkingNext]_cut => (cut \in Cuts)'
  BY DEF ChunkingNext
<1> QED BY <1>1, <1>2, <1>3, PTL DEF ChunkingSpec
-----------------------------------------------------------------------------
(* The orchestrator *)

\* The rotation has one job or three, and its numbers are those of jobs.
LEMMA Rotation ==
  /\ Len(Jobs) \in Nat \ {0}
  /\ \A i \in 0..(Len(Jobs) - 1) : Jobs[i + 1] \in JobNames
<1>1. CASE HasInstincts
  <2>1. Jobs = <<"distill", "profile", "digest">>
    BY <1>1 DEF Jobs
  <2>2. Len(Jobs) = 3
    BY <2>1
  <2> QED BY <2>2 DEF JobNames
<1>2. CASE ~HasInstincts
  <2>1. Jobs = <<"profile">>
    BY <1>2 DEF Jobs
  <2>2. Len(Jobs) = 1
    BY <2>1
  <2> QED BY <2>2 DEF JobNames
<1> QED BY <1>1, <1>2

\* The orchestrator keeps its types: whatever wakes it, and however often it is started
\* again, its place in the rotation is one of the rotation.
THEOREM CuratorTypeCorrect == CuratorSpec => []CuratorTypeOK
<1> DEFINE Flags == /\ forced \in BOOLEAN /\ wake \in BOOLEAN /\ hot \in BOOLEAN
                    /\ stop \in BOOLEAN /\ paused \in BOOLEAN
           Counters == /\ remaining \in 0..Tick /\ idx \in 0..(Len(Jobs) - 1)
                       /\ wakes \in 0..MaxWakes /\ restarts \in 0..MaxRestarts
           Names == pc \in {"asleep", "running", "stopped"} /\ job \in JobNames \cup {"none"}
<1>1. CuratorTypeOK <=> Flags /\ Counters /\ Names
  BY DEF CuratorTypeOK
<1>2. CuratorInit => CuratorTypeOK
  <2>1. CuratorInit => Counters
    BY Rotation, PeriodicCuratorAssumption DEF PeriodicCuratorAssumption, CuratorInit
  <2>2. CuratorInit => Names /\ Flags
    BY DEF CuratorInit
  <2> QED BY <1>1, <2>1, <2>2
<1>3. CuratorTypeOK /\ [CuratorNext]_curatorVars => CuratorTypeOK'
  <2> SUFFICES ASSUME Flags, Counters, Names, [CuratorNext]_curatorVars
               PROVE  Flags' /\ Counters' /\ Names'
    BY DEF CuratorTypeOK
  <2> USE DEF CuratorNext, curatorVars, TimePasses, WeatherTurns, RunNow, Shutdown, Kill,
              StartProcess, Pause, Resume, WakeToStop, WakeToRunNow, WakeToTick, JobEnds,
              StartJob, SleepAgain
  <2>1. forced' \in BOOLEAN
    OBVIOUS
  <2>2. wake' \in BOOLEAN
    OBVIOUS
  <2>3. hot' \in BOOLEAN
    OBVIOUS
  <2>4. stop' \in BOOLEAN
    OBVIOUS
  <2>5. paused' \in BOOLEAN
    OBVIOUS
  <2>6. /\ Tick \in 0..Tick /\ MaxWakes \in Nat /\ MaxRestarts \in Nat
        /\ 0 \in 0..(Len(Jobs) - 1) /\ (idx + 1) % Len(Jobs) \in 0..(Len(Jobs) - 1)
    BY Rotation, PeriodicCuratorAssumption DEF PeriodicCuratorAssumption
  <2>7. remaining' \in 0..Tick
    BY <2>6
  <2>8. idx' \in 0..(Len(Jobs) - 1)
    BY <2>6
  <2>9. wakes' \in 0..MaxWakes /\ restarts' \in 0..MaxRestarts
    BY <2>6, SMTT(40)
  <2>10. WakeToTick => Names'
    BY Rotation
  <2>11. ~WakeToTick => Names'
    OBVIOUS
  <2> QED BY <2>1, <2>2, <2>3, <2>4, <2>5, <2>7, <2>8, <2>9, <2>10, <2>11
<1> QED BY <1>2, <1>3, PTL DEF CuratorSpec

-----------------------------------------------------------------------------
(* The turns on the local model *)

\* A call that waits for its turn, and one that has it.
Queues(c) == c.at \in {"waiting", "listening"}
TalksToLocal(c) == c.at = "streaming" \/ (c.at = "calling" /\ Head(c.chain) = Local)

\* A call that asks somebody knows whom, and who waits for the slot asks the local model.
KnowsItsTarget(c) ==
    /\ c.at \in {"waiting", "calling"} => c.chain # <<>>
    /\ c.at = "waiting" => Head(c.chain) = Local

CallsHaveTargets == \A w \in Workers : KnowsItsTarget(call[w])

\* The slot and its queue hold the calls that want it, each once, and no others.
SlotIsWanted ==
    /\ \A i \in DOMAIN slot : Queues(call[slot[i]]) \/ TalksToLocal(call[slot[i]])
    /\ \A i, j \in DOMAIN slot : slot[i] = slot[j] => i = j
    /\ \A w \in Workers : Queues(call[w]) => \E i \in DOMAIN slot : slot[i] = w

\* Who talks to the local model is first in the queue.
HolderIsFirst == \A w \in Workers : TalksToLocal(call[w]) => slot # <<>> /\ Head(slot) = w

SlotInv == CallsHaveTargets /\ SlotIsWanted /\ HolderIsFirst

\* A sequence without its first e, where no entry is there twice.
LEMMA WithoutFirst ==
  ASSUME NEW S, NEW s \in Seq(S), NEW e, \A i, j \in DOMAIN s : s[i] = s[j] => i = j
  PROVE  /\ RemoveFirst(s, e) \in Seq(S)
         /\ \A i, j \in DOMAIN RemoveFirst(s, e) :
               RemoveFirst(s, e)[i] = RemoveFirst(s, e)[j] => i = j
         /\ \A i \in DOMAIN RemoveFirst(s, e) :
               RemoveFirst(s, e)[i] # e /\ \E j \in DOMAIN s : s[j] = RemoveFirst(s, e)[i]
         /\ \A i \in DOMAIN s : s[i] # e =>
               \E j \in DOMAIN RemoveFirst(s, e) : RemoveFirst(s, e)[j] = s[i]
         /\ s # <<>> /\ Head(s) # e =>
               RemoveFirst(s, e) # <<>> /\ Head(RemoveFirst(s, e)) = Head(s)
<1>1. PICK places : places = {i \in 1..Len(s) : s[i] = e}
  OBVIOUS
<1>2. CASE places = {}
  <2>1. RemoveFirst(s, e) = s
    BY <1>1, <1>2 DEF RemoveFirst
  <2> QED BY <1>1, <1>2, <2>1
<1>3. CASE places # {}
  <2>1. PICK n \in 1..Len(s) : s[n] = e /\ places = {n}
    BY <1>1, <1>3
  <2>2. Min(places) = n
    <3>1. places = {n, n} /\ n \in Int
      BY <2>1
    <3>2. Min({n, n}) = n
      BY <3>1, OfTwo
    <3> QED BY <3>1, <3>2
  <2>3. SelectInSeq(s, LAMBDA v : v = e) = n
    BY <1>1, <1>3, <2>2 DEF SelectInSeq
  <2>4. RemoveFirst(s, e) = SubSeq(s, 1, n - 1) \o SubSeq(s, n + 1, Len(s))
    BY <2>1, <2>3 DEF RemoveFirst, RemoveAt
  <2>5. PICK a, b : a = SubSeq(s, 1, n - 1) /\ b = SubSeq(s, n + 1, Len(s))
    OBVIOUS
  <2>6. a \in Seq(S) /\ Len(a) = n - 1 /\ \A i \in 1..(n - 1) : a[i] = s[i]
    <3>1. n - 1 \in Int /\ 1 \in Int /\ \A i \in 1..(n - 1) : s[i] \in S
      BY <2>1
    <3>2. /\ SubSeq(s, 1, n - 1) \in Seq(S)
          /\ Len(SubSeq(s, 1, n - 1)) = IF 1 <= n - 1 THEN (n - 1) - 1 + 1 ELSE 0
          /\ \A i \in 1..((n - 1) - 1 + 1) : SubSeq(s, 1, n - 1)[i] = s[1 + i - 1]
      BY ONLY <3>1, SubSeqProperties
    <3> QED BY <2>1, <2>5, <3>2
  <2>7. b \in Seq(S) /\ Len(b) = Len(s) - n /\ \A i \in 1..(Len(s) - n) : b[i] = s[n + i]
    <3>1. n + 1 \in Int /\ Len(s) \in Int /\ \A i \in (n + 1)..Len(s) : s[i] \in S
      BY <2>1
    <3>2. /\ SubSeq(s, n + 1, Len(s)) \in Seq(S)
          /\ Len(SubSeq(s, n + 1, Len(s))) =
                IF n + 1 <= Len(s) THEN Len(s) - (n + 1) + 1 ELSE 0
          /\ \A i \in 1..(Len(s) - (n + 1) + 1) :
                SubSeq(s, n + 1, Len(s))[i] = s[(n + 1) + i - 1]
      BY ONLY <3>1, SubSeqProperties
    <3> QED BY <2>1, <2>5, <3>2
  <2>8. PICK r \in Seq(S) : r = RemoveFirst(s, e) /\ r = a \o b
    BY <2>4, <2>5, <2>6, <2>7, ConcatProperties
  <2>9. /\ Len(r) = Len(s) - 1 /\ DOMAIN r = 1..(Len(s) - 1)
        /\ DOMAIN s = 1..Len(s) /\ Len(s) \in Nat
    <3>1. Len(r) = Len(a) + Len(b)
      BY ONLY <2>6, <2>7, <2>8, ConcatProperties, ZenonT(60)
    <3>2. n \in Int /\ Len(s) \in Nat /\ DOMAIN s = 1..Len(s) /\ DOMAIN r = 1..Len(r)
      BY <2>1
    <3> QED BY ONLY <2>6, <2>7, <3>1, <3>2
  <2>10. /\ \A i \in 1..(n - 1) : r[i] = s[i]
         /\ \A i \in n..(Len(s) - 1) : r[i] = s[i + 1]
    <3>1. \A i \in 1..(Len(s) - 1) : r[i] = IF i <= n - 1 THEN a[i] ELSE b[i - (n - 1)]
      BY <2>1, <2>6, <2>7, <2>8, ConcatProperties
    <3>2. ASSUME NEW i \in n..(Len(s) - 1) PROVE r[i] = s[i + 1]
      <4>1. i - (n - 1) \in 1..(Len(s) - n) /\ n + (i - (n - 1)) = i + 1 /\ i \in 1..(Len(s) - 1)
        BY <2>1
      <4> QED BY <2>1, <2>7, <3>1, <4>1, SMTT(40)
    <3>3. ASSUME NEW i \in 1..(n - 1) PROVE r[i] = s[i]
      BY <2>1, <2>6, <3>1, SMTT(40)
    <3> QED BY <3>2, <3>3
  <2>11. ASSUME NEW i \in DOMAIN r
         PROVE  \E j \in DOMAIN s : s[j] = r[i] /\ j # n /\ (j = i \/ j = i + 1) /\ (j = i <=> i < n)
    <3>1. CASE i < n
      <4>1. i \in DOMAIN s /\ s[i] = r[i] /\ i # n
        BY <2>9, <2>10, <3>1
      <4> QED BY <3>1, <4>1
    <3>2. CASE ~(i < n)
      <4>1. i \in Int /\ n \in Int /\ i \in n..(Len(s) - 1) /\ i + 1 \in DOMAIN s
        BY <2>1, <2>9, <3>2
      <4>2. s[i + 1] = r[i] /\ i + 1 # n /\ i + 1 # i
        BY <2>10, <3>2, <4>1
      <4> QED BY <3>2, <4>1, <4>2
    <3> QED BY <3>1, <3>2
  <2>12. \A i \in DOMAIN r : r[i] # e /\ \E j \in DOMAIN s : s[j] = r[i]
    BY <2>1, <2>11
  <2>13. ASSUME NEW i \in DOMAIN r, NEW j \in DOMAIN r, r[i] = r[j] PROVE i = j
    <3>1. PICK x \in DOMAIN s : s[x] = r[i] /\ (x = i \/ x = i + 1) /\ (x = i <=> i < n)
      BY <2>11
    <3>2. PICK y \in DOMAIN s : s[y] = r[j] /\ (y = j \/ y = j + 1) /\ (y = j <=> j < n)
      BY <2>11
    <3>3. x = y
      BY <2>13, <3>1, <3>2
    <3> QED BY <2>1, <2>9, <3>1, <3>2, <3>3
  <2>14. ASSUME NEW i \in DOMAIN s, s[i] # e PROVE \E j \in DOMAIN r : r[j] = s[i]
    <3>1. CASE i < n
      BY <2>1, <2>9, <2>10, <3>1
    <3>2. CASE i > n
      <4>1. i - 1 \in n..(Len(s) - 1) /\ i - 1 \in DOMAIN r /\ (i - 1) + 1 = i
        BY <2>1, <2>9, <3>2
      <4> QED BY <2>10, <4>1
    <3> QED BY <2>1, <2>9, <2>14, <3>1, <3>2
  <2>15. ASSUME s # <<>>, Head(s) # e PROVE r # <<>> /\ Head(r) = Head(s)
    <3>1. n > 1 /\ Len(s) > 1
      BY <2>1, <2>15
    <3>2. r[1] = s[1] /\ r # <<>>
      BY <2>1, <2>9, <2>10, <3>1
    <3> QED BY <2>15, <3>2
  <2> QED BY <2>8, <2>12, <2>13, <2>14, <2>15
<1> QED BY <1>2, <1>3
\* The providers a call falls back on, in their order, are targets of it.
LEMMA FallbacksAreTargets ==
  ASSUME GatewayTypeOK, NEW unreadable \in SUBSET Providers
  PROVE  UserFallbacks(unreadable) \in Seq(Targets)
<1>1. PICK usable : usable = {p \in Providers \ unreadable : provider[p].enabled}
  OBVIOUS
<1>2. IsFiniteSet(usable) /\ usable \subseteq Providers /\ usable \subseteq Nat
  BY <1>1, GatewayAssumption, FS_Subset DEF GatewayAssumption
<1>3. PICK prio \in [usable -> Int] : \A p \in usable : prio[p] = provider[p].priority
  <2>1. ASSUME NEW p \in usable PROVE provider[p].priority \in Int
    <3>1. CASE provider[p] = NoProvider
      BY <3>1 DEF NoProvider
    <3>2. CASE provider[p] \in ProviderRows
      <4>1. provider[p].priority \in Priorities
        BY <3>2 DEF ProviderRows
      <4>2. Priorities \subseteq Nat
        BY GatewayAssumption DEF GatewayAssumption
      <4>3. Priorities \subseteq Int
        BY <4>2
      <4> QED BY <4>1, <4>3
    <3>3. provider[p] \in {NoProvider} \cup ProviderRows
      BY <1>2 DEF GatewayTypeOK
    <3> QED BY <3>1, <3>2, <3>3
  <2>2. [p \in usable |-> provider[p].priority] \in [usable -> Int]
    BY <2>1
  <2> QED BY <2>2
<1>4. \A p, q \in usable :
        Sooner(p, q) <=> prio[p] < prio[q] \/ (prio[p] = prio[q] /\ p < q)
  BY <1>3 DEF Sooner
<1>5. PICK upTo \in [usable -> SUBSET usable] :
        \A p \in usable : upTo[p] = {q \in usable : q = p \/ Sooner(q, p)}
  <2>1. [p \in usable |-> {q \in usable : q = p \/ Sooner(q, p)}] \in [usable -> SUBSET usable]
    OBVIOUS
  <2> QED BY <2>1
<1>6. \A p \in usable : p \in upTo[p]
  BY <1>5
<1>7. ASSUME NEW p \in usable, NEW q \in usable, Sooner(p, q)
      PROVE  upTo[p] # upTo[q] /\ upTo[p] \subseteq upTo[q]
  <2>1. p \in Int /\ q \in Int /\ q # p /\ ~Sooner(q, p)
    BY <1>2, <1>4, <1>7
  <2>2. ASSUME NEW r \in usable, Sooner(r, p) PROVE Sooner(r, q)
    BY <1>2, <1>4, <1>7, <2>2
  <2>3. q \in upTo[q] /\ q \notin upTo[p]
    BY <1>5, <2>1
  <2> QED BY <1>5, <1>7, <2>2, <2>3
<1>8. \A p, q \in usable : p # q => Sooner(p, q) \/ Sooner(q, p)
  BY <1>2, <1>4
<1>9. /\ Cardinality(usable) \in Nat
      /\ \A n \in 1..Cardinality(usable) : \E p \in usable : Cardinality(upTo[p]) = n
  <2>1. \A p, q \in usable : p # q =>
            upTo[p] # upTo[q] /\ (upTo[p] \subseteq upTo[q] \/ upTo[q] \subseteq upTo[p])
    BY <1>7, <1>8
  <2>2. upTo \in [usable -> SUBSET usable] /\ IsFiniteSet(usable)
    BY <1>2
  <2> QED BY ONLY <1>6, <2>1, <2>2, ChainsAreCounted
<1>10. PICK size \in Nat : size = Cardinality(usable)
  BY <1>9
<1>11. PICK order : order = [n \in 1..size |-> CHOOSE p \in usable :
                                Cardinality({q \in usable : q = p \/ Sooner(q, p)}) = n]
  OBVIOUS
<1>12. order \in Seq(Targets)
  <2>1. ASSUME NEW n \in 1..size PROVE order[n] \in Targets
    <3>1. \E p \in usable : Cardinality({q \in usable : q = p \/ Sooner(q, p)}) = n
      BY <1>5, <1>9, <1>10
    <3>2. order[n] \in usable
      BY <1>11, <3>1
    <3> QED BY <1>2, <3>2 DEF Targets
  <2>2. order \in [1..size -> Targets]
    BY <1>11, <2>1
  <2> QED BY ONLY <2>2, size \in Nat
<1>13. UserFallbacks(unreadable) = order \o (IF EnvProvider THEN <<Env>> ELSE <<>>)
  BY <1>1, <1>10, <1>11 DEF UserFallbacks
<1>14. (IF EnvProvider THEN <<Env>> ELSE <<>>) \in Seq(Targets)
  <2>1. Env \in Targets
    BY DEF Targets
  <2> QED BY <2>1
<1> QED BY <1>12, <1>13, <1>14
\* A call that leaves the slot, or its queue, leaves the others in their order.
LEMMA SlotLeft ==
  ASSUME slot \in Seq(Workers), SlotIsWanted, HolderIsFirst,
         NEW w \in Workers, NEW c, ~Queues(c), ~TalksToLocal(c),
         call \in [Workers -> CallStates], call' = [call EXCEPT ![w] = c],
         slot' = RemoveFirst(slot, w)
  PROVE  slot' \in Seq(Workers) /\ SlotIsWanted' /\ HolderIsFirst'
<1>1. call'[w] = c /\ \A v \in Workers : v # w => call'[v] = call[v]
  OBVIOUS
<1>2. /\ slot' \in Seq(Workers)
      /\ \A i, j \in DOMAIN slot' : slot'[i] = slot'[j] => i = j
      /\ \A i \in DOMAIN slot' : slot'[i] # w /\ \E j \in DOMAIN slot : slot[j] = slot'[i]
      /\ \A i \in DOMAIN slot : slot[i] # w => \E j \in DOMAIN slot' : slot'[j] = slot[i]
      /\ slot # <<>> /\ Head(slot) # w => slot' # <<>> /\ Head(slot') = Head(slot)
  <2>1. \A i, j \in DOMAIN slot : slot[i] = slot[j] => i = j
    BY DEF SlotIsWanted
  <2>2. slot \in Seq(Workers)
    OBVIOUS
  <2>3. /\ RemoveFirst(slot, w) \in Seq(Workers)
        /\ \A i, j \in DOMAIN RemoveFirst(slot, w) :
              RemoveFirst(slot, w)[i] = RemoveFirst(slot, w)[j] => i = j
        /\ \A i \in DOMAIN RemoveFirst(slot, w) :
              RemoveFirst(slot, w)[i] # w /\ \E j \in DOMAIN slot : slot[j] = RemoveFirst(slot, w)[i]
        /\ \A i \in DOMAIN slot : slot[i] # w =>
              \E j \in DOMAIN RemoveFirst(slot, w) : RemoveFirst(slot, w)[j] = slot[i]
        /\ slot # <<>> /\ Head(slot) # w =>
              RemoveFirst(slot, w) # <<>> /\ Head(RemoveFirst(slot, w)) = Head(slot)
    BY ONLY <2>1, <2>2, WithoutFirst
  <2> QED BY <2>3
<1>3. ASSUME NEW i \in DOMAIN slot' PROVE Queues(call'[slot'[i]]) \/ TalksToLocal(call'[slot'[i]])
  <2>1. PICK j \in DOMAIN slot : slot[j] = slot'[i]
    BY <1>2
  <2>2. slot'[i] \in Workers /\ slot'[i] # w
    BY <1>2
  <2>3. Queues(call[slot[j]]) \/ TalksToLocal(call[slot[j]])
    BY DEF SlotIsWanted
  <2> QED BY <1>1, <2>1, <2>2, <2>3
<1>4. ASSUME NEW v \in Workers, Queues(call'[v]) PROVE \E i \in DOMAIN slot' : slot'[i] = v
  <2>1. v # w /\ Queues(call[v])
    BY <1>1, <1>4
  <2>2. PICK i \in DOMAIN slot : slot[i] = v
    BY <2>1 DEF SlotIsWanted
  <2> QED BY <1>2, <2>1, <2>2
<1>5. ASSUME NEW v \in Workers, TalksToLocal(call'[v]) PROVE slot' # <<>> /\ Head(slot') = v
  <2>1. v # w /\ TalksToLocal(call[v])
    BY <1>1, <1>5
  <2>2. slot # <<>> /\ Head(slot) = v
    BY <2>1 DEF HolderIsFirst
  <2> QED BY <1>2, <2>1, <2>2
<1> QED BY <1>2, <1>3, <1>4, <1>5 DEF SlotIsWanted, HolderIsFirst

\* A call that joins the queue joins it at its end, where nobody has his turn.
LEMMA SlotJoined ==
  ASSUME slot \in Seq(Workers), SlotIsWanted, HolderIsFirst,
         NEW w \in Workers, NEW c, Queues(c), ~TalksToLocal(c),
         ~Queues(call[w]), ~TalksToLocal(call[w]),
         call \in [Workers -> CallStates], call' = [call EXCEPT ![w] = c],
         slot' = Append(slot, w)
  PROVE  slot' \in Seq(Workers) /\ SlotIsWanted' /\ HolderIsFirst'
<1>1. call'[w] = c /\ \A v \in Workers : v # w => call'[v] = call[v]
  OBVIOUS
<1>2. /\ slot' \in Seq(Workers) /\ Len(slot) \in Nat
      /\ DOMAIN slot = 1..Len(slot) /\ DOMAIN slot' = 1..(Len(slot) + 1)
      /\ \A i \in 1..Len(slot) : slot'[i] = slot[i]
      /\ slot'[Len(slot) + 1] = w
  OBVIOUS
<1>3. \A i \in DOMAIN slot : slot[i] # w /\ slot[i] \in Workers
  BY DEF SlotIsWanted
<1>4. ASSUME NEW i \in DOMAIN slot' PROVE Queues(call'[slot'[i]]) \/ TalksToLocal(call'[slot'[i]])
  <2>1. CASE i = Len(slot) + 1
    BY <1>1, <1>2, <2>1
  <2>2. CASE i # Len(slot) + 1
    <3>1. i \in DOMAIN slot /\ slot'[i] = slot[i]
      BY <1>2, <2>2
    <3>2. Queues(call[slot[i]]) \/ TalksToLocal(call[slot[i]])
      BY <3>1 DEF SlotIsWanted
    <3> QED BY <1>1, <1>3, <3>1, <3>2
  <2> QED BY <2>1, <2>2
<1>5. ASSUME NEW i \in DOMAIN slot', NEW j \in DOMAIN slot', slot'[i] = slot'[j] PROVE i = j
  <2>1. \A k, n \in DOMAIN slot : slot[k] = slot[n] => k = n
    BY DEF SlotIsWanted
  <2> QED BY <1>2, <1>3, <1>5, <2>1
<1>6. ASSUME NEW v \in Workers, Queues(call'[v]) PROVE \E i \in DOMAIN slot' : slot'[i] = v
  <2>1. CASE v = w
    <3>1. Len(slot) + 1 \in DOMAIN slot'
      BY <1>2
    <3> QED BY <1>2, <2>1, <3>1
  <2>2. CASE v # w
    <3>1. PICK i \in DOMAIN slot : slot[i] = v
      BY <1>1, <1>6, <2>2 DEF SlotIsWanted
    <3>2. i \in DOMAIN slot' /\ slot'[i] = v
      BY <1>2, <3>1
    <3> QED BY <3>2
  <2> QED BY <2>1, <2>2
<1>7. ASSUME NEW v \in Workers, TalksToLocal(call'[v]) PROVE slot' # <<>> /\ Head(slot') = v
  <2>1. v # w /\ TalksToLocal(call[v])
    BY <1>1, <1>7
  <2>2. slot # <<>> /\ Head(slot) = v
    BY <2>1 DEF HolderIsFirst
  <2> QED BY <2>2
<1> QED BY <1>2, <1>4, <1>5, <1>6, <1>7 DEF SlotIsWanted, HolderIsFirst

\* A call that goes on without touching the slot: it wants it as before, and has its turn
\* only when it is first.
LEMMA SlotKept ==
  ASSUME slot \in Seq(Workers), SlotIsWanted, HolderIsFirst,
         NEW w \in Workers, NEW c,
         Queues(c) => Queues(call[w]),
         (Queues(c) \/ TalksToLocal(c)) <=> (Queues(call[w]) \/ TalksToLocal(call[w])),
         TalksToLocal(c) => slot # <<>> /\ Head(slot) = w,
         call \in [Workers -> CallStates], call' = [call EXCEPT ![w] = c],
         slot' = slot
  PROVE  slot' \in Seq(Workers) /\ SlotIsWanted' /\ HolderIsFirst'
<1>1. call'[w] = c /\ \A v \in Workers : v # w => call'[v] = call[v]
  OBVIOUS
<1>2. \A i \in DOMAIN slot : slot[i] \in Workers
  OBVIOUS
<1>3. SlotIsWanted'
  <2>1. ASSUME NEW i \in DOMAIN slot PROVE Queues(call'[slot[i]]) \/ TalksToLocal(call'[slot[i]])
    BY <1>1, <1>2 DEF SlotIsWanted
  <2>2. ASSUME NEW v \in Workers, Queues(call'[v]) PROVE \E i \in DOMAIN slot : slot[i] = v
    BY <1>1, <2>2 DEF SlotIsWanted
  <2>3. \A i, j \in DOMAIN slot : slot[i] = slot[j] => i = j
    BY DEF SlotIsWanted
  <2> QED BY <2>1, <2>2, <2>3 DEF SlotIsWanted
<1>4. HolderIsFirst'
  BY <1>1 DEF HolderIsFirst
<1> QED BY <1>3, <1>4
\* The three ways a call may go on.
Leaves(w, c) == ~Queues(c) /\ ~TalksToLocal(c) /\ slot' = RemoveFirst(slot, w)
Joins(w, c) ==
    /\ Queues(c) /\ ~TalksToLocal(c) /\ ~Queues(call[w]) /\ ~TalksToLocal(call[w])
    /\ slot' = Append(slot, w)
Keeps(w, c) ==
    /\ Queues(c) => Queues(call[w])
    /\ (Queues(c) \/ TalksToLocal(c)) <=> (Queues(call[w]) \/ TalksToLocal(call[w]))
    /\ TalksToLocal(c) => slot # <<>> /\ Head(slot) = w
    /\ slot' = slot

\* A call that goes on in one of them keeps the turns.
LEMMA CallGoesOn ==
  ASSUME GatewayTypeOK, SlotInv, NEW w \in Workers, NEW c \in CallStates, KnowsItsTarget(c),
         call' = [call EXCEPT ![w] = c], Leaves(w, c) \/ Joins(w, c) \/ Keeps(w, c)
  PROVE  call' \in [Workers -> CallStates] /\ slot' \in Seq(Workers) /\ SlotInv'
<1>1. slot \in Seq(Workers) /\ call \in [Workers -> CallStates]
  BY DEF GatewayTypeOK
<1>2. SlotIsWanted /\ HolderIsFirst /\ CallsHaveTargets
  BY DEF SlotInv
<1>3. call' \in [Workers -> CallStates]
  BY <1>1
<1>4. CallsHaveTargets'
  BY <1>1, <1>2 DEF CallsHaveTargets
<1>5. slot' \in Seq(Workers) /\ SlotIsWanted' /\ HolderIsFirst'
  <2>1. CASE Leaves(w, c)
    BY <1>1, <1>2, <2>1, SlotLeft DEF Leaves
  <2>2. CASE Joins(w, c)
    BY <1>1, <1>2, <2>2, SlotJoined DEF Joins
  <2>3. CASE Keeps(w, c)
    BY <1>1, <1>2, <2>3, SlotKept DEF Keeps
  <2> QED BY <2>1, <2>2, <2>3
<1> QED BY <1>3, <1>4, <1>5 DEF SlotInv

\* Every step of a call is one of the three.
LEMMA CallStep ==
  ASSUME GatewayTypeOK, SlotInv, NEW w \in Workers,
         StartCall(w) \/ StartStream(w) \/ WorkerSteps(w) \/ CancelCall(w)
  PROVE  GatewayTypeOK' /\ SlotInv'
<1>1. PICK old \in CallStates : old = call[w]
  BY DEF GatewayTypeOK
<1>2. old = [at |-> old.at, chain |-> old.chain, tries |-> old.tries, again |-> old.again]
  BY DEF CallStates
<1>3. old.chain \in Seq(Targets) /\ old.tries \in 0..Retries /\ old.again \in 0..MaxAgain
  BY DEF CallStates
<1>4. Retries \in Nat \ {0} /\ MaxAgain \in Nat /\ MaxBooked \in Nat \ {0}
  BY GatewayAssumption DEF GatewayAssumption
<1>5. <<Local>> \in Seq(Targets) /\ <<>> \in Seq(Targets)
  <2>1. Local \in Targets
    BY DEF Targets
  <2> QED BY <2>1
<1>6. KnowsItsTarget(old)
  BY <1>1 DEF SlotInv, CallsHaveTargets
<1>7. (Queues(old) => slot # <<>>) /\ (TalksToLocal(old) => slot # <<>> /\ Head(slot) = w)
  <2>1. Queues(call[w]) => \E i \in DOMAIN slot : slot[i] = w
    BY DEF SlotInv, SlotIsWanted
  <2>2. TalksToLocal(call[w]) => slot # <<>> /\ Head(slot) = w
    BY DEF SlotInv, HolderIsFirst
  <2> QED BY <1>1, <2>1, <2>2
<1> DEFINE GoesOn ==
      \E c \in CallStates : /\ KnowsItsTarget(c)
                            /\ call' = [call EXCEPT ![w] = c]
                            /\ Leaves(w, c) \/ Joins(w, c) \/ Keeps(w, c)
<1>8. ASSUME NEW c \in CallStates, KnowsItsTarget(c), call' = [call EXCEPT ![w] = c],
             Leaves(w, c) \/ Joins(w, c) \/ Keeps(w, c)
      PROVE  GoesOn
  BY <1>8
<1> HIDE DEF GoesOn
<1>9. 0 \in 0..Retries /\ 0 \in 0..MaxAgain /\ Retries \in 0..Retries
  BY <1>4
<1>10. ASSUME StartCall(w) PROVE GoesOn
  <2>1. PICK unreadable \in SUBSET Providers :
          \E chain \in Chains(UserFallbacks(unreadable)) :
              chain # <<>> /\ CallGoes(w, "next", chain, 0, 0)
    BY <1>10 DEF StartCall
  <2>2. PICK chain \in Chains(UserFallbacks(unreadable)) : CallGoes(w, "next", chain, 0, 0)
    BY <2>1
  <2>3. chain \in Seq(Targets)
    <3>1. PICK external \in Seq(Targets) : external = UserFallbacks(unreadable)
      BY FallbacksAreTargets
    <3>2. <<Local>> \o external \in Seq(Targets) /\ external \o <<Local>> \in Seq(Targets)
      BY <1>5, <3>1, ConcatProperties
    <3>3. chain \in {<<Local>>, <<Local>> \o external, external \o <<Local>>, external}
      BY <3>1 DEF Chains
    <3> QED BY <1>5, <3>2, <3>3
  <2>4. PICK c : c = [at |-> "next", chain |-> chain, tries |-> 0, again |-> 0]
    OBVIOUS
  <2>5. KnowsItsTarget(c) /\ Keeps(w, c)
    BY <1>1, <1>10, <2>4 DEF StartCall, KnowsItsTarget, Keeps, Queues, TalksToLocal
  <2>6. c \in CallStates /\ call' = [call EXCEPT ![w] = c]
    BY <1>9, <2>2, <2>3, <2>4, <2>5 DEF CallStates, CallGoes
  <2> QED BY <1>8, <2>2, <2>3, <2>4, <2>5, <2>6
<1>11. ASSUME StartStream(w) PROVE GoesOn
  <2>1. PICK c : c = [at |-> "listening", chain |-> <<Local>>, tries |-> 0, again |-> 0]
    OBVIOUS
  <2>2. KnowsItsTarget(c) /\ Joins(w, c)
    BY <1>1, <1>11, <2>1 DEF StartStream, KnowsItsTarget, Joins, Queues, TalksToLocal
  <2>3. c \in CallStates /\ call' = [call EXCEPT ![w] = c]
    BY <1>5, <1>9, <1>11, <2>1, <2>2 DEF StartStream, CallStates, CallGoes
  <2> QED BY <1>8, <2>1, <2>2, <2>3
<1>12. ASSUME TryTarget(w) PROVE GoesOn
  <2>1. old.at = "next"
    BY <1>1, <1>12 DEF TryTarget
  <2>2. CASE old.chain = <<>>
    <3>1. CallGoes(w, "failed", <<>>, 0, 0) /\ slot' = slot
      BY <1>1, <1>12, <2>2 DEF TryTarget
    <3>2. PICK c : c = [at |-> "failed", chain |-> <<>>, tries |-> 0, again |-> 0]
      OBVIOUS
    <3>3. KnowsItsTarget(c) /\ Keeps(w, c)
      BY <1>1, <2>1, <3>1, <3>2 DEF KnowsItsTarget, Keeps, Queues, TalksToLocal
    <3>4. c \in CallStates /\ call' = [call EXCEPT ![w] = c]
      BY <1>5, <1>9, <3>1, <3>2, <3>3 DEF CallStates, CallGoes
    <3> QED BY <1>8, <3>1, <3>2, <3>3, <3>4
  <2>3. CASE old.chain # <<>> /\ Head(old.chain) = Local
    <3>1. CallGoes(w, "waiting", old.chain, 0, old.again) /\ slot' = Append(slot, w)
      BY <1>1, <1>12, <2>3 DEF TryTarget
    <3>2. PICK c : c = [at |-> "waiting", chain |-> old.chain, tries |-> 0, again |-> old.again]
      OBVIOUS
    <3>3. KnowsItsTarget(c) /\ Joins(w, c)
      BY <1>1, <2>1, <2>3, <3>1, <3>2 DEF KnowsItsTarget, Joins, Queues, TalksToLocal
    <3>4. c \in CallStates /\ call' = [call EXCEPT ![w] = c]
      BY <1>3, <1>9, <3>1, <3>2, <3>3 DEF CallStates, CallGoes
    <3> QED BY <1>8, <3>1, <3>2, <3>3, <3>4
  <2>4. CASE old.chain # <<>> /\ Head(old.chain) # Local
    <3>1. CallGoes(w, "calling", old.chain, Retries, old.again) /\ slot' = slot
      BY <1>1, <1>12, <2>4 DEF TryTarget
    <3>2. PICK c : c = [at |-> "calling", chain |-> old.chain, tries |-> Retries, again |-> old.again]
      OBVIOUS
    <3>3. KnowsItsTarget(c) /\ Keeps(w, c)
      BY <1>1, <2>1, <2>4, <3>1, <3>2 DEF KnowsItsTarget, Keeps, Queues, TalksToLocal
    <3>4. c \in CallStates /\ call' = [call EXCEPT ![w] = c]
      BY <1>3, <1>9, <3>1, <3>2, <3>3 DEF CallStates, CallGoes
    <3> QED BY <1>8, <3>1, <3>2, <3>3, <3>4
  <2> QED BY <2>2, <2>3, <2>4
<1>13. ASSUME TakeSlot(w) PROVE GoesOn
  <2>1. PICK c : c = [at |-> "calling", chain |-> old.chain, tries |-> Retries, again |-> old.again]
    OBVIOUS
  <2>2. KnowsItsTarget(c) /\ Keeps(w, c)
    BY <1>1, <1>6, <1>7, <1>13, <2>1 DEF TakeSlot, KnowsItsTarget, Keeps, Queues, TalksToLocal
  <2>3. c \in CallStates /\ call' = [call EXCEPT ![w] = c]
    BY <1>1, <1>3, <1>9, <1>13, <2>1, <2>2 DEF TakeSlot, CallStates, CallGoes
  <2> QED BY <1>8, <2>1, <2>2, <2>3
<1>14. ASSUME AnswerComes(w) PROVE GoesOn
  <2>1. CASE CallGoes(w, "answered", old.chain, 0, 0)
    <3>1. PICK c : c = [at |-> "answered", chain |-> old.chain, tries |-> 0, again |-> 0]
      OBVIOUS
    <3>2. KnowsItsTarget(c) /\ Leaves(w, c)
      BY <1>14, <3>1 DEF AnswerComes, Released, KnowsItsTarget, Leaves, Queues, TalksToLocal
    <3>3. c \in CallStates /\ call' = [call EXCEPT ![w] = c]
      BY <1>3, <1>9, <2>1, <3>1, <3>2 DEF CallStates, CallGoes
    <3> QED BY <1>8, <3>1, <3>2, <3>3
  <2>2. CASE old.again < MaxAgain /\ CallGoes(w, "next", old.chain, 0, old.again + 1)
    <3>1. PICK c : c = [at |-> "next", chain |-> old.chain, tries |-> 0, again |-> old.again + 1]
      OBVIOUS
    <3>2. KnowsItsTarget(c) /\ Leaves(w, c)
      BY <1>14, <3>1 DEF AnswerComes, Released, KnowsItsTarget, Leaves, Queues, TalksToLocal
    <3>3. old.again + 1 \in 0..MaxAgain
      BY <1>3, <1>4, <2>2
    <3>4. c \in CallStates /\ call' = [call EXCEPT ![w] = c]
      BY <1>3, <1>9, <2>2, <3>1, <3>2, <3>3 DEF CallStates, CallGoes
    <3> QED BY <1>8, <3>1, <3>2, <3>3, <3>4
  <2> QED BY <1>1, <1>14, <2>1, <2>2 DEF AnswerComes
<1>15. ASSUME AttemptFails(w) PROVE GoesOn
  <2>1. old.at = "calling" /\ old.chain # <<>>
    BY <1>1, <1>6, <1>15 DEF AttemptFails, KnowsItsTarget
  <2>2. CASE /\ old.tries > 1 /\ CallGoes(w, "calling", old.chain, old.tries - 1, old.again)
             /\ slot' = slot
    <3>1. PICK c : c = [at |-> "calling", chain |-> old.chain, tries |-> old.tries - 1,
                        again |-> old.again]
      OBVIOUS
    <3>2. KnowsItsTarget(c) /\ Keeps(w, c)
      BY <1>1, <1>7, <2>1, <2>2, <3>1 DEF KnowsItsTarget, Keeps, Queues, TalksToLocal
    <3>3. old.tries - 1 \in 0..Retries
      BY <1>3, <1>4, <2>2
    <3>4. c \in CallStates /\ call' = [call EXCEPT ![w] = c]
      BY <1>3, <2>2, <3>1, <3>2, <3>3 DEF CallStates, CallGoes
    <3> QED BY <1>8, <3>1, <3>2, <3>3, <3>4
  <2>3. CASE CallGoes(w, "next", Tail(old.chain), 0, 0) /\ slot' = Released(w, FALSE)
    <3>1. PICK c : c = [at |-> "next", chain |-> Tail(old.chain), tries |-> 0, again |-> 0]
      OBVIOUS
    <3>2. KnowsItsTarget(c) /\ Leaves(w, c)
      BY <2>3, <3>1 DEF Released, KnowsItsTarget, Leaves, Queues, TalksToLocal
    <3>3. Tail(old.chain) \in Seq(Targets)
      BY <1>3, <2>1
    <3>4. c \in CallStates /\ call' = [call EXCEPT ![w] = c]
      BY <1>9, <2>3, <3>1, <3>2, <3>3 DEF CallStates, CallGoes
    <3> QED BY <1>8, <3>1, <3>2, <3>3, <3>4
  <2> QED BY <1>1, <1>15, <2>2, <2>3 DEF AttemptFails
<1>16. ASSUME StreamOpens(w) PROVE GoesOn
  <2>1. PICK c : c = [at |-> "streaming", chain |-> <<Local>>, tries |-> 0, again |-> 0]
    OBVIOUS
  <2>2. KnowsItsTarget(c) /\ Keeps(w, c)
    BY <1>1, <1>7, <1>16, <2>1 DEF StreamOpens, KnowsItsTarget, Keeps, Queues, TalksToLocal
  <2>3. c \in CallStates /\ call' = [call EXCEPT ![w] = c]
    BY <1>5, <1>9, <1>16, <2>1, <2>2 DEF StreamOpens, CallStates, CallGoes
  <2> QED BY <1>8, <2>1, <2>2, <2>3
<1>17. ASSUME StreamEnds(w) PROVE GoesOn
  <2>1. CASE CallGoes(w, "answered", <<Local>>, 0, 0)
    <3>1. PICK c : c = [at |-> "answered", chain |-> <<Local>>, tries |-> 0, again |-> 0]
      OBVIOUS
    <3>2. KnowsItsTarget(c) /\ Leaves(w, c)
      BY <1>17, <3>1 DEF StreamEnds, Released, KnowsItsTarget, Leaves, Queues, TalksToLocal
    <3>3. c \in CallStates /\ call' = [call EXCEPT ![w] = c]
      BY <1>5, <1>9, <2>1, <3>1, <3>2 DEF CallStates, CallGoes
    <3> QED BY <1>8, <3>1, <3>2, <3>3
  <2>2. CASE CallGoes(w, "failed", <<>>, 0, 0)
    <3>1. PICK c : c = [at |-> "failed", chain |-> <<>>, tries |-> 0, again |-> 0]
      OBVIOUS
    <3>2. KnowsItsTarget(c) /\ Leaves(w, c)
      BY <1>17, <3>1 DEF StreamEnds, Released, KnowsItsTarget, Leaves, Queues, TalksToLocal
    <3>3. c \in CallStates /\ call' = [call EXCEPT ![w] = c]
      BY <1>5, <1>9, <2>2, <3>1, <3>2 DEF CallStates, CallGoes
    <3> QED BY <1>8, <3>1, <3>2, <3>3
  <2> QED BY <1>17, <2>1, <2>2 DEF StreamEnds
<1>18. NoCall \in CallStates /\ KnowsItsTarget(NoCall) /\ ~Queues(NoCall) /\ ~TalksToLocal(NoCall)
  BY <1>5, <1>9 DEF NoCall, CallStates, KnowsItsTarget, Queues, TalksToLocal
<1>19. ASSUME UseAnswer(w) PROVE GoesOn
  <2>1. Keeps(w, NoCall) /\ call' = [call EXCEPT ![w] = NoCall]
    BY <1>18, <1>19 DEF UseAnswer, Keeps, Queues, TalksToLocal
  <2> QED BY <1>8, <1>18, <2>1
<1>20. ASSUME CancelCall(w) PROVE GoesOn
  <2>1. Leaves(w, NoCall) /\ call' = [call EXCEPT ![w] = NoCall]
    BY <1>18, <1>20 DEF CancelCall, Leaves, Released
  <2> QED BY <1>8, <1>18, <2>1
<1>21. GoesOn
  BY <1>10, <1>11, <1>12, <1>13, <1>14, <1>15, <1>16, <1>17, <1>19, <1>20 DEF WorkerSteps
<1>22. call' \in [Workers -> CallStates] /\ slot' \in Seq(Workers) /\ SlotInv'
  <2>1. PICK c \in CallStates : /\ KnowsItsTarget(c) /\ call' = [call EXCEPT ![w] = c]
                                /\ Leaves(w, c) \/ Joins(w, c) \/ Keeps(w, c)
    BY <1>21 DEF GoesOn
  <2> QED BY <2>1, CallGoesOn
<1>23. provider' = provider /\ usage' \in UsageRows
  <2>1. CASE UseAnswer(w)
    <3>1. usage \in UsageRows
      BY DEF GatewayTypeOK
    <3>2. CASE UNCHANGED usage
      BY <2>1, <3>1, <3>2 DEF UseAnswer
    <3>3. CASE usage.booked < MaxBooked /\ RecordUsage(0, 0)
      <4>1. EstimatedCost(0, 0) = 0
        BY GatewayAssumption DEF GatewayAssumption, EstimatedCost
      <4> QED BY <1>4, <2>1, <3>1, <3>3, <4>1 DEF UseAnswer, RecordUsage, UsageRows
    <3> QED BY <2>1, <3>2, <3>3 DEF UseAnswer
  <2>2. CASE ~UseAnswer(w)
    BY <2>2 DEF GatewayTypeOK, WorkerSteps, StartCall, StartStream, TryTarget, TakeSlot, AnswerComes,
                AttemptFails, StreamOpens, StreamEnds, CancelCall
  <2> QED BY <2>1, <2>2
<1> QED BY <1>22, <1>23 DEF GatewayTypeOK
\* Providers come and go under the calls, and calls under each other: types and turns stay.
LEMMA GatewayStep ==
  ASSUME GatewayTypeOK, SlotInv, [GatewayNext]_gatewayVars
  PROVE  GatewayTypeOK' /\ SlotInv'
<1>1. ASSUME UNCHANGED <<call, slot>> PROVE SlotInv'
  BY <1>1 DEF SlotInv, CallsHaveTargets, SlotIsWanted, HolderIsFirst
<1>2. CASE UNCHANGED gatewayVars
  BY <1>1, <1>2 DEF gatewayVars, GatewayTypeOK
<1>3. ASSUME NEW p \in Providers, CreateProvider(p) \/ UpdateProvider(p) \/ DeleteProvider(p)
      PROVE  GatewayTypeOK' /\ SlotInv'
  <2>1. PICK row \in {NoProvider} \cup ProviderRows : SaveProvider(p, row)
    BY <1>3 DEF CreateProvider, UpdateProvider, DeleteProvider, ProviderRows
  <2> QED BY <1>1, <2>1 DEF SaveProvider, GatewayTypeOK
<1>4. CASE MonthTurns
  <2>1. 0 \in 0..MaxBooked
    BY GatewayAssumption DEF GatewayAssumption
  <2> QED BY <1>1, <1>4, <2>1 DEF MonthTurns, GatewayTypeOK, UsageRows
<1>5. ASSUME NEW w \in Workers, StartCall(w) \/ StartStream(w) \/ WorkerSteps(w) \/ CancelCall(w)
      PROVE  GatewayTypeOK' /\ SlotInv'
  BY <1>5, CallStep
<1> QED BY <1>2, <1>3, <1>4, <1>5 DEF GatewayNext

\* Whatever fails, is cut off or is cancelled: the slot of the local model and its queue
\* hold exactly the calls that want it, each once (_call_one, chat_stream).
THEOREM GatewayIsSound ==
  GatewayInit /\ [][GatewayNext]_gatewayVars => [](GatewayTypeOK /\ SlotInv)
<1>1. GatewayInit => GatewayTypeOK /\ SlotInv
  <2> SUFFICES ASSUME GatewayInit PROVE GatewayTypeOK /\ SlotInv
    OBVIOUS
  <2>1. 0 \in 0..Retries /\ 0 \in 0..MaxAgain /\ 0 \in 0..MaxBooked /\ 0 \in Nat
    BY GatewayAssumption DEF GatewayAssumption
  <2>2. NoCall \in CallStates
    BY <2>1 DEF NoCall, CallStates
  <2>3. GatewayTypeOK
    BY <2>1, <2>2 DEF GatewayInit, GatewayTypeOK, UsageRows
  <2>4. SlotInv
    BY DEF GatewayInit, SlotInv, CallsHaveTargets, KnowsItsTarget, SlotIsWanted, HolderIsFirst,
           Queues, TalksToLocal, NoCall
  <2> QED BY <2>3, <2>4
<1>2. GatewayTypeOK /\ SlotInv /\ [GatewayNext]_gatewayVars => (GatewayTypeOK /\ SlotInv)'
  BY GatewayStep
<1> QED BY <1>1, <1>2, PTL

\* Calls of the local model take turns: no two of them talk to it at the same time.
OneTalksAtATime ==
    \A v, w \in Workers : TalksToLocal(call[v]) /\ TalksToLocal(call[w]) => v = w

\* The semaphore of gemma.py, under every mix of calls, streams, failures and cancellations.
THEOREM CallsTakeTurns == GatewaySpec => []OneTalksAtATime
<1>1. GatewayTypeOK /\ SlotInv => OneTalksAtATime
  BY DEF SlotInv, HolderIsFirst, OneTalksAtATime
<1>2. GatewaySpec => GatewayInit /\ [][GatewayNext]_gatewayVars
  BY PTL DEF GatewaySpec
<1> QED BY <1>1, <1>2, GatewayIsSound, PTL
-----------------------------------------------------------------------------
(* The server that runs them all *)

\* Every step of the composition is, for each component, a step of it or none at all.
THEOREM JobsRefineTheirParts ==
  JobsSpec => /\ CuratorSpec /\ DigestSpec /\ ProfilesSpec /\ InstinctsSpec
              /\ HealthSpec /\ (GatewayInit /\ [][GatewayNext]_gatewayVars)
              /\ WindowsSpec /\ ChunkingSpec
<1>1. JobsInit => /\ CuratorInit /\ DigestInit /\ ProfilesInit /\ InstinctsInit
                  /\ HealthInit /\ GatewayInit /\ WindowsInit /\ ChunkingInit
  BY DEF JobsInit
<1>2. [JobsNext]_jobVars =>
        /\ [CuratorNext]_curatorVars /\ [DigestNext]_digestVars
        /\ [ProfilesNext]_profileVars /\ [InstinctsNext]_instinctVars /\ [HealthNext]_healthVars
        /\ [GatewayNext]_gatewayVars /\ [WindowsNext]_asked /\ [ChunkingNext]_cut
  BY DEF JobsNext, jobVars
<1> QED
  BY <1>1, <1>2, PTL
     DEF JobsSpec, CuratorSpec, DigestSpec, ProfilesSpec, InstinctsSpec, HealthSpec,
         WindowsSpec, ChunkingSpec

\* Whichever job is looked at, it keeps its types.
THEOREM JobsTypeCorrect == JobsSpec => []JobsTypeOK
<1>1. JobsInit => focus \in Parts
  BY DEF JobsInit
<1>2. focus \in Parts /\ [JobsNext]_jobVars => (focus \in Parts)'
  BY DEF JobsNext, jobVars
<1>3. JobsSpec => [](focus \in Parts)
  BY <1>1, <1>2, PTL DEF JobsSpec
<1>4. WindowsSpec => [](asked \in Questions)
  <2>1. WindowsInit => asked \in Questions
    BY DEF WindowsInit
  <2>2. asked \in Questions /\ [WindowsNext]_asked => (asked \in Questions)'
    BY DEF WindowsNext
  <2> QED BY <2>1, <2>2, PTL DEF WindowsSpec
<1>5. ChunkingSpec => [](cut \in Cuts)
  <2>1. ChunkingInit => cut \in Cuts
    BY DEF ChunkingInit
  <2>2. cut \in Cuts /\ [ChunkingNext]_cut => (cut \in Cuts)'
    BY DEF ChunkingNext
  <2> QED BY <2>1, <2>2, PTL DEF ChunkingSpec
<1>6. /\ focus \in Parts /\ CuratorTypeOK /\ DigestTypeOK /\ ProfilesTypeOK
      /\ InstinctsTypeOK /\ HealthTypeOK /\ GatewayTypeOK /\ asked \in Questions /\ cut \in Cuts
      => JobsTypeOK
  BY DEF JobsTypeOK
<1> QED
  BY <1>3, <1>4, <1>5, <1>6, JobsRefineTheirParts, CuratorTypeCorrect,
     DigestsAreSound, ProfilesAreSound, InstinctsAreSound, MonitorIsSound, GatewayIsSound, PTL

\* What holds of each job by itself holds of the server that runs them all: digests cover
\* their week, observations are counted, the operator is told the truth, windows keep time,
\* whole texts are read, and the local model has one caller.
THEOREM JobsAreSafe ==
  JobsSpec => []( /\ DigestsCoverTheirWeek /\ ObservationsAreCounted
                  /\ LastNoticeIsTrue /\ WindowsMatchTheClock /\ WholeTextIsRead
                  /\ OneTalksAtATime )
<1>1. GatewayTypeOK /\ SlotInv => OneTalksAtATime
  BY DEF SlotInv, HolderIsFirst, OneTalksAtATime
<1> QED
  BY <1>1, JobsRefineTheirParts, DigestsStayComplete, ObservationsStayCounted,
     TheOperatorIsToldTheTruth, WindowsKeepTime, WholeTextsAreRead, GatewayIsSound, PTL

\* Nor does any step of the server skip a profile that is due, or report too early.
THEOREM JobsKeepTheirPromises == JobsSpec => SkippedIsCovered /\ ReportsKeepTheirDistance
BY JobsRefineTheirParts, SkippingLosesNothing, ReportsAreSpaced, PTL
=============================================================================
