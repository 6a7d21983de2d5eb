--------------------------- MODULE MonitorProofs ---------------------------
(***************************************************************************)
(* Theorems about the monitor for every configuration: type correctness,   *)
(* the bound on the reads of phase 2, the two windows of patience, and     *)
(* that the verdict is what the reads say.                                 *)
(***************************************************************************)
EXTENDS MonitorHistory, MonitorLemmas, SequenceTheorems, FiniteSetTheorems

\* What the counters say of the history, loop by loop: the strengthening that
\* makes the read bound and the patience inductive.
Bookkeeping ==
    /\ mpc \in {"off", "starting", "healing"} => reads = <<>>
    /\ mpc = "watching" => Len(reads) = polls + paused
    /\ mpc = "off" => ~healed /\ idle = 0 /\ stallReads = 0
    /\ mpc = "starting" => stallReads = IF healed THEN Grace + idle ELSE idle
    /\ mpc = "healing" => healed /\ stallReads = Grace

\* The inductive invariant.
MonitorInv == TypeOK /\ Bookkeeping /\ ReadBudget /\ FullPatience

\* A monitor that has not begun satisfies it.
LEMMA InitInv == Init => MonitorInv
<1> SUFFICES ASSUME Init PROVE MonitorInv
  OBVIOUS
<1> USE LimitsPositive DEF Init, MonitorInit
<1>1. MonitorTypeOK
  <2>1. 0 \in 0 .. MaxPolls
    OBVIOUS
  <2>2. verdict # "none" <=> mpc = "done"
    OBVIOUS
  <2>3. QED
    BY <2>1, <2>2 DEF MonitorTypeOK, SeenVerdicts, UnseenVerdicts
<1>2. reads \in Seq(PlaybackStates) /\ Len(reads) = 0 /\ stallReads \in Nat
  OBVIOUS
<1>3. ReadBudget
  BY <1>2 DEF ReadBudget
<1>4. QED
  BY <1>1, <1>2, <1>3 DEF MonitorInv, TypeOK, Bookkeeping, FullPatience

\* Phase 1.
LEMMA PollOneInv == MonitorInv /\ Poll1 => MonitorInv'
<1> SUFFICES ASSUME MonitorInv, NEW playing \in BOOLEAN, IsPlayingRead(playing),
                    stallReads' = IF playing THEN stallReads ELSE stallReads + 1,
                    UNCHANGED reads
             PROVE MonitorInv'
  BY DEF Poll1
<1> USE LimitsPositive DEF MonitorInv, TypeOK, Bookkeeping, ReadBudget, FullPatience
<1>1. CASE playing
  BY <1>1, SeePlayingStep DEF IsPlayingRead
<1>2. CASE ~playing
  <2>1. SeeNothing /\ stallReads' = stallReads + 1 /\ idle \in Nat
    BY <1>2 DEF IsPlayingRead, MonitorTypeOK
  <2>2. QED
    BY <2>1, SeeNothingStep
<1>3. QED
  BY <1>1, <1>2

\* Phase 2.
LEMMA PollTwoInv == MonitorInv /\ Poll2 => MonitorInv'
<1> SUFFICES ASSUME MonitorInv, NEW state \in PlaybackStates, WatchRead(state),
                    reads' = Append(reads, state), UNCHANGED stallReads
             PROVE MonitorInv'
  BY DEF Poll2
<1>1. MonitorTypeOK /\ MonitorTypeOK'
  BY WatchReadStep DEF MonitorInv, TypeOK
<1>2. reads' \in Seq(PlaybackStates) /\ Len(reads') = Len(reads) + 1
  BY DEF MonitorInv, TypeOK
<1>3. Len(reads) = polls + paused /\ polls < MaxPolls /\ paused < MaxPolls
  BY <1>1, WatchReadStep DEF MonitorInv, MonitorTypeOK, Bookkeeping
<1>4. ReadBudget'
  BY <1>1, <1>2, <1>3, LimitsPositive DEF ReadBudget, MonitorTypeOK
<1>5. /\ mpc' \in {"watching", "done"} /\ verdict' # "nostart"
      /\ healed' = healed /\ stallReads' = stallReads
      /\ mpc' = "watching" => Len(reads') = polls' + paused'
  BY <1>1, <1>2, <1>3, WatchReadStep DEF MonitorTypeOK, SeenVerdicts
<1>6. Bookkeeping' /\ FullPatience'
  BY <1>5 DEF MonitorInv, Bookkeeping, FullPatience
<1>7. QED
  BY <1>1, <1>2, <1>4, <1>6 DEF MonitorInv, TypeOK

\* Every step keeps it.
LEMMA NextInv == MonitorInv /\ [Next]_vars => MonitorInv'
<1> SUFFICES ASSUME MonitorInv, [Next]_vars PROVE MonitorInv'
  OBVIOUS
<1> USE DEF MonitorInv, TypeOK, MonitorTypeOK, Bookkeeping, ReadBudget, FullPatience,
        SeenVerdicts, UnseenVerdicts
<1>1. CASE Start
  BY <1>1, LimitsPositive DEF Start, Begin
<1>2. CASE Poll1
  BY <1>2, PollOneInv
<1>3. CASE Heal
  BY <1>3, LimitsPositive DEF Heal, HealReturns
<1>4. CASE Poll2
  BY <1>4, PollTwoInv
<1>5. CASE Stop
  BY <1>5, LimitsPositive DEF Stop, Abort, Return
<1>6. CASE UNCHANGED vars
  BY <1>6 DEF vars
<1>7. QED
  BY <1>1, <1>2, <1>3, <1>4, <1>5, <1>6 DEF Next, Finished

\* It holds in every behaviour of the monitor.
THEOREM Invariance == Spec => []MonitorInv
  BY InitInv, NextInv, PTL DEF Spec

\* The monitor's type invariant holds under every configuration: the counters
\* never pass their limits while a loop runs.
THEOREM TypeCorrect == Spec => []TypeOK
<1>1. MonitorInv => TypeOK
  BY DEF MonitorInv
<1>2. QED
  BY Invariance, <1>1, PTL

\* Phase 2 is over within 2*max_polls - 1 reads under every configuration and
\* every stream of reads.
THEOREM ReadsBounded == Spec => []ReadBudget
<1>1. MonitorInv => ReadBudget
  BY DEF MonitorInv
<1>2. QED
  BY Invariance, <1>1, PTL

\* The monitor gives up on a start only after two full windows of patience,
\* and heals only after the first.
THEOREM PatienceHolds == Spec => []FullPatience
<1>1. MonitorInv => FullPatience
  BY DEF MonitorInv
<1>2. QED
  BY Invariance, <1>1, PTL

-----------------------------------------------------------------------------
(* The verdict: what each counter of phase 2 says of the reads made so far. *)

\* The reads that show a disc, and the last of them in a history, or 0.
Live == {"playing", "paused"}

IsLastLive(s, l) ==
    /\ l \in 0 .. Len(s) /\ (l # 0 => s[l] \in Live)
    /\ \A i \in l + 1 .. Len(s) : s[i] \notin Live

\* The unreadable reads a history ends with.
EndsUnknown(s, u) ==
    /\ u \in 0 .. Len(s)
    /\ \A i \in Len(s) - u + 1 .. Len(s) : s[i] = "unknown"
    /\ u < Len(s) => s[Len(s) - u] # "unknown"

\* What the four counters of phase 2 count.
Tallied(s, i, u, p, q) ==
    /\ \E l : IsLastLive(s, l)
    /\ i = Count(SubSeq(s, LastLive(s) + 1, Len(s)), {"idle"})
    /\ EndsUnknown(s, u)
    /\ p = Count(s, PlaybackStates \ {"paused"})
    /\ q = Count(s, {"paused"})

\* The strengthening that makes the verdict inductive.
Tally == mpc = "watching" => Tallied(reads, idle, unknown, polls, paused)

-----------------------------------------------------------------------------
\* Count, read by read.
LEMMA CountEmpty == \A states : Count(<<>>, states) = 0
BY FS_EmptySet DEF Count

LEMMA CountFinite ==
    ASSUME NEW S, NEW s \in Seq(S), NEW states
    PROVE  IsFiniteSet({i \in DOMAIN s : s[i] \in states}) /\ Count(s, states) \in Nat
<1>1. Len(s) \in Nat /\ DOMAIN s = 1 .. Len(s)
  BY LenProperties
<1>2. IsFiniteSet(1 .. Len(s))
  BY <1>1, FS_Interval
<1>3. {i \in DOMAIN s : s[i] \in states} \in SUBSET (1 .. Len(s))
  BY <1>1
<1>4. IsFiniteSet({i \in DOMAIN s : s[i] \in states})
  BY <1>2, <1>3, FS_Subset
<1> QED
  BY <1>4, FS_CardinalityType DEF Count

LEMMA CountAppend ==
    ASSUME NEW S, NEW s \in Seq(S), NEW e \in S, NEW states
    PROVE  Count(Append(s, e), states) = IF e \in states THEN Count(s, states) + 1 ELSE Count(s, states)
<1> DEFINE more == Append(s, e)
           n == Len(s)
           here == {i \in DOMAIN s : s[i] \in states}
           there == {i \in DOMAIN more : more[i] \in states}
<1>1. /\ n \in Nat /\ DOMAIN s = 1 .. n /\ DOMAIN more = 1 .. n + 1
      /\ more[n + 1] = e /\ \A i \in 1 .. n : more[i] = s[i]
  BY AppendProperties, LenProperties
<1>2. n + 1 \notin here
  BY <1>1
<1>3. IsFiniteSet(here)
  BY CountFinite
<1> HIDE DEF more, n
<1>4. there = IF e \in states THEN here \union {n + 1} ELSE here
  BY <1>1
<1>5. Count(s, states) = Cardinality(here) /\ Count(more, states) = Cardinality(there)
  BY DEF Count
<1> HIDE DEF here, there
<1>6. Cardinality(here \union {n + 1}) = Cardinality(here) + 1
  BY <1>2, <1>3, FS_AddElement
<1> QED
  BY <1>4, <1>5, <1>6 DEF more

\* LastLive is the place IsLastLive describes: there is one at most.
LEMMA LastLiveIs ==
    ASSUME NEW s \in Seq(PlaybackStates), NEW l, IsLastLive(s, l)
    PROVE  LastLive(s) = l
<1> DEFINE live == {i \in DOMAIN s : s[i] \in Live}
           n == Len(s)
<1>1. n \in Nat /\ DOMAIN s = 1 .. n
  BY LenProperties
<1>2. /\ l \in 0 .. n /\ (l # 0 => s[l] \in Live)
      /\ \A i \in l + 1 .. n : s[i] \notin Live
  BY DEF IsLastLive
<1>3. LastLive(s) = IF live = {} THEN 0 ELSE CHOOSE i \in live : \A j \in live : j <= i
  BY DEF LastLive, Live
<1> HIDE DEF n
<1>4. \A i \in live : i \in 1 .. n /\ i <= l
  BY <1>1, <1>2
<1>5. CASE l = 0
  <2>1. live = {}
    BY <1>2, <1>4, <1>5
  <2> QED BY <1>3, <1>5, <2>1
<1>6. CASE l # 0
  <2>1. l \in live
    BY <1>1, <1>2, <1>6
  <2> HIDE DEF live
  <2>2. \A i \in live : (\A j \in live : j <= i) => i = l
    <3> SUFFICES ASSUME NEW i \in live, \A j \in live : j <= i PROVE i = l
      OBVIOUS
    <3>1. l <= i /\ i <= l /\ i \in Int /\ l \in Int
      BY <1>2, <1>4, <2>1
    <3> QED BY <3>1
  <2>3. (CHOOSE i \in live : \A j \in live : j <= i) = l
    BY <1>4, <2>1, <2>2
  <2> QED BY <1>3, <2>1, <2>3
<1> QED
  BY <1>5, <1>6

\* What is behind a place in a sequence grows with it.
LEMMA SubSeqAppend ==
    ASSUME NEW S, NEW s \in Seq(S), NEW e \in S, NEW l \in 0 .. Len(s)
    PROVE  /\ SubSeq(s, l + 1, Len(s)) \in Seq(S)
           /\ SubSeq(Append(s, e), l + 1, Len(s) + 1) = Append(SubSeq(s, l + 1, Len(s)), e)
<1> DEFINE n == Len(s)
           more == Append(s, e)
           old == SubSeq(s, l + 1, n)
           new == SubSeq(more, l + 1, n + 1)
           grown == Append(old, e)
<1>1. /\ n \in Nat /\ l \in 0 .. n /\ l + 1 \in Int /\ n + 1 \in Int /\ n \in Int
      /\ \A i \in 1 .. n : s[i] \in S /\ more[i] = s[i]
      /\ more[n + 1] = e
  BY AppendProperties, LenProperties, ElementOfSeq
<1>2. \A i \in l + 1 .. n : s[i] \in S
  BY <1>1
<1>3. \A i \in l + 1 .. n + 1 : more[i] \in S
  <2> SUFFICES ASSUME NEW i \in l + 1 .. n + 1 PROVE more[i] \in S
    OBVIOUS
  <2>1. i \in 1 .. n \/ i = n + 1
    BY <1>1
  <2> QED BY <1>1, <2>1
<1> HIDE DEF n, more
<1>4. /\ old \in Seq(S) /\ Len(old) = IF l + 1 <= n THEN n - (l + 1) + 1 ELSE 0
      /\ \A i \in 1 .. n - (l + 1) + 1 : old[i] = s[(l + 1) + i - 1]
  BY <1>1, <1>2, SubSeqProperties
<1>5. /\ new \in Seq(S) /\ Len(new) = IF l + 1 <= n + 1 THEN (n + 1) - (l + 1) + 1 ELSE 0
      /\ \A i \in 1 .. (n + 1) - (l + 1) + 1 : new[i] = more[(l + 1) + i - 1]
  BY <1>1, <1>3, SubSeqProperties
<1> HIDE DEF old, new
<1>6. /\ grown \in Seq(S) /\ Len(grown) = Len(old) + 1 /\ grown[Len(old) + 1] = e
      /\ \A i \in 1 .. Len(old) : grown[i] = old[i]
  BY <1>4, AppendProperties
<1>7. Len(old) = n - l /\ Len(new) = n - l + 1
  BY <1>1, <1>4, <1>5
<1> HIDE DEF grown
<1>8. \A i \in 1 .. Len(new) : new[i] = grown[i]
  <2> SUFFICES ASSUME NEW i \in 1 .. Len(new) PROVE new[i] = grown[i]
    OBVIOUS
  <2>1. i \in 1 .. n - l + 1 /\ i \in 1 .. (n + 1) - (l + 1) + 1 /\ (l + 1) + i - 1 = l + i
    BY <1>1, <1>7
  <2>2. new[i] = more[l + i]
    BY <1>5, <2>1
  <2>3. CASE i = n - l + 1
    <3>1. l + i = n + 1 /\ i = Len(old) + 1
      BY <1>1, <1>7, <2>3
    <3> QED BY <1>1, <1>6, <2>2, <3>1
  <2>4. CASE i # n - l + 1
    <3>1. i \in 1 .. Len(old) /\ i \in 1 .. n - (l + 1) + 1 /\ l + i \in 1 .. n
      BY <1>1, <1>7, <2>1, <2>4
    <3>2. old[i] = s[l + i] /\ grown[i] = old[i] /\ more[l + i] = s[l + i]
      BY <1>1, <1>4, <1>6, <2>1, <3>1
    <3> QED BY <2>2, <3>2
  <2> QED BY <2>3, <2>4
<1>9. Len(new) = Len(grown)
  BY <1>1, <1>6, <1>7
<1>10. new = grown
  BY <1>5, <1>6, <1>8, <1>9, SeqEqual
<1> QED
  BY <1>4, <1>10 DEF n, more, old, new, grown

-----------------------------------------------------------------------------
\* One more read, counted.
LEMMA TallyAppend ==
    ASSUME NEW s \in Seq(PlaybackStates), NEW e \in PlaybackStates,
           NEW i, NEW u, NEW p, NEW q, Tallied(s, i, u, p, q)
    PROVE  Tallied(Append(s, e),
                   IF e \in Live THEN 0 ELSE IF e = "idle" THEN i + 1 ELSE i,
                   IF e = "unknown" THEN u + 1 ELSE 0,
                   IF e = "paused" THEN p ELSE p + 1,
                   IF e = "paused" THEN q + 1 ELSE q)
<1> DEFINE more == Append(s, e)
           n == Len(s)
           i2 == IF e \in Live THEN 0 ELSE IF e = "idle" THEN i + 1 ELSE i
           u2 == IF e = "unknown" THEN u + 1 ELSE 0
           p2 == IF e = "paused" THEN p ELSE p + 1
           q2 == IF e = "paused" THEN q + 1 ELSE q
<1>1. /\ more \in Seq(PlaybackStates) /\ n \in Nat /\ Len(more) = n + 1 /\ more[n + 1] = e
      /\ \A k \in 1 .. n : more[k] = s[k]
  BY AppendProperties, LenProperties
<1>2. PICK l : IsLastLive(s, l)
  BY DEF Tallied
<1>3. /\ l \in 0 .. n /\ (l # 0 => s[l] \in Live)
      /\ \A k \in l + 1 .. n : s[k] \notin Live
  BY <1>2 DEF IsLastLive
<1>4. /\ i = Count(SubSeq(s, l + 1, n), {"idle"}) /\ EndsUnknown(s, u)
      /\ p = Count(s, PlaybackStates \ {"paused"}) /\ q = Count(s, {"paused"})
  BY <1>2, LastLiveIs DEF Tallied
<1>5. SubSeq(s, l + 1, n) \in Seq(PlaybackStates) /\ SubSeq(more, l + 1, n + 1) = Append(SubSeq(s, l + 1, n), e)
  BY <1>3, SubSeqAppend
<1>6. i \in Nat /\ p \in Nat /\ q \in Nat
  BY <1>4, <1>5, CountFinite
<1> HIDE DEF more, n
<1>7. /\ \E k : IsLastLive(more, k)
      /\ i2 = Count(SubSeq(more, LastLive(more) + 1, Len(more)), {"idle"})
  <2>1. CASE e \in Live
    <3>1. IsLastLive(more, n + 1)
      BY <1>1, <2>1 DEF IsLastLive
    <3>2. LastLive(more) = n + 1
      BY <1>1, <3>1, LastLiveIs
    <3>3. SubSeq(more, (n + 1) + 1, n + 1) = <<>>
      BY <1>1, SubSeqEmpty
    <3> QED BY <1>1, <2>1, <3>1, <3>2, <3>3, CountEmpty
  <2>2. CASE e \notin Live
    <3>1. IsLastLive(more, l)
      <4>1. l \in 0 .. n + 1 /\ (l # 0 => more[l] \in Live)
        BY <1>1, <1>3
      <4>2. ASSUME NEW k \in l + 1 .. n + 1 PROVE more[k] \notin Live
        <5>1. k \in l + 1 .. n \/ k = n + 1
          BY <1>1, <1>3
        <5>2. k \in l + 1 .. n => more[k] = s[k]
          BY <1>1, <1>3
        <5> QED BY <1>1, <1>3, <2>2, <5>1, <5>2
      <4> QED BY <1>1, <4>1, <4>2 DEF IsLastLive
    <3>2. LastLive(more) = l
      BY <1>1, <3>1, LastLiveIs
    <3> DEFINE old == SubSeq(s, l + 1, n)
    <3>3. old \in Seq(PlaybackStates) /\ SubSeq(more, l + 1, n + 1) = Append(old, e) /\ i = Count(old, {"idle"})
      BY <1>4, <1>5
    <3> HIDE DEF old
    <3>4. Count(Append(old, e), {"idle"}) = i2
      BY <2>2, <3>3, CountAppend
    <3> QED BY <1>1, <3>1, <3>2, <3>3, <3>4
  <2> QED BY <2>1, <2>2
<1>8. EndsUnknown(more, u2)
  <2>1. /\ u \in 0 .. n /\ (\A k \in n - u + 1 .. n : s[k] = "unknown")
        /\ u < n => s[n - u] # "unknown"
    BY <1>4 DEF EndsUnknown, n
  <2>2. CASE e = "unknown"
    <3>1. u2 = u + 1 /\ u2 \in 0 .. n + 1 /\ (n + 1) - u2 = n - u
      BY <1>1, <2>1, <2>2
    <3>2. ASSUME NEW k \in (n + 1) - u2 + 1 .. n + 1 PROVE more[k] = "unknown"
      <4>1. k = n + 1 \/ (k \in n - u + 1 .. n /\ k \in 1 .. n)
        BY <1>1, <2>1, <3>1
      <4> QED BY <1>1, <2>1, <2>2, <4>1
    <3>3. u2 < n + 1 => more[(n + 1) - u2] # "unknown"
      <4> SUFFICES ASSUME u2 < n + 1 PROVE more[n - u] # "unknown"
        BY <3>1
      <4>1. u < n /\ n - u \in 1 .. n
        BY <1>1, <2>1, <3>1
      <4> QED BY <1>1, <2>1, <4>1
    <3> HIDE DEF u2
    <3> QED BY <1>1, <3>1, <3>2, <3>3 DEF EndsUnknown
  <2>3. CASE e # "unknown"
    <3>1. u2 = 0
      BY <2>3
    <3> QED BY <1>1, <2>3, <3>1 DEF EndsUnknown
  <2> QED BY <2>2, <2>3
<1>9. p2 = Count(more, PlaybackStates \ {"paused"})
  BY <1>4, CountAppend DEF more
<1>10. q2 = Count(more, {"paused"})
  BY <1>4, CountAppend DEF more
<1> QED
  BY <1>7, <1>8, <1>9, <1>10, Zenon DEF Tallied, more

\* The verdict of a history, by its four counts.
LEMMA TalliedVerdict ==
    ASSUME NEW s \in Seq(PlaybackStates), NEW i, NEW u, NEW p, NEW q, Tallied(s, i, u, p, q)
    PROVE  /\ i \in Nat /\ u \in Nat /\ p \in Nat /\ q \in Nat
           /\ Verdict(s) = IF i >= Needed THEN "stopped" ELSE IF u >= MaxUnknown THEN "unreadable"
                           ELSE IF p >= MaxPolls THEN "playCeiling"
                           ELSE IF q >= MaxPolls THEN "pauseCeiling" ELSE "none"
<1> DEFINE n == Len(s)
<1>1. n \in Nat /\ MaxUnknown \in Nat \ {0}
  BY LenProperties, LimitsPositive
<1>2. PICK l : IsLastLive(s, l)
  BY DEF Tallied
<1>3. i \in Nat /\ p \in Nat /\ q \in Nat
  <2>1. l \in 0 .. n
    BY <1>2 DEF IsLastLive
  <2>2. "idle" \in PlaybackStates
    BY DEF PlaybackStates
  <2>3. SubSeq(s, l + 1, n) \in Seq(PlaybackStates)
    BY <2>1, <2>2, SubSeqAppend
  <2>4. LastLive(s) = l
    BY <1>2, LastLiveIs
  <2> QED BY <2>3, <2>4, CountFinite DEF Tallied
<1>4. /\ u \in 0 .. n /\ (\A k \in n - u + 1 .. n : s[k] = "unknown")
      /\ u < n => s[n - u] # "unknown"
  BY DEF Tallied, EndsUnknown
<1>5. Unreadable(s) <=> u >= MaxUnknown
  <2>1. ASSUME u >= MaxUnknown PROVE Unreadable(s)
    <3>1. n >= MaxUnknown /\ \A k \in n - MaxUnknown + 1 .. n : k \in n - u + 1 .. n
      BY <1>1, <1>4, <2>1
    <3> QED BY <1>4, <3>1 DEF Unreadable
  <2>2. ASSUME Unreadable(s), ~(u >= MaxUnknown) PROVE FALSE
    <3>1. n >= MaxUnknown /\ \A k \in n - MaxUnknown + 1 .. n : s[k] = "unknown"
      BY <2>2 DEF Unreadable
    <3>2. u < n /\ n - u \in n - MaxUnknown + 1 .. n
      BY <1>1, <1>4, <2>2, <3>1
    <3> QED BY <1>4, <3>1, <3>2
  <2> QED BY <2>1, <2>2
<1>6. Stopped(s) <=> i >= Needed
  BY DEF Stopped, Tallied
<1>7. p = Count(s, PlaybackStates \ {"paused"}) /\ q = Count(s, {"paused"})
  BY DEF Tallied
<1> QED
  BY <1>3, <1>4, <1>5, <1>6, <1>7 DEF Verdict

\* A watch begins with nothing counted.
LEMMA TalliedEmpty == Tallied(<<>>, 0, 0, 0, 0)
<1>1. <<>> \in Seq(PlaybackStates) /\ Len(<<>>) = 0
  BY EmptySeq
<1>2. IsLastLive(<<>>, 0) /\ EndsUnknown(<<>>, 0)
  BY <1>1 DEF IsLastLive, EndsUnknown
<1>3. LastLive(<<>>) = 0
  BY <1>1, <1>2, LastLiveIs
<1>4. SubSeq(<<>>, 0 + 1, 0) = <<>>
  BY SubSeqEmpty
<1> QED
  BY <1>1, <1>2, <1>3, <1>4, CountEmpty DEF Tallied

\* The read that ends the watch is the one its history names.
LEMMA PollTwoVerdict ==
    ASSUME MonitorInv, Tally, VerdictExact, NEW state \in PlaybackStates, WatchRead(state),
           reads' = Append(reads, state)
    PROVE  Tally' /\ VerdictExact'
<1> DEFINE i2 == IF state \in Live THEN 0 ELSE IF state = "idle" THEN idle + 1 ELSE idle
           u2 == IF state = "unknown" THEN unknown + 1 ELSE 0
           p2 == IF state = "paused" THEN polls ELSE polls + 1
           q2 == IF state = "paused" THEN paused + 1 ELSE paused
           judged == IF i2 >= Needed THEN "stopped" ELSE IF u2 >= MaxUnknown THEN "unreadable"
                     ELSE IF p2 >= MaxPolls THEN "playCeiling"
                     ELSE IF q2 >= MaxPolls THEN "pauseCeiling" ELSE "none"
<1>1. /\ MonitorTypeOK /\ reads \in Seq(PlaybackStates) /\ reads' \in Seq(PlaybackStates)
      /\ mpc = "watching" /\ verdict = "none"
  BY WatchReadStep, AppendProperties DEF MonitorInv, TypeOK
<1>2. Tallied(reads, idle, unknown, polls, paused)
  BY <1>1 DEF Tally
<1>3. Tallied(reads', i2, u2, p2, q2)
  BY <1>1, <1>2, TallyAppend
<1> HIDE DEF i2, u2, p2, q2
<1>4. Verdict(reads') = judged
  BY <1>1, <1>3, TalliedVerdict
<1>5. /\ idle \in Nat /\ unknown \in Nat /\ polls \in Nat /\ paused \in Nat
      /\ idle < Needed /\ unknown < MaxUnknown /\ polls < MaxPolls /\ paused < MaxPolls
      /\ Needed \in Nat \ {0} /\ MaxUnknown \in Nat \ {0} /\ MaxPolls \in Nat \ {0}
  BY <1>1, LimitsPositive DEF MonitorTypeOK
<1>6. /\ mpc' \in {"watching", "done"} /\ (mpc' = "watching" => verdict' = "none")
      /\ verdict' = judged
      /\ mpc' = "watching" => idle' = i2 /\ unknown' = u2 /\ polls' = p2 /\ paused' = q2
      /\ mpc' = "done" => verdict' # "none"
  <2> USE <1>1, <1>5
  <2>1. CASE state = "paused"
    <3>1. i2 = 0 /\ u2 = 0 /\ p2 = polls /\ q2 = paused + 1
      BY <2>1 DEF i2, u2, p2, q2, Live
    <3> QED BY <2>1, <3>1 DEF WatchRead, ReadPaused, Return
  <2>2. CASE state = "playing"
    <3>1. i2 = 0 /\ u2 = 0 /\ p2 = polls + 1 /\ q2 = paused
      BY <2>2 DEF i2, u2, p2, q2, Live
    <3> QED BY <2>2, <3>1 DEF WatchRead, ReadPlaying, ChargePoll, Return
  <2>3. CASE state = "idle"
    <3>1. i2 = idle + 1 /\ u2 = 0 /\ p2 = polls + 1 /\ q2 = paused
      BY <2>3 DEF i2, u2, p2, q2, Live
    <3>2. /\ unknown' = 0 /\ idle' = idle + 1 /\ paused' = paused
          /\ IF idle' >= Needed THEN Return("stopped") /\ UNCHANGED polls ELSE ChargePoll
      BY <2>3 DEF WatchRead, ReadIdle
    <3>3. CASE idle' >= Needed
      BY <3>1, <3>2, <3>3 DEF Return
    <3>4. CASE ~(idle' >= Needed)
      BY <3>1, <3>2, <3>4 DEF ChargePoll, Return
    <3> QED BY <3>3, <3>4
  <2>4. CASE state = "unknown"
    <3>1. i2 = idle /\ u2 = unknown + 1 /\ p2 = polls + 1 /\ q2 = paused
      BY <2>4 DEF i2, u2, p2, q2, Live
    <3>2. /\ unknown' = unknown + 1 /\ idle' = idle /\ paused' = paused
          /\ IF unknown' >= MaxUnknown THEN Return("unreadable") /\ UNCHANGED polls ELSE ChargePoll
      BY <2>4 DEF WatchRead, ReadUnknown
    <3>3. CASE unknown' >= MaxUnknown
      BY <3>1, <3>2, <3>3 DEF Return
    <3>4. CASE ~(unknown' >= MaxUnknown)
      BY <3>1, <3>2, <3>4 DEF ChargePoll, Return
    <3> QED BY <3>3, <3>4
  <2> QED BY <2>1, <2>2, <2>3, <2>4 DEF PlaybackStates
<1> HIDE DEF judged
<1>7. Tally'
  BY <1>3, <1>6 DEF Tally
<1>8. VerdictExact'
  BY <1>4, <1>6 DEF VerdictExact
<1> QED
  BY <1>7, <1>8

\* What a step of any other kind leaves of a history that has decided.
LEMMA VerdictStep == MonitorInv /\ Tally /\ VerdictExact /\ [Next]_vars => Tally' /\ VerdictExact'
<1> SUFFICES ASSUME MonitorInv, Tally, VerdictExact, [Next]_vars PROVE Tally' /\ VerdictExact'
  OBVIOUS
<1>1. MonitorTypeOK /\ Bookkeeping
  BY DEF MonitorInv, TypeOK
<1>2. CASE Start
  <2>1. mpc' = "starting" /\ verdict' = verdict /\ mpc = "off"
    BY <1>2 DEF Start, Begin
  <2> QED BY <1>1, <2>1 DEF Tally, VerdictExact, MonitorTypeOK, SeenVerdicts
<1>3. ASSUME NEW playing \in BOOLEAN, IsPlayingRead(playing), reads' = reads
      PROVE  Tally' /\ VerdictExact'
  <2>1. CASE playing
    <3>1. /\ mpc = "starting" /\ mpc' = "watching" /\ verdict' = "none"
          /\ idle' = 0 /\ unknown' = 0 /\ polls' = 0 /\ paused' = 0
      BY <1>1, <1>3, <2>1, SeePlayingStep DEF IsPlayingRead, SeePlaying
    <3>2. reads' = <<>>
      BY <1>1, <1>3, <3>1 DEF Bookkeeping
    <3>3. Tally'
      BY <3>1, <3>2, TalliedEmpty DEF Tally
    <3>4. Verdict(<<>>) = "none"
      <4>1. <<>> \in Seq(PlaybackStates)
        OBVIOUS
      <4>2. ~(0 >= Needed) /\ ~(0 >= MaxUnknown) /\ ~(0 >= MaxPolls)
        BY LimitsPositive
      <4> QED BY <4>1, <4>2, TalliedEmpty, TalliedVerdict
    <3> QED BY <3>1, <3>2, <3>3, <3>4 DEF VerdictExact, SeenVerdicts
  <2>2. CASE ~playing
    <3>1. mpc' \in {"starting", "healing", "done"} /\ verdict' \in {"none", "nostart"}
      BY <1>1, <1>3, <2>2, SeeNothingStep DEF IsPlayingRead
    <3> QED BY <3>1 DEF Tally, VerdictExact, SeenVerdicts
  <2> QED BY <2>1, <2>2
<1>4. CASE Heal
  <2>1. mpc' = "starting" /\ verdict' = verdict /\ mpc = "healing"
    BY <1>4 DEF Heal, HealReturns
  <2> QED BY <1>1, <2>1 DEF Tally, VerdictExact, MonitorTypeOK, SeenVerdicts
<1>5. CASE Poll2
  BY <1>5, PollTwoVerdict DEF Poll2
<1>6. CASE Stop
  <2>1. mpc' = "done" /\ verdict' \in {"abortedEarly", "aborted"}
    BY <1>6 DEF Stop, Abort, Return
  <2> QED BY <2>1 DEF Tally, VerdictExact, SeenVerdicts
<1>7. CASE UNCHANGED vars
  BY <1>7 DEF vars, Tally, VerdictExact
<1> QED
  BY <1>2, <1>3, <1>4, <1>5, <1>6, <1>7 DEF Next, Poll1, Finished

\* Under every configuration and every stream of reads, the watch of
\* _http_watch_until_idle ends at the read after which its history decides, and for
\* the reason the history gives.
THEOREM VerdictIsExact == Spec => []VerdictExact
<1>1. Init => Tally /\ VerdictExact
  BY DEF Init, MonitorInit, Tally, VerdictExact, SeenVerdicts
<1> QED
  BY <1>1, Invariance, VerdictStep, PTL DEF Spec
=============================================================================
