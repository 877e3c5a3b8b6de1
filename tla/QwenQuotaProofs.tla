--------------------------- MODULE QwenQuotaProofs ---------------------------
(***************************************************************************)
(* Proof that the week of an anchor is counted exactly, for any number of  *)
(* servers, any lengths of windows and months and any calls and settings.  *)
(*                                                                         *)
(* WeekIsExact speaks of an entry in the cache; the invariant speaks of    *)
(* the walk that counts it.  What is still to be read and what has been    *)
(* counted together hold every call known when the refresh began, as long  *)
(* as less than a month has passed since the anchor, for then the months   *)
(* of the two ends are all the months there are.                           *)
(***************************************************************************)
EXTENDS QwenQuota, FiniteSetTheorems, TLAPS

Anchors == [five : Readings, at : Nat]

Entries == [key : Anchors \cup {None}, at : Nat, since : Nat, five : Nat, known : Nat,
            fresh : BOOLEAN]

Walks == [step : {"walk", "key"}, at : Nat, from : Nat, months : SUBSET Nat,
          since : Nat, five : Nat, known : Nat]

Writes == [step : {"write"}, entry : Entries]

Types ==
    /\ now \in Nat
    /\ calls \subseteq 0..now
    /\ anchor \in Anchors \cup {None}
    /\ anchor # None => anchor.at <= now
    /\ cache \in Entries \cup {None}
    /\ job \in [Servers -> Walks \cup Writes \cup {None}]

\* The calls since the anchor in the files that are still to be read, and
\* those in all the others.
Ahead(j) == {t \in calls : t >= j.at /\ MonthOf(t) \in j.months}
Behind(j) == {t \in calls : t >= j.at /\ MonthOf(t) \notin j.months}

WithinMonth(at) == now < at + Month

Walked(j) ==
    /\ j.since <= Cardinality(Behind(j))
    /\ WithinMonth(j.at) => j.known <= j.since + Cardinality(Ahead(j))
    /\ j.step = "key" => j.months = {}

Counted(e) ==
    /\ e.since <= CallsIn(e.at)
    /\ WithinMonth(e.at) => e.known <= e.since

IInv ==
    /\ Types
    /\ cache # None => Counted(cache)
    /\ \A s \in Servers : job[s] # None =>
          /\ job[s].step \in {"walk", "key"} => Walked(job[s])
          /\ job[s].step = "write" => Counted(job[s].entry)

-----------------------------------------------------------------------------
(* Arithmetic of months.                                                   *)

LEMMA ModBound == \A a \in Nat, m \in Nat \ {0} : a % m \in 0..m - 1
OBVIOUS

LEMMA MonthsGrow == \A a, b \in Nat, m \in Nat \ {0} : a <= b => a \div m <= b \div m
OBVIOUS

LEMMA MonthsFollow == \A a, b \in Nat, m \in Nat \ {0} : b <= a + m => b \div m <= (a \div m) + 1
OBVIOUS

LEMMA MonthIsNatural == \A a \in Nat, m \in Nat \ {0} : a \div m \in Nat
OBVIOUS

\* A week never began longer than a month ago.
LEMMA WeekWithinMonth ==
    ASSUME Types, NEW at \in Nat, WeekStart(now) <= at
    PROVE  WithinMonth(at)
<1> DEFINE r == (now + Phase) % Week
<1>1. now \in Nat /\ Phase \in Nat /\ Week \in Nat \ {0} /\ Month \in Nat /\ Week <= Month
    BY ConstantsAssumption DEF Types
<1>2. r \in 0..Week - 1
    BY <1>1, ModBound
<1>3. WeekStart(now) = IF now < r THEN 0 ELSE now - r
    BY DEF WeekStart, Before
<1> HIDE DEF r
<1>4. QED
    BY <1>1, <1>2, <1>3 DEF WithinMonth

-----------------------------------------------------------------------------
(* Counting.                                                               *)

LEMMA TimesFinite ==
    ASSUME NEW n \in Nat, NEW S \in SUBSET (0..n)
    PROVE  IsFiniteSet(S) /\ Cardinality(S) \in Nat
<1>1. IsFiniteSet(0..n)
    BY FS_Interval
<1>2. IsFiniteSet(S)
    BY <1>1, FS_Subset
<1>3. QED
    BY <1>2, FS_CardinalityType

LEMMA CallsFinite ==
    ASSUME Types
    PROVE  \A S \in SUBSET calls : IsFiniteSet(S) /\ Cardinality(S) \in Nat
<1>1. now \in Nat /\ \A S \in SUBSET calls : S \in SUBSET (0..now)
    BY DEF Types
<1>2. QED
    BY <1>1, TimesFinite

LEMMA CountsAreNatural ==
    ASSUME Types, NEW j
    PROVE  /\ Cardinality(Ahead(j)) \in Nat /\ Cardinality(Behind(j)) \in Nat
           /\ \A from : CallsIn(from) \in Nat
<1>1. Ahead(j) \subseteq calls /\ Behind(j) \subseteq calls
    BY DEF Ahead, Behind
<1>2. \A from : {t \in calls : t >= from} \subseteq calls
    OBVIOUS
<1>3. QED
    BY <1>1, <1>2, CallsFinite DEF CallsIn

\* What is there to count only grows, and time takes anchors out of reach.
LEMMA MoreCalls ==
    ASSUME Types, Types', calls \subseteq calls', now <= now'
    PROVE  /\ \A j \in Walks : Walked(j) => Walked(j)'
           /\ \A e \in Entries : Counted(e) => Counted(e)'
<1>1. \A S \in SUBSET calls' : IsFiniteSet(S) /\ Cardinality(S) \in Nat
    <2>1. now' \in Nat /\ \A S \in SUBSET calls' : S \in SUBSET (0..now')
        BY DEF Types
    <2>2. QED
        BY <2>1, TimesFinite
<1>2. Month \in Nat /\ now \in Nat /\ now' \in Nat
    BY ConstantsAssumption DEF Types
<1>3. ASSUME NEW j \in Walks, Walked(j)
      PROVE  Walked(j)'
    <2>1. /\ Ahead(j) \subseteq Ahead(j)' /\ Ahead(j)' \subseteq calls'
          /\ Behind(j) \subseteq Behind(j)' /\ Behind(j)' \subseteq calls'
        BY DEF Ahead, Behind, MonthOf
    <2>2. /\ Cardinality(Ahead(j)) <= Cardinality(Ahead(j)')
          /\ Cardinality(Behind(j)) <= Cardinality(Behind(j)')
        BY <1>1, <2>1, FS_Subset
    <2>3. /\ Cardinality(Ahead(j)) \in Nat /\ Cardinality(Behind(j)) \in Nat
          /\ Cardinality(Ahead(j)') \in Nat /\ Cardinality(Behind(j)') \in Nat
        <3>1. Cardinality(Ahead(j)) \in Nat /\ Cardinality(Behind(j)) \in Nat
            BY CountsAreNatural
        <3>2. QED
            BY <1>1, <2>1, <3>1
    <2>4. j.since \in Nat /\ j.known \in Nat /\ j.at \in Nat
        BY DEF Walks
    <2>5. WithinMonth(j.at)' => WithinMonth(j.at)
        BY <1>2, <2>4 DEF WithinMonth
    <2>6. QED
        BY <1>3, <2>2, <2>3, <2>4, <2>5 DEF Walked
<1>4. ASSUME NEW e \in Entries, Counted(e)
      PROVE  Counted(e)'
    <2> DEFINE old == {t \in calls : t >= e.at}
               new == {t \in calls' : t >= e.at}
    <2>1. old \subseteq new /\ new \subseteq calls'
        OBVIOUS
    <2>2. Cardinality(old) <= Cardinality(new)
        BY <1>1, <2>1, FS_Subset
    <2>3. Cardinality(old) \in Nat /\ Cardinality(new) \in Nat
        BY <1>1, <2>1, CallsFinite
    <2>4. CallsIn(e.at) = Cardinality(old) /\ CallsIn(e.at)' = Cardinality(new)
        BY DEF CallsIn
    <2> HIDE DEF old, new
    <2>5. e.since \in Nat /\ e.at \in Nat
        BY DEF Entries
    <2>6. WithinMonth(e.at)' => WithinMonth(e.at)
        BY <1>2, <2>5 DEF WithinMonth
    <2>7. QED
        BY <1>4, <2>2, <2>3, <2>4, <2>5, <2>6 DEF Counted
<1>5. QED
    BY <1>3, <1>4

-----------------------------------------------------------------------------
(* The steps.                                                              *)

\* A step that leaves the walks alone, and may add calls or pass time.
LEMMA QuietKeeps ==
    ASSUME IInv, Types', calls \subseteq calls', now <= now', UNCHANGED job,
           cache' # None => /\ cache # None
                            /\ cache'.since = cache.since /\ cache'.known = cache.known
                            /\ cache'.at = cache.at
    PROVE  IInv'
<1>1. /\ Types /\ cache \in Entries \cup {None}
      /\ job \in [Servers -> Walks \cup Writes \cup {None}]
    BY DEF IInv, Types
<1>2. /\ \A j \in Walks : Walked(j) => Walked(j)'
      /\ \A e \in Entries : Counted(e) => Counted(e)'
    BY <1>1, MoreCalls
<1>3. ASSUME cache' # None
      PROVE  Counted(cache)'
    <2>1. cache \in Entries /\ Counted(cache)
        BY <1>1, <1>3 DEF IInv
    <2>2. PICK e \in Entries : e = cache
        BY <2>1
    <2>3. Counted(e)'
        BY <1>2, <2>1, <2>2
    <2>4. e.since <= Cardinality({t \in calls' : t >= e.at}) /\ (now' < e.at + Month => e.known <= e.since)
        BY <2>3 DEF Counted, CallsIn, WithinMonth
    <2>5. QED
        BY <1>3, <2>2, <2>4 DEF Counted, CallsIn, WithinMonth
<1>4. ASSUME NEW s \in Servers, job'[s] # None
      PROVE  /\ job'[s].step \in {"walk", "key"} => Walked(job[s])'
             /\ job'[s].step = "write" => Counted(job[s].entry)'
    <2>1. job'[s] = job[s] /\ job[s] \in Walks \cup Writes
        BY <1>1, <1>4
    <2>2. CASE job[s] \in Walks
        <3>1. PICK j \in Walks : j = job[s]
            BY <2>2
        <3>2. Walked(j)'
            BY <1>2, <1>4, <2>1, <3>1 DEF IInv, Walks
        <3>3. /\ j.since <= Cardinality({t \in calls' : t >= j.at /\ MonthOf(t) \notin j.months})
              /\ now' < j.at + Month =>
                    j.known <= j.since + Cardinality({t \in calls' : t >= j.at /\ MonthOf(t) \in j.months})
              /\ j.step = "key" => j.months = {}
            BY <3>2 DEF Walked, Ahead, Behind, WithinMonth, MonthOf
        <3>4. Walked(job[s])'
            BY <2>1, <3>1, <3>3 DEF Walked, Ahead, Behind, WithinMonth, MonthOf
        <3>5. QED
            BY <2>1, <2>2, <3>4 DEF Walks
    <2>3. CASE job[s] \in Writes
        <3>1. PICK e \in Entries : e = job[s].entry
            BY <2>3 DEF Writes
        <3>2. Counted(e)'
            BY <1>2, <1>4, <2>1, <2>3, <3>1 DEF IInv, Writes
        <3>3. e.since <= Cardinality({t \in calls' : t >= e.at}) /\ (now' < e.at + Month => e.known <= e.since)
            BY <3>2 DEF Counted, CallsIn, WithinMonth
        <3>4. Counted(job[s].entry)'
            BY <2>1, <3>1, <3>3 DEF Counted, CallsIn, WithinMonth
        <3>5. QED
            BY <2>1, <2>3, <3>4 DEF Writes
    <2>4. QED
        BY <2>1, <2>2, <2>3
<1>5. QED
    BY <1>3, <1>4 DEF IInv

\* A step of one refresh, with no call and no time in between.
LEMMA RefreshMoves ==
    ASSUME IInv, UNCHANGED <<now, calls, anchor>>, NEW s \in Servers,
           NEW new \in Walks \cup Writes \cup {None}, job' = [job EXCEPT ![s] = new],
           new # None /\ new.step \in {"walk", "key"} => Walked(new),
           new # None /\ new.step = "write" => Counted(new.entry),
           cache' \in Entries \cup {None}, cache' # None => Counted(cache')
    PROVE  IInv'
<1>1. Types'
    BY DEF IInv, Types
<1>2. \A from : CallsIn(from)' = CallsIn(from)
    BY DEF CallsIn
<1>3. \A e : /\ e.since <= CallsIn(e.at) /\ (WithinMonth(e.at) => e.known <= e.since)
             => Counted(e)'
    BY DEF Counted, CallsIn, WithinMonth
<1>4. cache' # None => Counted(cache)'
    BY DEF Counted, CallsIn, WithinMonth
<1>5. ASSUME NEW u \in Servers, job'[u] # None
      PROVE  /\ job'[u].step \in {"walk", "key"} => Walked(job[u])'
             /\ job'[u].step = "write" => Counted(job[u].entry)'
    <2>1. CASE u = s
        <3>1. job'[u] = new
            BY <2>1 DEF IInv, Types
        <3>2. QED
            BY <1>5, <3>1 DEF Walked, Ahead, Behind, Counted, CallsIn, WithinMonth, MonthOf
    <2>2. CASE u # s
        <3>1. job'[u] = job[u]
            BY <2>2 DEF IInv, Types
        <3>2. QED
            BY <1>5, <3>1 DEF IInv, Walked, Ahead, Behind, Counted, CallsIn, WithinMonth, MonthOf
    <2>3. QED
        BY <2>1, <2>2
<1>6. QED
    BY <1>1, <1>4, <1>5 DEF IInv

LEMMA BeginKeeps ==
    ASSUME IInv, NEW s \in Servers, Begin(s)
    PROVE  IInv'
<1> DEFINE five == Before(now, FiveHours)
           spanStart == IF anchor.at < five THEN anchor.at ELSE five
           new == [step |-> "walk", at |-> anchor.at, from |-> five, months |-> UsageMonths(spanStart),
                   since |-> 0, five |-> 0, known |-> CallsIn(anchor.at)]
<1>1. /\ now \in Nat /\ calls \subseteq 0..now /\ anchor.at \in Nat /\ anchor.at <= now
      /\ FiveHours \in Nat /\ Month \in Nat \ {0} /\ FiveHours <= Month
    BY ConstantsAssumption DEF IInv, Types, Anchors, Begin
<1>2. five \in Nat /\ five <= now /\ now <= five + Month
    BY <1>1 DEF Before
<1> HIDE DEF five
<1>3. /\ spanStart \in Nat /\ spanStart <= anchor.at /\ spanStart <= now
      /\ WithinMonth(anchor.at) => now <= spanStart + Month
    BY <1>1, <1>2 DEF WithinMonth
<1> HIDE DEF spanStart
<1>4. UsageMonths(spanStart) = {now \div Month, spanStart \div Month}
    BY DEF UsageMonths, MonthOf
<1>5. UsageMonths(spanStart) \subseteq Nat
    BY <1>1, <1>3, <1>4, MonthIsNatural
<1>6. new \in Walks
    <2>1. CallsIn(anchor.at) \in Nat
        BY CountsAreNatural DEF IInv
    <2>2. QED
        BY <1>1, <1>2, <1>5, <2>1 DEF Walks
<1>7. WithinMonth(anchor.at) => Ahead(new) = {t \in calls : t >= anchor.at}
    <2> SUFFICES ASSUME WithinMonth(anchor.at), NEW t \in calls, t >= anchor.at
                 PROVE  MonthOf(t) \in UsageMonths(spanStart)
        BY DEF Ahead
    <2>1. t \in Nat /\ spanStart <= t /\ t <= now /\ now <= spanStart + Month
        BY <1>1, <1>3
    <2>2. /\ spanStart \div Month <= t \div Month /\ t \div Month <= now \div Month
          /\ now \div Month <= (spanStart \div Month) + 1
        BY <1>1, <1>3, <2>1, MonthsGrow, MonthsFollow
    <2>3. now \div Month \in Nat /\ t \div Month \in Nat /\ spanStart \div Month \in Nat
        BY <1>1, <1>3, <2>1, MonthIsNatural
    <2>4. t \div Month \in {now \div Month, spanStart \div Month}
        BY <2>2, <2>3
    <2>5. QED
        BY <1>4, <2>4 DEF MonthOf
<1>8. Walked(new)
    <2>1. Cardinality(Ahead(new)) \in Nat /\ Cardinality(Behind(new)) \in Nat
        BY CountsAreNatural DEF IInv
    <2>2. WithinMonth(anchor.at) => new.known = Cardinality(Ahead(new))
        BY <1>7 DEF CallsIn
    <2>3. QED
        BY <2>1, <2>2 DEF Walked
<1>9. job' = [job EXCEPT ![s] = new] /\ UNCHANGED <<now, calls, anchor, cache>>
    BY DEF Begin, five, spanStart
<1> HIDE DEF new
<1>10. new.step = "walk"
    BY DEF new
<1>11. QED
    BY <1>6, <1>8, <1>9, <1>10, RefreshMoves DEF IInv, Types

LEMMA ReadFileKeeps ==
    ASSUME IInv, NEW s \in Servers, ReadFile(s)
    PROVE  IInv'
<1> DEFINE j == job[s]
<1>1. /\ Types /\ j \in Walks /\ j.step = "walk" /\ Walked(j)
      /\ UNCHANGED <<now, calls, anchor, cache>>
    BY DEF IInv, Types, ReadFile, Writes
<1>2. PICK m \in j.months : job' = [job EXCEPT ![s] = AfterFile(j, m)]
    BY DEF ReadFile
<1> DEFINE here == {t \in {u \in calls : MonthOf(u) = m} : t >= j.at}
           recent == {t \in {u \in calls : MonthOf(u) = m} : t >= j.from}
           new == AfterFile(j, m)
<1>3. Cardinality(here) \in Nat /\ Cardinality(recent) \in Nat
    <2>1. here \in SUBSET calls /\ recent \in SUBSET calls
        OBVIOUS
    <2>2. QED
        BY <1>1, <2>1, CallsFinite
<1>4. /\ new \in Walks /\ new.at = j.at /\ new.known = j.known
      /\ new.months = j.months \ {m} /\ new.since = j.since + Cardinality(here)
      /\ new.step = IF j.months = {m} THEN "key" ELSE "walk"
    <2>1. new = [step |-> IF j.months = {m} THEN "key" ELSE "walk",
                 at |-> j.at, from |-> j.from, months |-> j.months \ {m},
                 since |-> j.since + Cardinality(here), five |-> j.five + Cardinality(recent),
                 known |-> j.known]
        BY DEF AfterFile
    <2> HIDE DEF new, here, recent
    <2>2. /\ j.at \in Nat /\ j.from \in Nat /\ j.known \in Nat /\ j.since \in Nat /\ j.five \in Nat
          /\ j.months \subseteq Nat
        BY <1>1 DEF Walks
    <2>3. QED
        BY <1>3, <2>1, <2>2 DEF Walks
<1>5. job' = [job EXCEPT ![s] = new]
    BY <1>2
<1>6. here \cap Ahead(new) = {} /\ here \cap Behind(j) = {}
    BY <1>4 DEF Ahead, Behind
<1>7. Ahead(j) = here \cup Ahead(new) /\ Behind(new) = here \cup Behind(j)
    BY <1>4 DEF Ahead, Behind
<1>8. here \in SUBSET calls /\ Ahead(new) \in SUBSET calls /\ Behind(j) \in SUBSET calls
    BY DEF Ahead, Behind
<1> HIDE DEF new, here
<1>9. /\ Cardinality(Ahead(j)) = Cardinality(here) + Cardinality(Ahead(new))
      /\ Cardinality(Behind(new)) = Cardinality(here) + Cardinality(Behind(j))
    <2>1. /\ IsFiniteSet(here) /\ IsFiniteSet(Ahead(new)) /\ IsFiniteSet(Behind(j))
          /\ Cardinality(here) \in Nat /\ Cardinality(Ahead(new)) \in Nat /\ Cardinality(Behind(j)) \in Nat
        BY <1>1, <1>8, CallsFinite
    <2>2. Cardinality({}) = 0
        BY FS_EmptySet
    <2>3. Cardinality(Ahead(j)) = Cardinality(here) + Cardinality(Ahead(new)) - 0
        BY <1>6, <1>7, <2>1, <2>2, FS_Union
    <2>4. Cardinality(Behind(new)) = Cardinality(here) + Cardinality(Behind(j)) - 0
        BY <1>6, <1>7, <2>1, <2>2, FS_Union
    <2>5. QED
        BY <2>1, <2>3, <2>4
<1>10. Walked(new)
    <2>1. /\ Cardinality(Ahead(new)) \in Nat /\ Cardinality(Behind(j)) \in Nat
          /\ Cardinality(here) \in Nat /\ j.since \in Nat /\ j.known \in Nat
        BY <1>1, <1>3, CountsAreNatural DEF Walks, here
    <2>2. new.since <= Cardinality(Behind(new))
        BY <1>1, <1>4, <1>9, <2>1 DEF Walked
    <2>3. WithinMonth(new.at) => new.known <= new.since + Cardinality(Ahead(new))
        BY <1>1, <1>4, <1>9, <2>1 DEF Walked
    <2>4. new.step = "key" => new.months = {}
        BY <1>4
    <2>5. QED
        BY <2>2, <2>3, <2>4 DEF Walked
<1>11. new.step # "write"
    BY <1>4
<1>12. QED
    <2>1. /\ cache' \in Entries \cup {None} /\ (cache' # None => Counted(cache'))
        BY <1>1 DEF IInv, Types
    <2>2. UNCHANGED <<now, calls, anchor>> /\ new \in Walks \cup Writes \cup {None}
        BY <1>1, <1>4
    <2>3. QED
        BY <1>5, <1>10, <1>11, <2>1, <2>2, RefreshMoves

LEMMA ReadKeyKeeps ==
    ASSUME IInv, NEW s \in Servers, ReadKey(s)
    PROVE  IInv'
<1> DEFINE j == job[s]
           entry == [key |-> anchor, at |-> j.at, since |-> j.since, five |-> j.five,
                     known |-> j.known, fresh |-> TRUE]
           new == [step |-> "write", entry |-> entry]
<1>1. /\ Types /\ j \in Walks /\ Walked(j) /\ j.months = {}
      /\ UNCHANGED <<now, calls, anchor, cache>>
    BY DEF IInv, Types, ReadKey, Writes, Walked
<1>2. entry \in Entries
    BY <1>1 DEF Types, Walks, Entries
<1>3. Ahead(j) = {} /\ Behind(j) = {t \in calls : t >= j.at}
    BY <1>1 DEF Ahead, Behind
<1>4. Cardinality(Ahead(j)) = 0 /\ Cardinality(Behind(j)) = CallsIn(j.at)
    BY <1>3, FS_EmptySet DEF CallsIn
<1>5. Counted(entry)
    BY <1>1, <1>4 DEF Walked, Counted, Walks
<1>6. job' = [job EXCEPT ![s] = new]
    BY DEF ReadKey
<1> HIDE DEF entry
<1>7. new \in Writes /\ new.step = "write" /\ new.entry = entry
    BY <1>2 DEF Writes
<1> HIDE DEF new
<1>8. QED
    BY <1>1, <1>5, <1>6, <1>7, RefreshMoves DEF IInv, Types

LEMMA WriteKeeps ==
    ASSUME IInv, NEW s \in Servers, Write(s) \/ Abandon(s)
    PROVE  IInv'
<1>1. job' = [job EXCEPT ![s] = None] /\ UNCHANGED <<now, calls, anchor>>
    BY DEF Write, Abandon
<1>2. cache' = cache \/ (cache' \in Entries /\ Counted(cache'))
    <2>1. CASE Abandon(s)
        BY <2>1 DEF Abandon
    <2>2. CASE Write(s)
        BY <2>2 DEF Write, IInv, Types, Walks, Writes
    <2>3. QED
        BY <2>1, <2>2
<1>3. cache' \in Entries \cup {None} /\ (cache' # None => Counted(cache'))
    BY <1>2 DEF IInv, Types
<1>4. QED
    BY <1>1, <1>3, RefreshMoves

LEMMA NextKeeps == IInv /\ [Next]_vars => IInv'
<1> SUFFICES ASSUME IInv, [Next]_vars PROVE IInv'
    OBVIOUS
<1>1. now \in Nat /\ calls \subseteq 0..now
    BY DEF IInv, Types
<1>2. CASE SetAnchor
    <2>1. Types'
        BY <1>2 DEF SetAnchor, IInv, Types, Anchors
    <2>2. QED
        BY <1>1, <1>2, <2>1, QuietKeeps DEF SetAnchor
<1>3. CASE Call
    <2>1. Types'
        BY <1>3 DEF Call, IInv, Types
    <2>2. QED
        BY <1>1, <1>3, <2>1, QuietKeeps DEF Call
<1>4. ASSUME cache # None, cache' = [cache EXCEPT !.fresh = FALSE]
      PROVE  /\ cache' \in Entries \cup {None}
             /\ cache'.since = cache.since /\ cache'.known = cache.known /\ cache'.at = cache.at
    BY <1>4 DEF IInv, Types, Entries
<1>5. CASE Expire
    <2>1. Types'
        BY <1>4, <1>5 DEF Expire, IInv, Types
    <2>2. QED
        BY <1>1, <1>4, <1>5, <2>1, QuietKeeps DEF Expire
<1>6. CASE Tick
    <2>1. now' = now + 1 /\ UNCHANGED <<calls, anchor, job>> /\ (cache = None => cache' = None)
          /\ (cache # None => cache' = [cache EXCEPT !.fresh = FALSE])
        BY <1>6 DEF Tick
    <2>2. Types'
        BY <1>4, <2>1 DEF IInv, Types, Anchors
    <2>3. QED
        BY <1>1, <1>4, <2>1, <2>2, QuietKeeps
<1>7. ASSUME NEW s \in Servers, Refresh(s) \/ Abandon(s)
      PROVE  IInv'
    BY <1>7, BeginKeeps, ReadFileKeeps, ReadKeyKeeps, WriteKeeps DEF Refresh
<1>8. CASE UNCHANGED vars
    <2>1. Types'
        BY <1>8 DEF vars, IInv, Types
    <2>2. QED
        BY <1>1, <1>8, <2>1, QuietKeeps DEF vars
<1>9. QED
    BY <1>2, <1>3, <1>5, <1>6, <1>7, <1>8 DEF Next

LEMMA InitHolds == Init => IInv
BY DEF Init, IInv, Types, Anchors

LEMMA ExactInWeek == IInv => WeekIsExact
<1> SUFFICES ASSUME IInv, cache # None, WeekStart(now) <= cache.at
             PROVE  cache.since \in cache.known..CallsIn(cache.at)
    BY DEF WeekIsExact
<1>1. Types /\ cache \in Entries /\ Counted(cache)
    BY DEF IInv, Types
<1>2. cache.at \in Nat /\ cache.since \in Nat /\ cache.known \in Nat
    BY <1>1 DEF Entries
<1>3. WithinMonth(cache.at)
    BY <1>1, <1>2, WeekWithinMonth
<1>4. CallsIn(cache.at) \in Nat
    BY <1>1, CountsAreNatural
<1>5. QED
    BY <1>1, <1>2, <1>3, <1>4 DEF Counted

\* While the week of its anchor lasts, an entry holds each call recorded before
\* its refresh began and none from before the anchor, whatever the lengths of
\* the windows and months, as long as no window is longer than a month
\* (refresh_qwen_quota_cache, _usage_file_paths, _count_window_calls).
THEOREM WeekCorrect == Spec => []WeekIsExact
<1>1. Init => IInv
    BY InitHolds
<1>2. IInv /\ [Next]_vars => IInv'
    BY NextKeeps
<1>3. IInv => WeekIsExact
    BY ExactInWeek
<1>4. QED
    BY <1>1, <1>2, <1>3, PTL DEF Spec
=============================================================================
