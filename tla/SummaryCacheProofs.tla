------------------------- MODULE SummaryCacheProofs -------------------------
(***************************************************************************)
(* Proof that a matching signature vouches for a summary, whatever the     *)
(* number of transcripts, of their changes and of failing jobs.            *)
(*                                                                         *)
(* SignatureVouches is not inductive: it says nothing of what a refresher  *)
(* holds and is about to publish.  A signature is older than the value it  *)
(* is stored with, and the value is no newer than the file.  So once the   *)
(* signature is that of the file, so is the value.                         *)
(***************************************************************************)
EXTENDS SummaryCache, SequenceTheorems, FiniteSetTheorems, TLAPS

HeldTypes ==
    /\ version \in [Keys -> 0..MaxVersion]
    /\ table \in [Keys -> Entry \cup {NoEntry}]
    /\ refresher \in [Keys -> [step : {"none", "stat", "read", "store"},
                               signature : 0..MaxVersion, value : 0..MaxVersion,
                               whole : BOOLEAN]]

\* signature, value and file are in order in the table, where only walks are
\* ever cut short,
EntriesOrdered ==
    \A k \in Keys : table[k] # NoEntry =>
        /\ table[k].signature <= table[k].value /\ table[k].value <= version[k]
        /\ k \notin Walks => table[k].whole = TRUE

\* and at each step of the refresher that is to put them there.
RefreshersOrdered ==
    \A k \in Keys :
        /\ k \notin Walks => refresher[k].whole = TRUE
        /\ refresher[k].step = "read" => refresher[k].signature <= version[k]
        /\ refresher[k].step = "store" =>
              /\ refresher[k].signature <= refresher[k].value
              /\ refresher[k].value <= version[k]

IInv == HeldTypes /\ EntriesOrdered /\ RefreshersOrdered

-----------------------------------------------------------------------------

LEMMA InitHolds == Init => IInv
BY ConstantsAssumption
DEF Init, IInv, HeldTypes, EntriesOrdered, RefreshersOrdered, NoRefresh

\* A file only changes to a later version.
LEMMA ChangeKeeps ==
    ASSUME NEW k \in Keys, IInv, Change(k)
    PROVE  IInv'
<1>1. version' \in [Keys -> 0..MaxVersion]
    BY ConstantsAssumption DEF IInv, HeldTypes, Change
<1>2. \A j \in Keys : version[j] \in Nat /\ version'[j] \in Nat /\ version[j] <= version'[j]
    BY ConstantsAssumption DEF IInv, HeldTypes, Change
<1>3. table' = table /\ refresher' = refresher
    BY DEF Change
<1>4. HeldTypes'
    BY <1>1, <1>3 DEF IInv, HeldTypes
<1>5. EntriesOrdered'
    BY <1>2, <1>3, ConstantsAssumption DEF IInv, HeldTypes, EntriesOrdered, Entry
<1>6. RefreshersOrdered'
    BY <1>2, <1>3, ConstantsAssumption DEF IInv, HeldTypes, RefreshersOrdered
<1>7. QED
    BY <1>4, <1>5, <1>6 DEF IInv

\* A refresher that stats, then reads, takes them in that order.
LEMMA RefresherKeeps ==
    ASSUME NEW k \in Keys, IInv,
           BeginJob(k) \/ RefreshStat(k) \/ RefreshRead(k) \/ ReadCutShort(k)
    PROVE  IInv'
<1>1. version' = version /\ table' = table
    BY DEF BeginJob, RefreshStat, RefreshRead, ReadCutShort
<1>2. /\ refresher'[k].step \in {"stat", "read", "store"}
      /\ refresher'[k].signature \in 0..MaxVersion
      /\ refresher'[k].value \in 0..MaxVersion
      /\ refresher'[k].whole \in BOOLEAN
      /\ k \notin Walks => refresher'[k].whole = TRUE
      /\ refresher'[k].step = "read" => refresher'[k].signature <= version[k]
      /\ refresher'[k].step = "store" =>
            refresher'[k].signature <= refresher'[k].value /\ refresher'[k].value <= version[k]
    BY ConstantsAssumption
    DEF IInv, HeldTypes, RefreshersOrdered, BeginJob, RefreshStat, RefreshRead, ReadCutShort
<1>3. \A j \in Keys : j # k => refresher'[j] = refresher[j]
    BY DEF IInv, HeldTypes, BeginJob, RefreshStat, RefreshRead, ReadCutShort
<1>4. refresher' \in [Keys -> [step : {"none", "stat", "read", "store"},
                               signature : 0..MaxVersion, value : 0..MaxVersion, whole : BOOLEAN]]
    BY DEF IInv, HeldTypes, BeginJob, RefreshStat, RefreshRead, ReadCutShort
<1>5. HeldTypes' /\ EntriesOrdered'
    BY <1>1, <1>4 DEF IInv, HeldTypes, EntriesOrdered
<1>6. RefreshersOrdered'
    BY <1>1, <1>2, <1>3 DEF IInv, RefreshersOrdered
<1>7. QED
    BY <1>5, <1>6 DEF IInv

\* What is published is what the refresher held; what is shed is gone.
LEMMA StoreKeeps ==
    ASSUME NEW k \in Keys, IInv, StoreSummary(k)
    PROVE  IInv'
<1> DEFINE new == [signature |-> refresher[k].signature,
                   value |-> refresher[k].value,
                   whole |-> refresher[k].whole, young |-> TRUE]
<1>1. /\ new \in Entry
      /\ k \notin Walks => new.whole = TRUE
      /\ new.signature <= new.value /\ new.value <= version[k]
    BY DEF IInv, HeldTypes, RefreshersOrdered, StoreSummary, Entry
<1>2. Stored(k) = [table EXCEPT ![k] = new]
    BY DEF Stored
<1>3. \A j \in Keys : table'[j] \in {NoEntry, IF j = k THEN new ELSE table[j]}
    BY <1>2 DEF IInv, HeldTypes, StoreSummary
<1>4. table' \in [Keys -> Entry \cup {NoEntry}]
    BY <1>1, <1>2 DEF IInv, HeldTypes, StoreSummary
<1>5. version' = version /\ refresher' = [refresher EXCEPT ![k] = NoRefresh]
    BY DEF StoreSummary
<1>6. HeldTypes'
    BY <1>4, <1>5, ConstantsAssumption DEF IInv, HeldTypes, NoRefresh
<1>7. EntriesOrdered'
    BY <1>1, <1>3, <1>5 DEF IInv, EntriesOrdered
<1>8. RefreshersOrdered'
    BY <1>5 DEF IInv, HeldTypes, RefreshersOrdered, NoRefresh
<1>9. QED
    BY <1>6, <1>7, <1>8 DEF IInv

LEMMA NextKeeps == IInv /\ [Next]_vars => IInv'
<1> SUFFICES ASSUME IInv, [Next]_vars PROVE IInv'
    OBVIOUS
<1>1. ASSUME NEW k \in Keys, Change(k) PROVE IInv'
    BY <1>1, ChangeKeeps
<1>2. ASSUME NEW k \in Keys, RefresherStep(k) \/ ReadCutShort(k) PROVE IInv'
    BY <1>2, RefresherKeeps, StoreKeeps DEF RefresherStep
<1>3. ASSUME NEW k \in Keys, JobFails(k) PROVE IInv'
    BY <1>3, ConstantsAssumption
    DEF JobFails, NoRefresh, IInv, HeldTypes, EntriesOrdered, RefreshersOrdered
<1>4. ASSUME NEW k \in Keys, EntryAges(k) PROVE IInv'
    <2>1. version' = version /\ refresher' = refresher
        BY <1>4 DEF EntryAges
    <2>2. table' \in [Keys -> Entry \cup {NoEntry}]
        BY <1>4 DEF EntryAges, IInv, HeldTypes, Entry
    <2>3. \A j \in Keys : table'[j] # NoEntry =>
             /\ table[j] # NoEntry
             /\ table'[j].signature = table[j].signature
             /\ table'[j].value = table[j].value
             /\ table'[j].whole = table[j].whole
        BY <1>4 DEF EntryAges, IInv, HeldTypes, Entry
    <2>4. QED
        BY <2>1, <2>2, <2>3 DEF IInv, HeldTypes, EntriesOrdered, RefreshersOrdered
<1>5. CASE ResetSummaries
    BY <1>5 DEF ResetSummaries, IInv, HeldTypes, EntriesOrdered, RefreshersOrdered
<1>6. ASSUME UNCHANGED <<version, table, refresher>> PROVE IInv'
    BY <1>6 DEF IInv, HeldTypes, EntriesOrdered, RefreshersOrdered
<1>7. ASSUME NEW k \in Keys, LookupStat(k) PROVE IInv'
    BY <1>6, <1>7 DEF LookupStat
<1>8. CASE LookupTable \/ Ask \/ ClosePool \/ UNCHANGED vars
    BY <1>6, <1>8 DEF LookupTable, Ask, ClosePool, vars
<1>9. QED
    BY <1>1, <1>2, <1>3, <1>4, <1>5, <1>7, <1>8 DEF Next

LEMMA Vouches == IInv => SignatureVouches
<1> SUFFICES ASSUME IInv,
                    NEW k \in Keys, table[k] # NoEntry, table[k].signature = version[k]
             PROVE  table[k].value = version[k] /\ (table[k].whole \/ k \in Walks)
    BY DEF SignatureVouches
<1>1. table[k] \in Entry /\ version[k] \in 0..MaxVersion
    BY DEF IInv, HeldTypes
<1>2. table[k].value \in Nat /\ version[k] \in Nat
    BY <1>1, ConstantsAssumption DEF Entry
<1>3. /\ table[k].signature <= table[k].value /\ table[k].value <= version[k]
      /\ k \notin Walks => table[k].whole = TRUE
    BY DEF IInv, EntriesOrdered
<1>4. QED
    BY <1>2, <1>3

\* However many transcripts change, and between whichever steps of the
\* refreshers, a summary whose signature is the file's was taken of the file as
\* it is, and of all of it unless it is a walk (refresh_transcript_walk and
\* refresh_beacon_anchors).
THEOREM SignatureCorrect == Spec => []SignatureVouches
<1>1. Init => IInv
    BY InitHolds
<1>2. IInv /\ [Next]_vars => IInv'
    BY NextKeeps
<1>3. IInv => SignatureVouches
    BY Vouches
<1>4. QED
    BY <1>1, <1>2, <1>3, PTL DEF Spec

-----------------------------------------------------------------------------
(* The ceiling.  TableBounded says nothing of `recency`, which is what the *)
(* eviction goes by: it lists every key the table holds, and is no longer  *)
(* than the ceiling.                                                       *)

Listed(k) == \E i \in 1..Len(recency) : recency[i] = k

LookupType == [key : Keys \cup {NoKey}, step : {"none", "table", "ask"},
               signature : 0..MaxVersion]

BoundInv ==
    /\ lookup \in LookupType
    /\ recency \in Seq(Keys)
    /\ Len(recency) <= MaxEntries
    /\ \A k \in Keys : table[k] # NoEntry => Listed(k)
    /\ lookup.step # "none" => lookup.key \in Keys

\* A position goes, and nothing else.
LEMMA RemoveAtDrops ==
    ASSUME NEW S, NEW s \in Seq(S), NEW p \in 1..Len(s)
    PROVE  /\ RemoveAt(s, p) \in Seq(S)
           /\ Len(RemoveAt(s, p)) = Len(s) - 1
           /\ \A i \in 1..Len(s) : i # p =>
                 \E j \in 1..Len(s) - 1 : RemoveAt(s, p)[j] = s[i]
<1> DEFINE before == SubSeq(s, 1, p - 1)
           after == SubSeq(s, p + 1, Len(s))
<1>1. Len(s) \in Nat /\ \A i \in 1..Len(s) : s[i] \in S
    BY LenProperties, ElementOfSeq
<1>2. /\ before \in Seq(S) /\ Len(before) = p - 1
      /\ \A i \in 1..p - 1 : before[i] = s[i]
    <2>1. \A i \in 1..p - 1 : s[i] \in S
        BY <1>1
    <2>2. QED
        BY <1>1, <2>1, SubSeqProperties
<1>3. /\ after \in Seq(S) /\ Len(after) = Len(s) - p
      /\ \A i \in 1..Len(s) - p : after[i] = s[p + i]
    <2>1. \A i \in p + 1..Len(s) : s[i] \in S
        BY <1>1
    <2>2. /\ after \in Seq(S)
          /\ Len(after) = IF p + 1 <= Len(s) THEN Len(s) - (p + 1) + 1 ELSE 0
          /\ \A i \in 1..Len(s) - (p + 1) + 1 : after[i] = s[p + 1 + i - 1]
        BY <1>1, <2>1, SubSeqProperties
    <2>3. QED
        BY <1>1, <2>2
<1>4. RemoveAt(s, p) = before \o after
    BY DEF RemoveAt
<1> HIDE DEF before, after
<1>5. /\ RemoveAt(s, p) \in Seq(S)
      /\ Len(RemoveAt(s, p)) = Len(s) - 1
      /\ \A i \in 1..Len(s) - 1 : RemoveAt(s, p)[i] = IF i <= p - 1 THEN before[i]
                                                      ELSE after[i - (p - 1)]
    <2> DEFINE both == before \o after
    <2>1. /\ both \in Seq(S) /\ Len(both) = Len(before) + Len(after)
          /\ \A i \in 1..Len(before) + Len(after) :
                both[i] = IF i <= Len(before) THEN before[i] ELSE after[i - Len(before)]
        BY <1>2, <1>3, ConcatProperties
    <2>2. Len(before) + Len(after) = Len(s) - 1
        BY <1>1, <1>2, <1>3
    <2>3. RemoveAt(s, p) = both
        BY <1>4
    <2> HIDE DEF both
    <2>4. QED
        BY <1>2, <2>1, <2>2, <2>3
<1>6. ASSUME NEW i \in 1..Len(s), i # p
      PROVE  \E j \in 1..Len(s) - 1 : RemoveAt(s, p)[j] = s[i]
    <2>1. CASE i < p
        <3>1. i \in 1..Len(s) - 1 /\ RemoveAt(s, p)[i] = s[i]
            BY <1>1, <1>2, <1>5, <2>1
        <3>2. QED
            BY <3>1
    <2>2. CASE i > p
        <3>1. i - 1 \in 1..Len(s) - 1 /\ i - p \in 1..Len(s) - p /\ i - 1 - (p - 1) = i - p
            BY <1>1, <2>2
        <3>2. after[i - p] = s[p + (i - p)] /\ p + (i - p) = i
            BY <1>1, <1>3, <3>1
        <3>3. RemoveAt(s, p)[i - 1] = after[i - p]
            BY <1>1, <1>5, <2>2, <3>1
        <3>4. QED
            BY <3>1, <3>2, <3>3
    <2>3. QED
        BY <1>6, <2>1, <2>2
<1>7. QED
    BY <1>5, <1>6

\* Serving or storing a key keeps the others listed, and makes the list longer
\* only for a key that was not listed.
LEMMA FreshenedLists ==
    ASSUME NEW k \in Keys, recency \in Seq(Keys)
    PROVE  /\ Freshened(k) \in Seq(Keys) /\ Freshened(k) # <<>>
           /\ Len(Freshened(k)) = IF Listed(k) THEN Len(recency) ELSE Len(recency) + 1
           /\ \A j \in Keys : j = k \/ Listed(j) =>
                 \E i \in 1..Len(Freshened(k)) : Freshened(k)[i] = j
<1> DEFINE At(i) == recency[i] = k
           place == CHOOSE i \in DOMAIN recency : At(i)
           others == IF \E i \in DOMAIN recency : At(i) THEN RemoveAt(recency, place) ELSE recency
<1>1. Len(recency) \in Nat /\ DOMAIN recency = 1..Len(recency)
    BY LenProperties
<1>2. /\ others \in Seq(Keys)
      /\ Len(others) = IF Listed(k) THEN Len(recency) - 1 ELSE Len(recency)
      /\ \A j \in Keys : j # k /\ Listed(j) => \E i \in 1..Len(others) : others[i] = j
    <2>1. CASE Listed(k)
        <3>1. place \in 1..Len(recency) /\ recency[place] = k
            BY <1>1, <2>1 DEF Listed
        <3>2. others = RemoveAt(recency, place)
            BY <1>1, <2>1 DEF Listed
        <3> HIDE DEF place, others
        <3>3. /\ others \in Seq(Keys) /\ Len(others) = Len(recency) - 1
              /\ \A i \in 1..Len(recency) : i # place =>
                    \E j \in 1..Len(recency) - 1 : others[j] = recency[i]
            BY <3>1, <3>2, RemoveAtDrops
        <3>4. QED
            BY <2>1, <3>1, <3>3 DEF Listed
    <2>2. CASE ~Listed(k)
        BY <1>1, <2>2 DEF Listed
    <2>3. QED
        BY <2>1, <2>2
<1>3. Freshened(k) = Append(others, k)
    BY DEF Freshened
<1> HIDE DEF others
<1>4. /\ Freshened(k) \in Seq(Keys) /\ Freshened(k) # <<>>
      /\ Len(Freshened(k)) = Len(others) + 1
      /\ \A i \in 1..Len(others) : Freshened(k)[i] = others[i]
      /\ Freshened(k)[Len(others) + 1] = k
    BY <1>2, <1>3, AppendProperties
<1>5. Len(others) \in Nat
    BY <1>2, LenProperties
<1>6. ASSUME NEW j \in Keys, j = k \/ Listed(j)
      PROVE  \E i \in 1..Len(Freshened(k)) : Freshened(k)[i] = j
    <2>1. CASE j = k
        <3>1. Len(others) + 1 \in 1..Len(Freshened(k))
            BY <1>4, <1>5
        <3>2. QED
            BY <1>4, <2>1, <3>1
    <2>2. CASE j # k
        <3>1. PICK i \in 1..Len(others) : others[i] = j
            BY <1>2, <1>6, <2>2
        <3>2. i \in 1..Len(Freshened(k)) /\ Freshened(k)[i] = j
            BY <1>4, <1>5, <3>1
        <3>3. QED
            BY <3>2
    <2>3. QED
        BY <2>1, <2>2
<1>7. Len(Freshened(k)) = IF Listed(k) THEN Len(recency) ELSE Len(recency) + 1
    <2>1. Len(Freshened(k)) = Len(others) + 1 /\ Len(recency) \in Nat
        BY <1>1, <1>4
    <2>2. CASE Listed(k)
        <3>1. Len(others) = Len(recency) - 1
            BY <1>2, <2>2
        <3>2. QED
            BY <2>1, <2>2, <3>1
    <2>3. CASE ~Listed(k)
        <3>1. Len(others) = Len(recency)
            BY <1>2, <2>3
        <3>2. QED
            BY <2>1, <2>3, <3>1
    <2>4. QED
        BY <2>2, <2>3
<1>8. QED
    BY <1>4, <1>6, <1>7

LEMMA StoreBounds ==
    ASSUME NEW k \in Keys, IInv, BoundInv, StoreSummary(k)
    PROVE  BoundInv'
<1> DEFINE new == Freshened(k)
<1>1. /\ new \in Seq(Keys) /\ new # <<>> /\ Len(new) \in Nat
      /\ Len(new) <= Len(recency) + 1 /\ Len(recency) \in Nat
      /\ \A j \in Keys : j = k \/ Listed(j) => \E i \in 1..Len(new) : new[i] = j
    <2>1. recency \in Seq(Keys)
        BY DEF BoundInv
    <2>2. /\ new \in Seq(Keys) /\ new # <<>>
          /\ Len(new) = IF Listed(k) THEN Len(recency) ELSE Len(recency) + 1
          /\ \A j \in Keys : j = k \/ Listed(j) => \E i \in 1..Len(new) : new[i] = j
        BY <2>1, FreshenedLists
    <2>3. Len(new) \in Nat /\ Len(recency) \in Nat
        BY <2>1, <2>2, LenProperties
    <2>4. QED
        BY <2>2, <2>3
<1>2. /\ lookup' = lookup
      /\ Len(new) > MaxEntries => /\ table' = [Stored(k) EXCEPT ![Head(new)] = NoEntry]
                                  /\ recency' = Tail(new)
      /\ ~(Len(new) > MaxEntries) => table' = Stored(k) /\ recency' = new
    BY DEF StoreSummary
<1> HIDE DEF new
<1>3. \A j \in Keys : Stored(k)[j] # NoEntry => j = k \/ Listed(j)
    BY DEF Stored, IInv, HeldTypes, BoundInv
<1>4. CASE ~(Len(new) > MaxEntries)
    <2>1. table' = Stored(k) /\ recency' = new /\ Len(new) <= MaxEntries
        BY <1>1, <1>2, <1>4, ConstantsAssumption
    <2>2. \A j \in Keys : table'[j] # NoEntry => Listed(j)'
        BY <1>1, <1>3, <2>1 DEF Listed
    <2>3. QED
        BY <1>1, <1>2, <2>1, <2>2 DEF BoundInv
<1>5. CASE Len(new) > MaxEntries
    <2>1. /\ Tail(new) \in Seq(Keys) /\ Len(Tail(new)) = Len(new) - 1
          /\ \A i \in 1..Len(Tail(new)) : Tail(new)[i] = new[i + 1]
        BY <1>1, HeadTailProperties
    <2>2. Head(new) = new[1] /\ Head(new) \in Keys
        BY <1>1, HeadTailProperties
    <2>3. ASSUME NEW j \in Keys, table'[j] # NoEntry
          PROVE  Listed(j)'
        <3>1. Stored(k) \in [Keys -> Entry \cup {NoEntry}]
            BY DEF Stored, IInv, HeldTypes, RefreshersOrdered, Entry, StoreSummary
        <3>2. j # Head(new) /\ Stored(k)[j] # NoEntry
            BY <1>2, <1>5, <2>2, <2>3, <3>1
        <3>3. PICK i \in 1..Len(new) : new[i] = j
            BY <1>1, <1>3, <3>2
        <3>4. i - 1 \in 1..Len(Tail(new)) /\ Tail(new)[i - 1] = j
            BY <1>1, <2>1, <2>2, <3>2, <3>3
        <3>5. QED
            BY <1>2, <1>5, <3>4 DEF Listed
    <2>4. Len(Tail(new)) <= MaxEntries
        BY <1>1, <2>1, ConstantsAssumption DEF BoundInv
    <2>5. QED
        BY <1>2, <1>5, <2>1, <2>3, <2>4 DEF BoundInv
<1>6. QED
    BY <1>4, <1>5

LEMMA BoundKept == IInv /\ BoundInv /\ [Next]_vars => BoundInv'
<1> SUFFICES ASSUME IInv, BoundInv, [Next]_vars PROVE BoundInv'
    OBVIOUS
<1>1. ASSUME UNCHANGED <<table, recency>>, lookup' \in LookupType,
             lookup'.step # "none" => lookup'.key \in Keys
      PROVE  BoundInv'
    BY <1>1 DEF BoundInv, Listed
<1>2. ASSUME NEW k \in Keys, StoreSummary(k) PROVE BoundInv'
    BY <1>2, StoreBounds
<1>3. ASSUME NEW k \in Keys, EntryAges(k) PROVE BoundInv'
    <2>1. \A j \in Keys : table'[j] # NoEntry => table[j] # NoEntry
        BY <1>3 DEF EntryAges, IInv, HeldTypes
    <2>2. QED
        BY <1>3, <2>1 DEF EntryAges, BoundInv, Listed
<1>4. CASE LookupTable
    <2>1. lookup.key \in Keys
        BY <1>4 DEF LookupTable, BoundInv
    <2>2. lookup' \in LookupType /\ (lookup'.step # "none" => lookup'.key \in Keys)
        <3>1. lookup' = NoLookup \/ lookup' = [lookup EXCEPT !.step = "ask"]
            BY <1>4 DEF LookupTable
        <3>2. NoLookup.step = "none" /\ NoLookup \in LookupType
            BY ConstantsAssumption DEF NoLookup, LookupType
        <3>3. CASE lookup' = [lookup EXCEPT !.step = "ask"]
            BY <2>1, <3>3 DEF BoundInv, LookupType
        <3>4. QED
            BY <3>1, <3>2, <3>3
    <2>3. CASE table[lookup.key] = NoEntry
        BY <1>1, <1>4, <2>2, <2>3 DEF LookupTable
    <2>4. CASE table[lookup.key] # NoEntry
        <3>1. table' = table /\ recency' = Freshened(lookup.key)
            BY <1>4, <2>4 DEF LookupTable
        <3>2. Listed(lookup.key) /\ recency \in Seq(Keys)
            BY <2>1, <2>4 DEF BoundInv
        <3>3. /\ recency' \in Seq(Keys) /\ Len(recency') = Len(recency)
              /\ \A j \in Keys : Listed(j) => \E i \in 1..Len(recency') : recency'[i] = j
            BY <2>1, <3>1, <3>2, FreshenedLists
        <3>4. QED
            BY <2>2, <3>1, <3>3 DEF BoundInv, Listed
    <2>5. QED
        BY <2>3, <2>4
<1>5. CASE ResetSummaries
    <2>1. <<>> \in Seq(Keys) /\ Len(<<>>) = 0
        BY EmptySeq
    <2>2. QED
        BY <1>5, <2>1, ConstantsAssumption DEF ResetSummaries, BoundInv, Listed
<1>6. ASSUME NEW k \in Keys, LookupStat(k) PROVE BoundInv'
    <2>1. version[k] \in 0..MaxVersion
        BY DEF IInv, HeldTypes
    <2>2. lookup' \in LookupType /\ lookup'.key \in Keys
        BY <1>6, <2>1 DEF LookupStat, LookupType
    <2>3. QED
        BY <1>1, <1>6, <2>2 DEF LookupStat
<1>7. CASE Ask
    BY <1>1, <1>7, ConstantsAssumption DEF Ask, NoLookup, LookupType
<1>8. ASSUME UNCHANGED <<table, recency, lookup>> PROVE BoundInv'
    BY <1>1, <1>8 DEF BoundInv
<1>9. ASSUME NEW k \in Keys, Change(k) \/ BeginJob(k) \/ RefreshStat(k) \/ RefreshRead(k) \/ ReadCutShort(k) \/ JobFails(k)
      PROVE  BoundInv'
    BY <1>8, <1>9 DEF Change, BeginJob, RefreshStat, RefreshRead, ReadCutShort, JobFails
<1>10. CASE ClosePool \/ UNCHANGED vars
    BY <1>8, <1>10 DEF ClosePool, vars
<1>11. QED
    BY <1>2, <1>3, <1>4, <1>5, <1>6, <1>7, <1>9, <1>10 DEF Next, RefresherStep

\* A table whose keys are listed has no more of them than the list has places.
LEMMA ListedBound ==
    ASSUME BoundInv
    PROVE  TableBounded
<1> DEFINE held == {k \in Keys : table[k] # NoEntry}
           place == [k \in held |-> CHOOSE i \in 1..Len(recency) : recency[i] = k]
<1>1. Len(recency) \in Nat /\ Len(recency) <= MaxEntries
    BY LenProperties DEF BoundInv
<1>2. \A k \in held : place[k] \in 1..Len(recency) /\ recency[place[k]] = k
    BY DEF BoundInv, Listed
<1>3. place \in Injection(held, 1..Len(recency))
    BY <1>2 DEF Injection, IsInjective
<1>4. IsFiniteSet(1..Len(recency)) /\ Cardinality(1..Len(recency)) = Len(recency)
    BY <1>1, FS_Interval
<1>5. IsFiniteSet(held) /\ Cardinality(held) <= Len(recency)
    BY <1>3, <1>4, FS_Injection
<1>6. Cardinality(held) \in Nat
    BY <1>5, FS_CardinalityType
<1>7. QED
    BY <1>1, <1>5, <1>6, ConstantsAssumption DEF TableBounded

LEMMA BoundedInitially == Init => BoundInv
<1>1. <<>> \in Seq(Keys) /\ Len(<<>>) = 0
    BY EmptySeq
<1>2. QED
    BY <1>1, ConstantsAssumption DEF Init, BoundInv, NoLookup, LookupType

\* However many transcripts the server ever serves, and whatever is looked up,
\* stored or reset between two stores, the table keeps below its ceiling
\* (_store).
THEOREM CeilingCorrect == Spec => []TableBounded
<1>1. Init => IInv /\ BoundInv
    BY InitHolds, BoundedInitially
<1>2. IInv /\ BoundInv /\ [Next]_vars => IInv' /\ BoundInv'
    BY NextKeeps, BoundKept
<1>3. BoundInv => TableBounded
    BY ListedBound
<1>4. QED
    BY <1>1, <1>2, <1>3, PTL DEF Spec

-----------------------------------------------------------------------------
(* Types: the rest of them.                                                *)

RestTypes ==
    /\ job \in [Keys -> {"none", "waiting", "running"}]
    /\ open \in BOOLEAN
    /\ failures \in 0..MaxFailures

LEMMA RestKept == RestTypes /\ BoundInv /\ [Next]_vars => RestTypes'
<1> SUFFICES ASSUME RestTypes, BoundInv, [Next]_vars PROVE RestTypes'
    OBVIOUS
<1>1. ASSUME UNCHANGED failures, job' \in [Keys -> {"none", "waiting", "running"}],
             open' = open \/ open' = FALSE
      PROVE  RestTypes'
    BY <1>1 DEF RestTypes
<1>2. ASSUME UNCHANGED <<job, open, failures>> PROVE RestTypes'
    BY <1>2 DEF RestTypes
<1>3. ASSUME NEW k \in Keys, BeginJob(k) \/ StoreSummary(k) PROVE RestTypes'
    BY <1>1, <1>3 DEF BeginJob, StoreSummary, Pool!Begin, Pool!Finish, RestTypes
<1>4. ASSUME NEW k \in Keys, JobFails(k) \/ ReadCutShort(k) PROVE RestTypes'
    BY <1>4, ConstantsAssumption DEF JobFails, ReadCutShort, Pool!Finish, RestTypes, poolVars
<1>5. CASE Ask
    <2>1. lookup.key \in Keys
        BY <1>5 DEF Ask, BoundInv
    <2>2. CASE UNCHANGED poolVars
        BY <1>2, <1>5, <2>2 DEF Ask, poolVars
    <2>3. CASE Pool!Accept(lookup.key)
        BY <1>1, <1>5, <2>1, <2>3 DEF Ask, Pool!Accept, RestTypes
    <2>4. QED
        BY <1>5, <2>2, <2>3 DEF Ask
<1>6. CASE ClosePool
    BY <1>1, <1>6 DEF ClosePool, Pool!Close, RestTypes
<1>7. ASSUME NEW k \in Keys,
             Change(k) \/ LookupStat(k) \/ RefreshStat(k) \/ RefreshRead(k) \/ EntryAges(k)
      PROVE  RestTypes'
    BY <1>2, <1>7 DEF Change, LookupStat, RefreshStat, RefreshRead, EntryAges, poolVars
<1>8. CASE LookupTable \/ ResetSummaries \/ UNCHANGED vars
    BY <1>2, <1>8 DEF LookupTable, ResetSummaries, vars, poolVars
<1>9. QED
    BY <1>3, <1>4, <1>5, <1>6, <1>7, <1>8 DEF Next, RefresherStep

\* The variables keep their types, and only keys of the table's own are
\* listed, looked up and refreshed (summary_for, _store).
THEOREM TypeCorrect == Spec => []TypeOK
<1>1. Init => IInv /\ BoundInv /\ RestTypes
    BY BoundedInitially, InitHolds, ConstantsAssumption DEF Init, Pool!Init, RestTypes
<1>2. IInv /\ BoundInv /\ RestTypes /\ [Next]_vars => IInv' /\ BoundInv' /\ RestTypes'
    BY NextKeeps, BoundKept, RestKept
<1>3. IInv /\ BoundInv /\ RestTypes => TypeOK
    BY DEF IInv, HeldTypes, BoundInv, LookupType, RestTypes, TypeOK
<1>4. QED
    BY <1>1, <1>2, <1>3, PTL DEF Spec
=============================================================================
