-------------------------- MODULE WorkerPoolProofs --------------------------
(***************************************************************************)
(* Theorems about WorkerPool, for any number of threads, callers and keys: *)
(* its types, its counters, the exactness of its claims, and that it       *)
(* implements SingleFlight.                                                *)
(***************************************************************************)
EXTENDS WorkerPool, FiniteSetTheorems, TLAPS

(* The inductive invariant.  TypeOK alone is not inductive: that counting  *)
(* out leaves a natural number needs the exactness of the counter.         *)

\* A hand is full exactly where the code has a job in it.
HandsInv ==
    /\ \A c \in Callers : offered[c] \in Keys <=> caller[c] = "putting"
    /\ \A w \in Workers :
          inHand[w] \in Keys <=> worker[w] \in {"taken", "running", "ending"}

\* No key is in two places.
ApartInv ==
    /\ \A c, d \in Callers :
          offered[c] \in Keys /\ offered[c] = offered[d] => c = d
    /\ \A i, j \in 1..Len(queue) :
          queue[i] \in Keys /\ queue[i] = queue[j] => i = j
    /\ \A v, w \in Workers :
          inHand[v] \in Keys /\ inHand[v] = inHand[w] => v = w
    /\ \A c \in Callers, i \in 1..Len(queue) :
          offered[c] \in Keys => offered[c] # queue[i]
    /\ \A c \in Callers, w \in Workers :
          offered[c] \in Keys => offered[c] # inHand[w]
    /\ \A w \in Workers, i \in 1..Len(queue) :
          inHand[w] \in Keys => inHand[w] # queue[i]

Somewhere(k) ==
    \/ \E c \in Callers : offered[c] = k
    \/ \E i \in 1..Len(queue) : queue[i] = k
    \/ \E w \in Workers : inHand[w] = k

ClaimedInv == \A k \in Keys : k \in claimed <=> Somewhere(k)

\* The threads start together.
StartInv == Started \/ \A w \in Workers : worker[w] = "new"

IInv ==
    TypeOK /\ CountersAreExact /\ StartInv /\ HandsInv /\ ApartInv /\ ClaimedInv

-----------------------------------------------------------------------------
(* Sequences and sets.                                                     *)

\* A queue after a get: the elements move up by one.
LEMMA TailElements ==
    ASSUME NEW S, NEW q \in Seq(S), q # <<>>
    PROVE  /\ 1 \in 1..Len(q)
           /\ Head(q) = q[1]
           /\ Tail(q) \in Seq(S)
           /\ Len(Tail(q)) = Len(q) - 1
           /\ \A i \in 1..Len(Tail(q)) : i + 1 \in 1..Len(q) /\ Tail(q)[i] = q[i + 1]
  OBVIOUS

\* A queue after a put: the elements stay, the new one is last.
LEMMA AppendElements ==
    ASSUME NEW S, NEW q \in Seq(S), NEW x \in S
    PROVE  /\ Append(q, x) \in Seq(S)
           /\ Len(Append(q, x)) = Len(q) + 1
           /\ Append(q, x)[Len(q) + 1] = x
           /\ \A i \in 1..Len(q) : Append(q, x)[i] = q[i]
  OBVIOUS

\* The pool's size is a number, and so is the number of its busy threads,
\* which is no greater.
LEMMA BusyBounded ==
    /\ IsFiniteSet(Busy)
    /\ Cardinality(Busy) \in Nat
    /\ Size \in Nat
    /\ Cardinality(Busy) <= Size
  BY ConstantsAssumption, FS_Subset, FS_CardinalityType DEF Busy, Size

-----------------------------------------------------------------------------
(* Every step keeps the invariant.                                         *)

\* Only these variables matter to the claims.

\* The counters through a step.
LEMMA CountersKept ==
    ASSUME TypeOK, CountersAreExact, StartInv, Next
    PROVE  CountersAreExact' /\ inFlight' \in Nat /\ peak' \in Nat
<1> USE DEF TypeOK, CountersAreExact
<1>0. /\ IsFiniteSet(Busy) /\ Cardinality(Busy) \in Nat
      /\ Size \in Nat /\ Cardinality(Busy) <= Size /\ Size' = Size
  BY BusyBounded DEF Size
<1>u. ASSUME Busy' = Busy, UNCHANGED <<inFlight, peak>>
      PROVE  CountersAreExact' /\ inFlight' \in Nat /\ peak' \in Nat
  BY <1>0, <1>u
<1>1. CASE Start
  <2>1. Busy' = Busy
    BY <1>1 DEF Start, StartInv, Started, Busy
  <2> QED BY <1>1, <2>1, <1>u DEF Start, poolVars
<1>2. ASSUME NEW c \in Callers, NEW k \in Keys, SubmitClaims(c, k)
      PROVE  CountersAreExact' /\ inFlight' \in Nat /\ peak' \in Nat
  BY <1>2, <1>u DEF SubmitClaims, Busy, workerVars
<1>3. ASSUME NEW c \in Callers, SubmitPuts(c)
      PROVE  CountersAreExact' /\ inFlight' \in Nat /\ peak' \in Nat
  BY <1>3, <1>u DEF SubmitPuts, Busy, workerVars
<1>4. ASSUME NEW c \in Callers, StopBegins(c)
      PROVE  CountersAreExact' /\ inFlight' \in Nat /\ peak' \in Nat
  BY <1>4, <1>u DEF StopBegins, Busy, workerVars
<1>5. ASSUME NEW c \in Callers, StopPutsSentinel(c)
      PROVE  CountersAreExact' /\ inFlight' \in Nat /\ peak' \in Nat
  BY <1>5, <1>u DEF StopPutsSentinel, Busy, workerVars
<1>6. ASSUME NEW c \in Callers, StopJoins(c)
      PROVE  CountersAreExact' /\ inFlight' \in Nat /\ peak' \in Nat
  BY <1>6, <1>u DEF StopJoins, Busy, workerVars, poolVars
<1>7. ASSUME NEW w \in Workers, GetItem(w)
      PROVE  CountersAreExact' /\ inFlight' \in Nat /\ peak' \in Nat
  <2>1. Busy' = Busy
    BY <1>7 DEF GetItem, Goto, Busy
  <2> QED BY <1>7, <2>1, <1>u DEF GetItem
<1>8. ASSUME NEW w \in Workers, GetTimesOut(w)
      PROVE  CountersAreExact' /\ inFlight' \in Nat /\ peak' \in Nat
  <2>1. Busy' = Busy
    BY <1>8 DEF GetTimesOut, Goto, Busy
  <2> QED BY <1>8, <2>1, <1>u DEF GetTimesOut, poolVars
<1>9. ASSUME NEW w \in Workers, CheckStopped(w)
      PROVE  CountersAreExact' /\ inFlight' \in Nat /\ peak' \in Nat
  <2>1. Busy' = Busy
    BY <1>9 DEF CheckStopped, Goto, Busy
  <2> QED BY <1>9, <2>1, <1>u DEF CheckStopped, poolVars
<1>10. ASSUME NEW w \in Workers, CountIn(w)
       PROVE  CountersAreExact' /\ inFlight' \in Nat /\ peak' \in Nat
  <2>1. w \notin Busy /\ Busy' = Busy \cup {w}
    BY <1>10 DEF CountIn, Goto, Busy
  <2>2. Cardinality(Busy') = Cardinality(Busy) + 1
    BY <2>1, <1>0, FS_AddElement
  <2>3. Busy' \subseteq Workers
    BY DEF Busy
  <2>4. Cardinality(Busy') <= Size
    BY <2>3, ConstantsAssumption, FS_Subset DEF Size
  <2>5. inFlight' = Cardinality(Busy') /\ peak' <= Size /\ inFlight' \in Nat /\ peak' \in Nat
    BY <1>10, <2>2, <2>4, <1>0 DEF CountIn
  <2> QED BY <2>5, <1>0
<1>11. ASSUME NEW w \in Workers, JobEnds(w)
       PROVE  CountersAreExact' /\ inFlight' \in Nat /\ peak' \in Nat
  <2>1. Busy' = Busy
    BY <1>11 DEF JobEnds, Goto, Busy
  <2> QED BY <1>11, <2>1, <1>u DEF JobEnds, poolVars
<1>12. ASSUME NEW w \in Workers, CountOut(w)
       PROVE  CountersAreExact' /\ inFlight' \in Nat /\ peak' \in Nat
  <2>1. w \in Busy /\ Busy' = Busy \ {w}
    BY <1>12 DEF CountOut, Goto, Busy
  <2>2. /\ Cardinality(Busy') = Cardinality(Busy) - 1
        /\ Cardinality(Busy') \in Nat
    BY <2>1, <1>0, FS_RemoveElement, FS_CardinalityType
  <2>3. inFlight' = Cardinality(Busy') /\ peak' = peak /\ inFlight' \in Nat
    BY <1>12, <2>2, <1>0 DEF CountOut
  <2> QED BY <2>3, <1>0
<1> QED
  BY <1>1, <1>2, <1>3, <1>4, <1>5, <1>6, <1>7, <1>8, <1>9, <1>10, <1>11, <1>12
     DEF Next, WorkerStep

-----------------------------------------------------------------------------
\* The places of the jobs through a step that moves one of them.  Each lemma
\* is about the variables alone: which action does so is said where it is used.

\* A step that leaves the jobs where they are.
LEMMA StillKept ==
    ASSUME TypeOK, StartInv, HandsInv, ApartInv, ClaimedInv,
           UNCHANGED <<queue, claimed, inHand, offered>>
    PROVE  ApartInv' /\ ClaimedInv'
  BY DEF ApartInv, ClaimedInv, Somewhere

\* SubmitClaims: an unclaimed key goes into a caller's empty hand.
LEMMA ClaimKept ==
    ASSUME TypeOK, HandsInv, ApartInv, ClaimedInv,
           NEW c \in Callers, NEW k \in Keys, SubmitClaims(c, k)
    PROVE  ApartInv' /\ ClaimedInv'
<1> USE DEF TypeOK
<1>1. /\ ~Somewhere(k)
      /\ offered[c] \notin Keys
      /\ offered' = [offered EXCEPT ![c] = k]
      /\ claimed' = claimed \cup {k}
      /\ UNCHANGED <<queue, inHand>>
  BY DEF SubmitClaims, ClaimedInv, HandsInv, workerVars
<1>2. ApartInv'
  BY <1>1 DEF ApartInv, Somewhere
<1>3. ClaimedInv'
  <2> SUFFICES ASSUME NEW j \in Keys
               PROVE  j \in claimed' <=> Somewhere(j)'
    BY DEF ClaimedInv
  <2>1. CASE j = k
    BY <1>1, <2>1 DEF Somewhere
  <2>2. CASE j # k
    BY <1>1, <2>2 DEF Somewhere, ClaimedInv
  <2> QED BY <2>1, <2>2
<1> QED BY <1>2, <1>3

\* SubmitPuts: the caller's key moves to the end of the queue.
LEMMA PutKept ==
    ASSUME TypeOK, HandsInv, ApartInv, ClaimedInv,
           NEW c \in Callers, SubmitPuts(c)
    PROVE  ApartInv' /\ ClaimedInv'
<1> USE DEF TypeOK
<1> DEFINE k == offered[c]
           n == Len(queue)
<1>1. /\ k \in Keys
      /\ queue' = Append(queue, k)
      /\ offered' = [offered EXCEPT ![c] = NoKey]
      /\ UNCHANGED <<claimed, inHand>>
  BY DEF SubmitPuts, HandsInv, workerVars
<1>2. /\ Len(queue') = n + 1
      /\ queue'[n + 1] = k
      /\ \A i \in 1..n : queue'[i] = queue[i]
      /\ n \in Nat
      /\ 1..Len(queue') = 1..n \cup {n + 1}
  BY <1>1, AppendElements
<1>3. /\ \A d \in Callers : offered[d] = k => d = c
      /\ \A i \in 1..n : queue[i] # k
      /\ \A w \in Workers : inHand[w] # k
  BY <1>1 DEF ApartInv
<1>4. offered'[c] \notin Keys /\ \A d \in Callers \ {c} : offered'[d] = offered[d]
  BY <1>1, ConstantsAssumption
<1> HIDE DEF k, n
<1>5. ApartInv'
  <2>1. \A a, b \in Callers :
           offered'[a] \in Keys /\ offered'[a] = offered'[b] => a = b
    BY <1>4 DEF ApartInv
  <2>2. ASSUME NEW i \in 1..Len(queue'), NEW j \in 1..Len(queue'),
               queue'[i] \in Keys, queue'[i] = queue'[j]
        PROVE  i = j
    <3>1. CASE i \in 1..n /\ j \in 1..n
      BY <1>2, <2>2, <3>1 DEF ApartInv, n
    <3>2. CASE i = n + 1 /\ j \in 1..n
      BY <1>2, <1>3, <2>2, <3>2
    <3>3. CASE i \in 1..n /\ j = n + 1
      BY <1>2, <1>3, <2>2, <3>3
    <3>4. CASE i = n + 1 /\ j = n + 1
      BY <3>4
    <3> QED BY <1>2, <3>1, <3>2, <3>3, <3>4
  <2>3. \A v, w \in Workers :
           inHand'[v] \in Keys /\ inHand'[v] = inHand'[w] => v = w
    BY <1>1 DEF ApartInv
  <2>4. ASSUME NEW d \in Callers, NEW i \in 1..Len(queue'), offered'[d] \in Keys
        PROVE  offered'[d] # queue'[i]
    <3>1. d # c /\ offered'[d] = offered[d]
      BY <1>4, <2>4
    <3>2. CASE i \in 1..n
      BY <1>2, <2>4, <3>1, <3>2 DEF ApartInv, n
    <3>3. CASE i = n + 1
      BY <1>2, <1>3, <3>1, <3>3
    <3> QED BY <1>2, <3>2, <3>3
  <2>5. \A d \in Callers, w \in Workers :
           offered'[d] \in Keys => offered'[d] # inHand'[w]
    BY <1>1, <1>4 DEF ApartInv
  <2>6. ASSUME NEW w \in Workers, NEW i \in 1..Len(queue'), inHand'[w] \in Keys
        PROVE  inHand'[w] # queue'[i]
    <3>2. CASE i \in 1..n
      BY <1>1, <1>2, <2>6, <3>2 DEF ApartInv, n
    <3>3. CASE i = n + 1
      BY <1>1, <1>2, <1>3, <3>3
    <3> QED BY <1>2, <3>2, <3>3
  <2> QED BY <2>1, <2>2, <2>3, <2>4, <2>5, <2>6 DEF ApartInv
<1>6. ClaimedInv'
  <2> SUFFICES ASSUME NEW j \in Keys
               PROVE  Somewhere(j)' <=> Somewhere(j)
    BY <1>1 DEF ClaimedInv
  <2>1. CASE j = k
    <3>1. Somewhere(j)
      BY <2>1 DEF Somewhere, k
    <3>2. queue'[n + 1] = j /\ n + 1 \in 1..Len(queue')
      BY <1>2, <2>1
    <3> QED BY <3>1, <3>2 DEF Somewhere
  <2>2. CASE j # k
    <3>1. (\E d \in Callers : offered'[d] = j) <=> \E d \in Callers : offered[d] = j
      BY <1>4, <2>2 DEF k
    <3>2. (\E i \in 1..Len(queue') : queue'[i] = j) <=> \E i \in 1..n : queue[i] = j
      BY <1>2, <2>2
    <3> QED BY <1>1, <3>1, <3>2 DEF Somewhere, n
  <2> QED BY <2>1, <2>2
<1> QED BY <1>5, <1>6

\* A sentinel at the end of the queue, as StopPutsSentinel puts it, is no
\* key's job.
LEMMA SentinelKept ==
    ASSUME TypeOK, ApartInv, ClaimedInv,
           queue' = Append(queue, Shutdown),
           UNCHANGED <<claimed, inHand, offered>>
    PROVE  ApartInv' /\ ClaimedInv'
<1> USE DEF TypeOK
<1> DEFINE n == Len(queue)
<1>1. /\ Len(queue') = n + 1
      /\ queue'[n + 1] = Shutdown
      /\ \A i \in 1..n : queue'[i] = queue[i]
      /\ n \in Nat
      /\ 1..Len(queue') = 1..n \cup {n + 1}
  BY AppendElements
<1>2. \A i \in 1..Len(queue') :
         queue'[i] \in Keys => i \in 1..n /\ queue'[i] = queue[i]
  BY <1>1, ConstantsAssumption
<1>3. ApartInv'
  BY <1>2 DEF ApartInv
<1>4. \A j \in Keys : (\E i \in 1..Len(queue') : queue'[i] = j)
                        <=> (\E i \in 1..n : queue[i] = j)
  BY <1>1, <1>2
<1>5. ClaimedInv'
  BY <1>4 DEF ClaimedInv, Somewhere
<1> QED BY <1>3, <1>5

\* GetItem: the head of the queue moves to a worker's empty hand, or is a
\* sentinel.
LEMMA GetKept ==
    ASSUME TypeOK, HandsInv, ApartInv, ClaimedInv,
           NEW w \in Workers, GetItem(w)
    PROVE  ApartInv' /\ ClaimedInv'
<1> USE DEF TypeOK
<1> DEFINE k == Head(queue)
           n == Len(queue)
           m == Len(queue')
<1>1. /\ queue # <<>>
      /\ queue' = Tail(queue)
      /\ UNCHANGED <<claimed, offered>>
      /\ inHand[w] \notin Keys
  BY DEF GetItem, HandsInv, callerVars
<1>2. /\ 1 \in 1..n
      /\ k = queue[1]
      /\ n \in Nat /\ m = n - 1
      /\ \A i \in 1..m : i + 1 \in 1..n /\ queue'[i] = queue[i + 1]
      /\ \A i \in 1..n : i = 1 \/ (i - 1 \in 1..m /\ queue'[i - 1] = queue[i])
  BY <1>1, TailElements
<1>5. ASSUME NEW j \in Keys, j # k
      PROVE  (\E i \in 1..m : queue'[i] = j) <=> (\E i \in 1..n : queue[i] = j)
  <2> HIDE DEF k, n, m
  <2>1. ASSUME NEW i \in 1..m, queue'[i] = j
        PROVE  \E h \in 1..n : queue[h] = j
    <3>1. i + 1 \in 1..n /\ queue[i + 1] = j
      BY <1>2, <2>1
    <3> QED BY <3>1
  <2>2. ASSUME NEW i \in 1..n, queue[i] = j
        PROVE  \E h \in 1..m : queue'[h] = j
    <3>1. i # 1
      BY <1>2, <1>5, <2>2
    <3>2. i - 1 \in 1..m /\ queue'[i - 1] = j
      BY <1>2, <2>2, <3>1
    <3> QED BY <3>2
  <2> QED BY <2>1, <2>2
<1>3. CASE k = Shutdown
  <2>1. k \notin Keys /\ UNCHANGED inHand
    BY <1>3, ConstantsAssumption DEF GetItem
  <2>2. \A i \in 1..m : i + 1 \in 1..n /\ i + 1 # 1
    BY <1>2
  <2> HIDE DEF k, n, m
  <2>3. ApartInv'
    <3>1. ASSUME NEW i \in 1..m, NEW j \in 1..m, queue'[i] \in Keys, queue'[i] = queue'[j]
          PROVE  i = j
      <4>1. queue[i + 1] \in Keys /\ queue[i + 1] = queue[j + 1]
            /\ i + 1 \in 1..n /\ j + 1 \in 1..n
        BY <1>2, <3>1
      <4>2. i + 1 = j + 1
        BY <4>1 DEF ApartInv, n
      <4> QED BY <4>2, <1>2
    <3> QED BY <1>1, <1>2, <2>1, <3>1 DEF ApartInv, n, m
  <2>4. \A j \in Keys : (\E i \in 1..m : queue'[i] = j) <=> (\E i \in 1..n : queue[i] = j)
    BY <1>5, <2>1
  <2> QED BY <1>1, <2>1, <2>3, <2>4 DEF ClaimedInv, Somewhere, n, m
<1>4. CASE k # Shutdown
  <2>1. inHand' = [inHand EXCEPT ![w] = k]
    BY <1>4 DEF GetItem
  <2>2. k \in Keys
    BY <1>1, <1>2, <1>4
  <2>3. /\ \A c \in Callers : offered[c] # k
        /\ \A v \in Workers : inHand[v] # k
        /\ \A i \in 1..m : queue'[i] # k
    <3>1. \A c \in Callers : offered[c] # k
      BY <1>2, <2>2 DEF ApartInv
    <3>2. \A v \in Workers : inHand[v] # k
      BY <1>2, <2>2 DEF ApartInv
    <3>3. ASSUME NEW i \in 1..m
          PROVE  queue'[i] # k
      <4>1. i + 1 \in 1..n /\ i + 1 # 1 /\ queue'[i] = queue[i + 1]
        BY <1>2
      <4> QED BY <4>1, <1>2, <2>2 DEF ApartInv
    <3> QED BY <3>1, <3>2, <3>3
  <2>4. inHand'[w] = k /\ \A v \in Workers \ {w} : inHand'[v] = inHand[v]
    BY <2>1
  <2> HIDE DEF k, n, m
  <2>5. ApartInv'
    <3>1. ASSUME NEW i \in 1..m, NEW j \in 1..m, queue'[i] \in Keys, queue'[i] = queue'[j]
          PROVE  i = j
      <4>1. queue[i + 1] \in Keys /\ queue[i + 1] = queue[j + 1]
            /\ i + 1 \in 1..n /\ j + 1 \in 1..n
        BY <1>2, <3>1
      <4>2. i + 1 = j + 1
        BY <4>1 DEF ApartInv, n
      <4> QED BY <4>2, <1>2
    <3>2. \A u, v \in Workers :
             inHand'[u] \in Keys /\ inHand'[u] = inHand'[v] => u = v
      BY <2>3, <2>4 DEF ApartInv
    <3>3. \A c \in Callers, i \in 1..m :
             offered'[c] \in Keys => offered'[c] # queue'[i]
      BY <1>1, <1>2 DEF ApartInv, n
    <3>4. \A c \in Callers, v \in Workers :
             offered'[c] \in Keys => offered'[c] # inHand'[v]
      BY <1>1, <2>3, <2>4 DEF ApartInv
    <3>5. ASSUME NEW v \in Workers, NEW i \in 1..m, inHand'[v] \in Keys
          PROVE  inHand'[v] # queue'[i]
      <4>1. CASE v = w
        BY <2>3, <2>4, <4>1
      <4>2. CASE v # w
        BY <1>2, <2>4, <3>5, <4>2 DEF ApartInv, n
      <4> QED BY <4>1, <4>2
    <3> QED BY <1>1, <3>1, <3>2, <3>3, <3>4, <3>5 DEF ApartInv, m
  <2>6. ClaimedInv'
    <3> SUFFICES ASSUME NEW j \in Keys
                 PROVE  Somewhere(j)' <=> Somewhere(j)
      BY <1>1 DEF ClaimedInv
    <3>1. CASE j = k
      <4>1. Somewhere(j)
        BY <1>2, <3>1 DEF Somewhere, n
      <4> QED BY <2>4, <3>1, <4>1 DEF Somewhere
    <3>2. CASE j # k
      <4>1. (\E v \in Workers : inHand'[v] = j) <=> \E v \in Workers : inHand[v] = j
        BY <1>1, <2>4, <3>2
      <4>2. (\E i \in 1..m : queue'[i] = j) <=> \E i \in 1..n : queue[i] = j
        BY <1>5, <3>2
      <4> QED BY <1>1, <4>1, <4>2 DEF Somewhere, n, m
    <3> QED BY <3>1, <3>2
  <2> QED BY <2>5, <2>6
<1> QED BY <1>3, <1>4

\* CountOut: the worker's key is in no place and claimed by none.
LEMMA OutKept ==
    ASSUME TypeOK, HandsInv, ApartInv, ClaimedInv,
           NEW w \in Workers, CountOut(w)
    PROVE  ApartInv' /\ ClaimedInv'
<1> USE DEF TypeOK
<1> DEFINE k == inHand[w]
<1>1. /\ k \in Keys
      /\ inHand' = [inHand EXCEPT ![w] = NoKey]
      /\ claimed' = claimed \ {k}
      /\ UNCHANGED <<queue, offered>>
  BY DEF CountOut, HandsInv, callerVars
<1>2. inHand'[w] \notin Keys /\ \A v \in Workers \ {w} : inHand'[v] = inHand[v]
  BY <1>1, ConstantsAssumption
<1>3. /\ \A c \in Callers : offered[c] # k
      /\ \A i \in 1..Len(queue) : queue[i] # k
      /\ \A v \in Workers \ {w} : inHand[v] # k
  BY <1>1 DEF ApartInv
<1> HIDE DEF k
<1>4. ApartInv'
  BY <1>1, <1>2 DEF ApartInv
<1>5. ClaimedInv'
  <2> SUFFICES ASSUME NEW j \in Keys
               PROVE  j \in claimed' <=> Somewhere(j)'
    BY DEF ClaimedInv
  <2>1. CASE j = k
    BY <1>1, <1>2, <1>3, <2>1 DEF Somewhere
  <2>2. CASE j # k
    <3>1. Somewhere(j)' <=> Somewhere(j)
      BY <1>1, <1>2, <2>2 DEF Somewhere, k
    <3> QED BY <1>1, <2>2, <3>1 DEF ClaimedInv
  <2> QED BY <2>1, <2>2
<1> QED BY <1>4, <1>5

-----------------------------------------------------------------------------
(* The invariant as a whole.                                               *)

LEMMA TypeKept ==
    ASSUME TypeOK, HandsInv, Next, inFlight' \in Nat, peak' \in Nat
    PROVE  TypeOK'
<1> USE DEF TypeOK
<1>0. Size \in Nat
  BY BusyBounded
<1>1. CASE Start
  BY <1>1 DEF Start, poolVars, callerVars
<1>2. ASSUME NEW c \in Callers, NEW k \in Keys, SubmitClaims(c, k)
      PROVE  TypeOK'
  BY <1>2 DEF SubmitClaims, workerVars
<1>3. ASSUME NEW c \in Callers, SubmitPuts(c)
      PROVE  TypeOK'
  <2>1. offered[c] \in Keys \cup {Shutdown}
    BY <1>3 DEF SubmitPuts, HandsInv
  <2>2. queue' \in Seq(Keys \cup {Shutdown})
    BY <1>3, <2>1, AppendElements DEF SubmitPuts
  <2> QED BY <1>3, <2>2 DEF SubmitPuts, workerVars
<1>4. ASSUME NEW c \in Callers, StopBegins(c)
      PROVE  TypeOK'
  BY <1>0, <1>4 DEF StopBegins, workerVars
<1>5. ASSUME NEW c \in Callers, StopPutsSentinel(c)
      PROVE  TypeOK'
  <2>0. UNCHANGED <<claimed, stopped, worker, inHand, offered>>
    BY <1>5 DEF StopPutsSentinel, workerVars
  <2>1. CASE left[c] > 0
    <3>1. /\ queue' = Append(queue, Shutdown)
          /\ left' = [left EXCEPT ![c] = left[c] - 1]
          /\ caller' = caller
      BY <1>5, <2>1 DEF StopPutsSentinel
    <3>2. Shutdown \in Keys \cup {Shutdown}
      OBVIOUS
    <3>3. queue' \in Seq(Keys \cup {Shutdown})
      BY <3>1, <3>2, AppendElements
    <3>4. left' \in [Callers -> Nat]
      BY <2>1, <3>1
    <3> QED BY <2>0, <3>1, <3>3, <3>4
  <2>2. CASE ~(left[c] > 0)
    <3>1. /\ caller' = [caller EXCEPT ![c] = "joining"]
          /\ left' = [left EXCEPT ![c] = IF Started THEN Size ELSE 0]
          /\ queue' = queue
      BY <1>5, <2>2 DEF StopPutsSentinel
    <3>2. left' \in [Callers -> Nat]
      BY <1>0, <3>1
    <3> QED BY <2>0, <3>1, <3>2
  <2> QED BY <2>1, <2>2
<1>6. ASSUME NEW c \in Callers, StopJoins(c)
      PROVE  TypeOK'
  <2>1. CASE left[c] > 0
    <3>1. left[c] - 1 \in Nat
      BY <2>1
    <3> QED BY <1>6, <2>1, <3>1 DEF StopJoins, workerVars, poolVars
  <2>2. CASE ~(left[c] > 0)
    BY <1>6, <2>2 DEF StopJoins, workerVars, poolVars
  <2> QED BY <2>1, <2>2
<1>7. ASSUME NEW w \in Workers, GetItem(w)
      PROVE  TypeOK'
  <2>1. /\ queue' \in Seq(Keys \cup {Shutdown})
        /\ Head(queue) \in Keys \cup {Shutdown}
    BY <1>7, TailElements DEF GetItem
  <2>2. CASE Head(queue) = Shutdown
    BY <1>7, <2>1, <2>2 DEF GetItem, Goto, callerVars
  <2>3. CASE Head(queue) # Shutdown
    BY <1>7, <2>1, <2>3 DEF GetItem, Goto, callerVars
  <2> QED BY <2>2, <2>3
<1>8. ASSUME NEW w \in Workers, GetTimesOut(w)
      PROVE  TypeOK'
  BY <1>8 DEF GetTimesOut, Goto, poolVars, callerVars
<1>9. ASSUME NEW w \in Workers, CheckStopped(w)
      PROVE  TypeOK'
  BY <1>9 DEF CheckStopped, Goto, poolVars, callerVars
<1>10. ASSUME NEW w \in Workers, CountIn(w)
       PROVE  TypeOK'
  BY <1>10 DEF CountIn, Goto, callerVars
<1>11. ASSUME NEW w \in Workers, JobEnds(w)
       PROVE  TypeOK'
  BY <1>11 DEF JobEnds, Goto, poolVars, callerVars
<1>12. ASSUME NEW w \in Workers, CountOut(w)
       PROVE  TypeOK'
  BY <1>12 DEF CountOut, Goto, callerVars
<1> QED
  BY <1>1, <1>2, <1>3, <1>4, <1>5, <1>6, <1>7, <1>8, <1>9, <1>10, <1>11, <1>12
     DEF Next, WorkerStep

LEMMA HandsKept ==
    ASSUME TypeOK, StartInv, HandsInv, Next
    PROVE  StartInv' /\ HandsInv'
<1> USE ConstantsAssumption DEF TypeOK, StartInv, HandsInv, Started
<1>1. CASE Start
  BY <1>1 DEF Start, poolVars, callerVars
<1>2. ASSUME NEW c \in Callers, NEW k \in Keys, SubmitClaims(c, k)
      PROVE  StartInv' /\ HandsInv'
  BY <1>2 DEF SubmitClaims, workerVars
<1>3. ASSUME NEW c \in Callers, SubmitPuts(c)
      PROVE  StartInv' /\ HandsInv'
  BY <1>3 DEF SubmitPuts, workerVars
<1>4. ASSUME NEW c \in Callers, StopBegins(c)
      PROVE  StartInv' /\ HandsInv'
  BY <1>4 DEF StopBegins, workerVars
<1>5. ASSUME NEW c \in Callers, StopPutsSentinel(c)
      PROVE  StartInv' /\ HandsInv'
  BY <1>5 DEF StopPutsSentinel, workerVars
<1>6. ASSUME NEW c \in Callers, StopJoins(c)
      PROVE  StartInv' /\ HandsInv'
  BY <1>6 DEF StopJoins, workerVars, poolVars
<1>7. ASSUME NEW w \in Workers, GetItem(w)
      PROVE  StartInv' /\ HandsInv'
  <2>1. Head(queue) \in Keys \cup {Shutdown}
    BY <1>7, TailElements DEF GetItem
  <2>2. CASE Head(queue) = Shutdown
    BY <1>7, <2>2 DEF GetItem, Goto, callerVars
  <2>3. CASE Head(queue) # Shutdown
    BY <1>7, <2>1, <2>3 DEF GetItem, Goto, callerVars
  <2> QED BY <2>2, <2>3
<1>8. ASSUME NEW w \in Workers, GetTimesOut(w)
      PROVE  StartInv' /\ HandsInv'
  BY <1>8 DEF GetTimesOut, Goto, poolVars, callerVars
<1>9. ASSUME NEW w \in Workers, CheckStopped(w)
      PROVE  StartInv' /\ HandsInv'
  BY <1>9 DEF CheckStopped, Goto, poolVars, callerVars
<1>10. ASSUME NEW w \in Workers, CountIn(w)
       PROVE  StartInv' /\ HandsInv'
  BY <1>10 DEF CountIn, Goto, callerVars
<1>11. ASSUME NEW w \in Workers, JobEnds(w)
       PROVE  StartInv' /\ HandsInv'
  BY <1>11 DEF JobEnds, Goto, poolVars, callerVars
<1>12. ASSUME NEW w \in Workers, CountOut(w)
       PROVE  StartInv' /\ HandsInv'
  BY <1>12 DEF CountOut, Goto, callerVars
<1> QED
  BY <1>1, <1>2, <1>3, <1>4, <1>5, <1>6, <1>7, <1>8, <1>9, <1>10, <1>11, <1>12
     DEF Next, WorkerStep

LEMMA JobsKept ==
    ASSUME TypeOK, StartInv, HandsInv, ApartInv, ClaimedInv, Next
    PROVE  ApartInv' /\ ClaimedInv'
<1>1. CASE Start
  BY <1>1, StillKept DEF Start, poolVars, callerVars
<1>2. ASSUME NEW c \in Callers, NEW k \in Keys, SubmitClaims(c, k)
      PROVE  ApartInv' /\ ClaimedInv'
  BY <1>2, ClaimKept
<1>3. ASSUME NEW c \in Callers, SubmitPuts(c)
      PROVE  ApartInv' /\ ClaimedInv'
  BY <1>3, PutKept
<1>4. ASSUME NEW c \in Callers, StopBegins(c)
      PROVE  ApartInv' /\ ClaimedInv'
  BY <1>4, StillKept DEF StopBegins, workerVars
<1>5. ASSUME NEW c \in Callers, StopPutsSentinel(c)
      PROVE  ApartInv' /\ ClaimedInv'
  <2>1. CASE left[c] > 0
    BY <1>5, <2>1, SentinelKept DEF StopPutsSentinel, workerVars
  <2>2. CASE ~(left[c] > 0)
    BY <1>5, <2>2, StillKept DEF StopPutsSentinel, workerVars
  <2> QED BY <2>1, <2>2
<1>6. ASSUME NEW c \in Callers, StopJoins(c)
      PROVE  ApartInv' /\ ClaimedInv'
  BY <1>6, StillKept DEF StopJoins, workerVars, poolVars
<1>7. ASSUME NEW w \in Workers, GetItem(w)
      PROVE  ApartInv' /\ ClaimedInv'
  BY <1>7, GetKept
<1>8. ASSUME NEW w \in Workers, GetTimesOut(w) \/ CheckStopped(w) \/ JobEnds(w)
      PROVE  ApartInv' /\ ClaimedInv'
  BY <1>8, StillKept DEF GetTimesOut, CheckStopped, JobEnds, poolVars, callerVars
<1>9. ASSUME NEW w \in Workers, CountIn(w)
      PROVE  ApartInv' /\ ClaimedInv'
  BY <1>9, StillKept DEF CountIn, callerVars
<1>10. ASSUME NEW w \in Workers, CountOut(w)
       PROVE  ApartInv' /\ ClaimedInv'
  BY <1>10, OutKept
<1> QED
  BY <1>1, <1>2, <1>3, <1>4, <1>5, <1>6, <1>7, <1>8, <1>9, <1>10
     DEF Next, WorkerStep

LEMMA InitHolds == Init => IInv
<1> SUFFICES ASSUME Init PROVE IInv
  OBVIOUS
<1> USE ConstantsAssumption DEF Init
<1>1. TypeOK /\ StartInv /\ HandsInv
  <2>1. queue \in Seq(Keys \cup {Shutdown})
    BY SMT DEF Init
  <2>2. TypeOK
    BY <2>1 DEF TypeOK
  <2>3. StartInv
    BY DEF StartInv
  <2>4. HandsInv
    BY DEF HandsInv
  <2> QED BY <2>2, <2>3, <2>4
<1>2. Busy = {}
  BY DEF Busy
<1>3. CountersAreExact
  BY <1>2, BusyBounded, FS_EmptySet DEF CountersAreExact
<1>4. ApartInv /\ ClaimedInv
  BY DEF ApartInv, ClaimedInv, Somewhere
<1> QED BY <1>1, <1>3, <1>4 DEF IInv

LEMMA NextKeeps == IInv /\ [Next]_vars => IInv'
<1> SUFFICES ASSUME IInv, [Next]_vars PROVE IInv'
  OBVIOUS
<1>1. CASE Next
  BY <1>1, CountersKept, TypeKept, HandsKept, JobsKept DEF IInv
<1>2. CASE UNCHANGED vars
  <2> USE <1>2 DEF vars, poolVars, workerVars, callerVars
  <2>1. TypeOK' /\ StartInv' /\ HandsInv'
    BY DEF IInv, TypeOK, StartInv, Started, HandsInv
  <2>2. CountersAreExact'
    BY DEF IInv, CountersAreExact, Busy, Size
  <2>3. ApartInv' /\ ClaimedInv'
    BY StillKept DEF IInv
  <2> QED BY <2>1, <2>2, <2>3 DEF IInv
<1> QED BY <1>1, <1>2

LEMMA Invariance == Spec => []IInv
<1> QED BY InitHolds, NextKeeps, PTL DEF Spec

-----------------------------------------------------------------------------
(* The theorems.                                                           *)

\* The variables keep their types (WorkerPool); that _in_flight never goes
\* below zero rests on the exactness of the counter.
THEOREM TypeCorrect == Spec => []TypeOK
<1>1. IInv => TypeOK
  BY DEF IInv
<1> QED BY <1>1, Invariance, PTL

\* in_flight_count() tells the truth at every moment, and no load lifts
\* peak_in_flight() above the number of threads (WorkerPool._drain).
THEOREM CountersCorrect == Spec => []CountersAreExact
<1>1. IInv => CountersAreExact
  BY DEF IInv
<1> QED BY <1>1, Invariance, PTL

\* Each claimed key has exactly one job in a caller's hand, the queue and the
\* workers' hands together, and no other key has any (WorkerPool.submit and
\* _drain): nothing is lost and nothing runs twice at once.
THEOREM ClaimsCorrect == Spec => []ClaimsAreExact
<1>1. IInv => ClaimsAreExact
  <2> SUFFICES ASSUME IInv, NEW k \in Keys
               PROVE  Cardinality(Places(k)) = IF k \in claimed THEN 1 ELSE 0
    BY DEF ClaimsAreExact
  <2> USE DEF IInv
  <2>1. CASE k \notin claimed
    <3>1. Places(k) = {}
      BY <2>1 DEF ClaimedInv, Somewhere, Places
    <3> QED BY <2>1, <3>1, FS_EmptySet
  <2>2. CASE k \in claimed
    <3>1. \E p : Places(k) = {p}
      <4>1. CASE \E c \in Callers : offered[c] = k
        <5>1. PICK c \in Callers : offered[c] = k
          BY <4>1
        <5>2. Places(k) = {<<"caller", c>>}
          BY <5>1 DEF ApartInv, Places
        <5> QED BY <5>2
      <4>2. CASE \E i \in 1..Len(queue) : queue[i] = k
        <5>1. PICK i \in 1..Len(queue) : queue[i] = k
          BY <4>2
        <5>2. Places(k) = {<<"queue", i>>}
          BY <5>1 DEF ApartInv, Places
        <5> QED BY <5>2
      <4>3. CASE \E w \in Workers : inHand[w] = k
        <5>1. PICK w \in Workers : inHand[w] = k
          BY <4>3
        <5>2. Places(k) = {<<"worker", w>>}
          BY <5>1 DEF ApartInv, Places
        <5> QED BY <5>2
      <4> QED BY <2>2, <4>1, <4>2, <4>3 DEF ClaimedInv, Somewhere
    <3> QED BY <2>2, <3>1, FS_Singleton
  <2> QED BY <2>1, <2>2
<1> QED BY <1>1, Invariance, PTL

-----------------------------------------------------------------------------
(* Refinement: every step of the pool is a step of SingleFlight, or leaves *)
(* its state alone.                                                        *)

\* The abstract jobs depend on the busy workers' hands and the claims alone.
LEMMA SameJobs ==
    ASSUME UNCHANGED <<claimed, stopped>>, Busy' = Busy,
           \A w \in Busy : inHand'[w] = inHand[w]
    PROVE  UNCHANGED Jobs!vars
<1>1. \A k \in Keys : JobOf(k)' = JobOf(k)
  BY DEF JobOf
<1>2. [k \in Keys |-> JobOf(k)]' = [k \in Keys |-> JobOf(k)]
  BY <1>1
<1> QED BY <1>2 DEF Jobs!vars

\* A change of one job, of which the two functions differ in one place.
LEMMA OneJobChanges ==
    ASSUME NEW k \in Keys, NEW to,
           JobOf(k)' = to,
           \A j \in Keys \ {k} : JobOf(j)' = JobOf(j)
    PROVE  [j \in Keys |-> JobOf(j)]' = [[j \in Keys |-> JobOf(j)] EXCEPT ![k] = to]
  OBVIOUS

LEMMA StepRefines == IInv /\ [Next]_vars => [Jobs!Next]_(Jobs!vars)
<1> SUFFICES ASSUME IInv, [Next]_vars PROVE [Jobs!Next]_(Jobs!vars)
  OBVIOUS
<1> USE DEF IInv, TypeOK
<1>1. CASE Start
  <2>1. Busy' = Busy
    BY <1>1 DEF Start, StartInv, Started, Busy
  <2> QED BY <1>1, <2>1, SameJobs DEF Start, poolVars
<1>2. ASSUME NEW c \in Callers, NEW k \in Keys, SubmitClaims(c, k)
      PROVE  Jobs!Accept(k)
  <2>1. /\ Busy' = Busy /\ inHand' = inHand
        /\ k \notin claimed /\ claimed' = claimed \cup {k}
        /\ ~stopped /\ stopped' = stopped
    BY <1>2 DEF SubmitClaims, workerVars, Busy
  <2>2. \A w \in Workers : inHand[w] # k
    BY <2>1 DEF ClaimedInv, Somewhere
  <2>3. JobOf(k) = "none" /\ JobOf(k)' = "waiting"
    BY <2>1, <2>2 DEF JobOf, Busy
  <2>4. \A j \in Keys \ {k} : JobOf(j)' = JobOf(j)
    BY <2>1 DEF JobOf
  <2>5. [j \in Keys |-> JobOf(j)]' = [[j \in Keys |-> JobOf(j)] EXCEPT ![k] = "waiting"]
    BY <2>3, <2>4, OneJobChanges
  <2> QED BY <2>1, <2>3, <2>5 DEF Jobs!Accept
<1>3. ASSUME NEW c \in Callers, SubmitPuts(c) \/ StopPutsSentinel(c) \/ StopJoins(c)
      PROVE  UNCHANGED Jobs!vars
  <2>1. UNCHANGED <<claimed, stopped, inHand, worker>>
    BY <1>3 DEF SubmitPuts, StopPutsSentinel, StopJoins, workerVars, poolVars
  <2> QED BY <2>1, SameJobs DEF Busy
<1>4. ASSUME NEW c \in Callers, StopBegins(c)
      PROVE  Jobs!Close
  <2>1. stopped' = TRUE /\ UNCHANGED <<claimed, inHand, worker>>
    BY <1>4 DEF StopBegins, workerVars
  <2>2. \A j \in Keys : JobOf(j)' = JobOf(j)
    BY <2>1 DEF JobOf, Busy
  <2>3. [j \in Keys |-> JobOf(j)]' = [j \in Keys |-> JobOf(j)]
    BY <2>2
  <2> QED BY <2>1, <2>3 DEF Jobs!Close
<1>5. ASSUME NEW w \in Workers, GetItem(w)
      PROVE  UNCHANGED Jobs!vars
  <2>1. /\ Busy' = Busy /\ UNCHANGED <<claimed, stopped>>
        /\ w \notin Busy /\ \A v \in Workers \ {w} : inHand'[v] = inHand[v]
    BY <1>5 DEF GetItem, Goto, Busy
  <2>2. \A v \in Busy : inHand'[v] = inHand[v]
    BY <2>1 DEF Busy
  <2> QED BY <2>1, <2>2, SameJobs
<1>6. ASSUME NEW w \in Workers, GetTimesOut(w) \/ CheckStopped(w) \/ JobEnds(w)
      PROVE  UNCHANGED Jobs!vars
  <2>1. /\ Busy' = Busy /\ UNCHANGED <<claimed, stopped, inHand>>
    BY <1>6 DEF GetTimesOut, CheckStopped, JobEnds, Goto, Busy, poolVars
  <2> QED BY <2>1, SameJobs
<1>7. ASSUME NEW w \in Workers, CountIn(w)
      PROVE  \E k \in Keys : Jobs!Begin(k)
  <2>0. PICK k \in Keys : inHand[w] = k
    BY <1>7 DEF CountIn, HandsInv
  <2>1. /\ w \notin Busy /\ Busy' = Busy \cup {w}
        /\ UNCHANGED <<claimed, stopped, inHand>>
    BY <1>7 DEF CountIn, Goto, Busy
  <2>2. k \in claimed /\ \A v \in Busy : inHand[v] # k
    BY <2>0, <2>1 DEF ClaimedInv, Somewhere, ApartInv, Busy
  <2>3. JobOf(k) = "waiting"
    BY <2>2 DEF JobOf
  <2>4. JobOf(k)' = "running"
    BY <2>0, <2>1 DEF JobOf
  <2>5. \A j \in Keys \ {k} : JobOf(j)' = JobOf(j)
    BY <2>0, <2>1 DEF JobOf
  <2>6. [j \in Keys |-> JobOf(j)]' = [[j \in Keys |-> JobOf(j)] EXCEPT ![k] = "running"]
    BY <2>4, <2>5, OneJobChanges
  <2> QED BY <2>1, <2>3, <2>6 DEF Jobs!Begin
<1>8. ASSUME NEW w \in Workers, CountOut(w)
      PROVE  \E k \in Keys : Jobs!Finish(k)
  <2>0. PICK k \in Keys : inHand[w] = k
    BY <1>8 DEF CountOut, HandsInv
  <2>1. /\ w \in Busy /\ Busy' = Busy \ {w}
        /\ claimed' = claimed \ {k} /\ stopped' = stopped
        /\ \A v \in Workers \ {w} : inHand'[v] = inHand[v]
    BY <1>8, <2>0 DEF CountOut, Goto, Busy
  <2>2. \A v \in Busy' : inHand'[v] = inHand[v] /\ inHand[v] # k
    BY <2>0, <2>1 DEF ApartInv, Busy
  <2>3. JobOf(k) = "running"
    BY <2>0, <2>1 DEF JobOf
  <2>4. JobOf(k)' = "none"
    BY <2>1, <2>2 DEF JobOf
  <2>5. \A j \in Keys \ {k} : JobOf(j)' = JobOf(j)
    BY <2>0, <2>1, <2>2 DEF JobOf
  <2>6. [j \in Keys |-> JobOf(j)]' = [[j \in Keys |-> JobOf(j)] EXCEPT ![k] = "none"]
    BY <2>4, <2>5, OneJobChanges
  <2> QED BY <2>1, <2>3, <2>6 DEF Jobs!Finish
<1>9. CASE UNCHANGED vars
  BY <1>9, SameJobs DEF vars, poolVars, workerVars, Busy
<1> QED
  BY <1>1, <1>2, <1>3, <1>4, <1>5, <1>6, <1>7, <1>8, <1>9
     DEF Next, WorkerStep, Jobs!Next

\* To its callers the pool is the atomic single-flight table (WorkerPool): no
\* interleaving of submits, threads and stop shows anything else.
THEOREM Refinement == Spec => ImplementsSingleFlight
<1>1. Init => Jobs!Init
  <2> SUFFICES ASSUME Init PROVE Jobs!Init
    OBVIOUS
  <2>1. \A k \in Keys : JobOf(k) = "none"
    BY DEF Init, JobOf, Busy
  <2> QED BY <2>1 DEF Init, Jobs!Init
<1> QED BY <1>1, StepRefines, Invariance, PTL
     DEF Spec, ImplementsSingleFlight, Jobs!Spec
=============================================================================
