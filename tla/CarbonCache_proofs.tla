------------------------ MODULE CarbonCache_proofs ------------------------
(***************************************************************************)
(* Proofs about the tiers of a carbon curve, for any number of requests    *)
(* and any lifetimes, with every outage of Redis and of the provider.      *)
(***************************************************************************)
EXTENDS CarbonCache, TLAPS

\* What a copy states and what is left of its lifetime make two lifetimes at
\* most: it was made of rows that stated one at most.
CopyInTime == copy # NoCurve => copy.curve.stated + copy.ttl =< 2 * Ttl

\* What a request holds at each stage, and what it may have found there.
HoldsAt(r) ==
    /\ stage[r] \in {"idle", "lock", "fetch"} => got[r] = NoCurve
    /\ stage[r] \in {"redis", "recopy", "rows", "done"} => got[r] \in Finds
    /\ stage[r] \in {"redis", "recopy", "rows"} \/ (stage[r] = "release" /\ got[r] # NoCurve)
          => ~got[r].tagged /\ got[r].curve.stated =< Ttl
    /\ stage[r] = "done" /\ ~got[r].tagged => got[r].curve.stated < 2 * Ttl

\* A request that has found nothing while the provider was up has not asked it.
SteadyAt(r) == steady[r] => apiUp /\ stage[r] \in {"lock", "fetch"}

CarbonInv ==
    /\ CarbonTypeOK
    /\ CopyInTime
    /\ \A r \in Requests : HoldsAt(r) /\ SteadyAt(r)

-----------------------------------------------------------------------------
LEMMA Lifetimes ==
  /\ Ttl \in Nat /\ Ttl >= 1 /\ StaleTtl \in Nat /\ StaleTtl >= 1 /\ LockTtl \in Nat /\ LockTtl >= 1
  /\ MaxAge \in Nat /\ MaxAge >= 2 * Ttl
BY CarbonAssumption

LEMMA MadeIsCurve ==
  ASSUME NEW live \in BOOLEAN
  PROVE  Made(live) \in Curves /\ Made(live).stated = 0
BY Lifetimes DEF Made, Curves

\* Nobody but r moves on.
OthersWait(r) ==
    /\ apiUp' = apiUp
    /\ \A q \in Requests \ {r} :
          stage'[q] = stage[q] /\ got'[q] = got[q] /\ steady'[q] = steady[q]

LEMMA OneRequest ==
  ASSUME CarbonInv, NEW r \in Requests, OthersWait(r), HoldsAt(r)', SteadyAt(r)'
  PROVE  \A q \in Requests : (HoldsAt(q) /\ SteadyAt(q))'
BY DEF CarbonInv, HoldsAt, SteadyAt, OthersWait

\* Both kinds of copy that are made of what a request holds.
LEMMA CopiesInTime ==
  ASSUME CarbonInv, NEW curve \in Curves, curve.stated =< Ttl, NEW sets \in 0 .. 2, Copied(curve, sets)
  PROVE  /\ copy' \in [curve : Curves, ttl : 1 .. Ttl] \cup {NoCurve}
         /\ stale' \in [curve : Curves, ttl : 1 .. StaleTtl] \cup {NoCurve}
         /\ CopyInTime'
<1>1. copy' \in [curve : Curves, ttl : 1 .. Ttl] \cup {NoCurve}
  BY Lifetimes DEF Copied, CarbonInv, CarbonTypeOK
<1>2. stale' \in [curve : Curves, ttl : 1 .. StaleTtl] \cup {NoCurve}
  BY Lifetimes DEF Copied, CarbonInv, CarbonTypeOK
<1>3. CASE sets >= 1
  <2>1. copy' = [curve |-> curve, ttl |-> Ttl]
    BY <1>3 DEF Copied
  <2> QED
    BY <1>1, <1>2, <2>1, Lifetimes DEF CopyInTime, Curves
<1>4. CASE ~(sets >= 1)
  BY <1>1, <1>2, <1>4 DEF Copied, CopyInTime, CarbonInv
<1> QED
  BY <1>3, <1>4

\* Storing states no age, and keeps the rows what they are.
LEMMA StoredIsTyped ==
  ASSUME CarbonTypeOK, NEW curve \in Curves, Stored(curve)
  PROVE  rows' \in Curves \cup {NoCurve}
BY Lifetimes DEF Stored, Curves, CarbonTypeOK

-----------------------------------------------------------------------------
LEMMA AskStep ==
  ASSUME CarbonInv, NEW r \in Requests, Ask(r)
  PROVE  CarbonInv'
<1>1. UNCHANGED <<apiUp, copy, stale, lock, rows, holds>> /\ OthersWait(r)
  BY DEF Ask, Take, Goto, OthersWait, CarbonInv, CarbonTypeOK
<1>2. CASE copy # NoCurve /\ Take(r, Found(copy.curve, FALSE)) /\ Goto(r, "done") /\ UNCHANGED steady
  <2>1. copy.curve \in Curves /\ copy.ttl \in 1 .. Ttl /\ copy.curve.stated + copy.ttl =< 2 * Ttl
    BY <1>2 DEF CarbonInv, CarbonTypeOK, CopyInTime
  <2>2. Found(copy.curve, FALSE) \in Finds /\ copy.curve.stated < 2 * Ttl
    BY <2>1, Lifetimes DEF Found, Finds, Curves
  <2>3. CarbonTypeOK'
    BY <1>1, <1>2, <2>2 DEF CarbonInv, CarbonTypeOK, Take, Goto, Stages
  <2>4. stage'[r] = "done" /\ got'[r] = Found(copy.curve, FALSE) /\ steady'[r] = steady[r]
    BY <1>2 DEF CarbonInv, CarbonTypeOK, Take, Goto
  <2>5. HoldsAt(r)'
    BY <2>2, <2>4 DEF HoldsAt, Found
  <2>6. SteadyAt(r)'
    BY <2>4, <1>1 DEF Ask, SteadyAt, CarbonInv
  <2> QED
    BY <1>1, <2>3, <2>5, <2>6, OneRequest DEF CarbonInv, CopyInTime
<1>3. CASE UNCHANGED got /\ Goto(r, "lock") /\ steady' = [steady EXCEPT ![r] = apiUp]
  <2>1. CarbonTypeOK'
    BY <1>1, <1>3 DEF CarbonInv, CarbonTypeOK, Goto, Stages
  <2>2. stage'[r] = "lock" /\ steady'[r] = apiUp
    BY <1>3 DEF CarbonInv, CarbonTypeOK, Goto
  <2>3. HoldsAt(r)' /\ SteadyAt(r)'
    BY <1>1, <1>3, <2>2 DEF Ask, HoldsAt, SteadyAt, CarbonInv
  <2> QED
    BY <1>1, <2>1, <2>3, OneRequest DEF CarbonInv, CopyInTime
<1> QED
  BY <1>2, <1>3 DEF Ask

LEMMA AcquireLockStep ==
  ASSUME CarbonInv, NEW r \in Requests, AcquireLock(r)
  PROVE  CarbonInv'
<1>1. UNCHANGED <<apiUp, copy, stale, rows, got, steady>> /\ OthersWait(r)
  BY DEF AcquireLock, Goto, OthersWait, CarbonInv, CarbonTypeOK
<1>2. holds' \in [Requests -> BOOLEAN] /\ lock' \in 0 .. LockTtl
  BY Lifetimes DEF AcquireLock, CarbonInv, CarbonTypeOK
<1>3. stage' \in [Requests -> Stages] /\ stage'[r] = "fetch" /\ stage[r] = "lock"
  BY DEF AcquireLock, Goto, CarbonInv, CarbonTypeOK, Stages
<1>4. CarbonTypeOK'
  BY <1>1, <1>2, <1>3 DEF CarbonInv, CarbonTypeOK
<1>5. HoldsAt(r)' /\ SteadyAt(r)'
  BY <1>1, <1>3 DEF HoldsAt, SteadyAt, CarbonInv
<1> QED
  BY <1>1, <1>4, <1>5, OneRequest DEF CarbonInv, CopyInTime

LEMMA FetchStep ==
  ASSUME CarbonInv, NEW r \in Requests, Fetch(r)
  PROVE  CarbonInv'
<1>1. UNCHANGED <<copy, stale, lock, rows, holds>> /\ OthersWait(r)
  BY DEF Fetch, Take, Goto, OthersWait, CarbonInv, CarbonTypeOK
<1>2. CASE apiUp
  <2>1. /\ Take(r, Found(Made(TRUE), FALSE)) /\ Goto(r, "redis")
        /\ steady' = [steady EXCEPT ![r] = FALSE] /\ UNCHANGED apiUp
    BY <1>2 DEF Fetch
  <2>2. Found(Made(TRUE), FALSE) \in Finds
    BY MadeIsCurve DEF Found, Finds
  <2>3. CarbonTypeOK'
    BY <1>1, <2>1, <2>2 DEF CarbonInv, CarbonTypeOK, Take, Goto, Stages
  <2>4. stage'[r] = "redis" /\ got'[r] = Found(Made(TRUE), FALSE) /\ steady'[r] = FALSE
    BY <2>1 DEF CarbonInv, CarbonTypeOK, Take, Goto
  <2>5. HoldsAt(r)' /\ SteadyAt(r)'
    BY <2>2, <2>4, Lifetimes DEF HoldsAt, SteadyAt, Found, Made
  <2> QED
    BY <1>1, <2>3, <2>5, OneRequest DEF CarbonInv, CopyInTime
<1>3. CASE ~apiUp
  <2>1. UNCHANGED <<got, steady, apiUp>> /\ Goto(r, "release")
    BY <1>3 DEF Fetch
  <2>2. CarbonTypeOK'
    BY <1>1, <2>1 DEF CarbonInv, CarbonTypeOK, Goto, Stages
  <2>3. stage'[r] = "release" /\ stage[r] = "fetch"
    BY <2>1 DEF Fetch, CarbonInv, CarbonTypeOK, Goto
  <2>4. got[r] = NoCurve
    BY <2>3 DEF CarbonInv, HoldsAt
  <2>5. HoldsAt(r)' /\ SteadyAt(r)'
    BY <1>3, <2>1, <2>3, <2>4 DEF HoldsAt, SteadyAt, CarbonInv
  <2> QED
    BY <1>1, <2>2, <2>5, OneRequest DEF CarbonInv, CopyInTime
<1> QED
  BY <1>2, <1>3

LEMMA KeepInRedisStep ==
  ASSUME CarbonInv, NEW r \in Requests, KeepInRedis(r)
  PROVE  CarbonInv'
<1>1. UNCHANGED <<apiUp, lock, rows, holds, got, steady>> /\ OthersWait(r)
  BY DEF KeepInRedis, Goto, OthersWait, CarbonInv, CarbonTypeOK
<1>2. stage[r] \in {"redis", "recopy"} /\ got[r] \in Finds
  BY DEF KeepInRedis, CarbonInv, HoldsAt
<1>3. PICK sets \in 0 .. 2 : Copied(got[r].curve, sets)
  BY DEF KeepInRedis
<1>4. stage' \in [Requests -> Stages] /\ stage'[r] = IF stage[r] = "redis" THEN "rows" ELSE "done"
  BY DEF KeepInRedis, Goto, CarbonInv, CarbonTypeOK, Stages
<1>5. ~got[r].tagged /\ got[r].curve.stated =< Ttl /\ got[r].curve \in Curves
  BY <1>2 DEF CarbonInv, HoldsAt, Finds
<1>6. CarbonTypeOK' /\ CopyInTime'
  BY <1>1, <1>3, <1>4, <1>5, CopiesInTime DEF CarbonInv, CarbonTypeOK
<1>7. HoldsAt(r)' /\ SteadyAt(r)'
  BY <1>1, <1>2, <1>4, <1>5, Lifetimes DEF HoldsAt, SteadyAt, CarbonInv, Curves
<1> QED
  BY <1>1, <1>6, <1>7, OneRequest DEF CarbonInv

LEMMA KeepInRowsStep ==
  ASSUME CarbonInv, NEW r \in Requests, KeepInRows(r)
  PROVE  CarbonInv'
<1>1. UNCHANGED <<apiUp, copy, stale, lock, holds, got, steady>> /\ OthersWait(r)
  BY DEF KeepInRows, Goto, OthersWait, CarbonInv, CarbonTypeOK
<1>2. stage[r] = "rows" /\ got[r] \in Finds /\ ~got[r].tagged /\ got[r].curve.stated =< Ttl
  BY DEF KeepInRows, CarbonInv, HoldsAt
<1>3. stage' \in [Requests -> Stages] /\ stage'[r] = "release"
  BY DEF KeepInRows, Goto, CarbonInv, CarbonTypeOK, Stages
<1>4. rows' \in Curves \cup {NoCurve}
  BY <1>2, StoredIsTyped DEF KeepInRows, CarbonInv, Finds
<1>5. CarbonTypeOK'
  BY <1>1, <1>3, <1>4 DEF CarbonInv, CarbonTypeOK
<1>6. HoldsAt(r)' /\ SteadyAt(r)'
  BY <1>1, <1>2, <1>3 DEF HoldsAt, SteadyAt, CarbonInv
<1> QED
  BY <1>1, <1>5, <1>6, OneRequest DEF CarbonInv, CopyInTime

LEMMA ReleaseLockStep ==
  ASSUME CarbonInv, NEW r \in Requests, ReleaseLock(r)
  PROVE  CarbonInv'
<1>1. UNCHANGED <<apiUp, copy, stale, rows, got, steady>> /\ OthersWait(r)
  BY DEF ReleaseLock, Goto, OthersWait, CarbonInv, CarbonTypeOK
<1>2. lock' \in 0 .. LockTtl /\ holds' \in [Requests -> BOOLEAN]
  BY Lifetimes DEF ReleaseLock, CarbonInv, CarbonTypeOK
<1>3. /\ stage[r] = "release" /\ stage' \in [Requests -> Stages]
      /\ stage'[r] = IF got[r] = NoCurve THEN "fresh" ELSE "done"
  BY DEF ReleaseLock, Goto, CarbonInv, CarbonTypeOK, Stages
<1>4. CarbonTypeOK'
  BY <1>1, <1>2, <1>3 DEF CarbonInv, CarbonTypeOK
<1>5. HoldsAt(r)'
  <2>1. CASE got[r] = NoCurve
    BY <1>1, <1>3, <2>1 DEF HoldsAt
  <2>2. CASE got[r] # NoCurve
    <3>1. got[r] \in Finds /\ ~got[r].tagged /\ got[r].curve.stated =< Ttl
      BY <1>3, <2>2 DEF CarbonInv, CarbonTypeOK, HoldsAt
    <3>2. got[r].curve.stated < 2 * Ttl
      BY <3>1, Lifetimes DEF Finds, Curves
    <3> QED
      BY <1>1, <1>3, <2>2, <3>1, <3>2 DEF HoldsAt
  <2> QED
    BY <2>1, <2>2
<1>6. SteadyAt(r)'
  BY <1>1, <1>3 DEF SteadyAt, CarbonInv
<1> QED
  BY <1>1, <1>4, <1>5, <1>6, OneRequest DEF CarbonInv, CopyInTime

LEMMA ReadFreshRowsStep ==
  ASSUME CarbonInv, NEW r \in Requests, ReadFreshRows(r)
  PROVE  CarbonInv'
<1>1. UNCHANGED <<apiUp, copy, stale, lock, rows, holds, steady>> /\ OthersWait(r)
  BY DEF ReadFreshRows, Take, Goto, OthersWait, CarbonInv, CarbonTypeOK
<1>2. ~steady[r] /\ stage[r] = "fresh"
  BY DEF ReadFreshRows, CarbonInv, SteadyAt
<1>3. CASE rows # NoCurve /\ IsFresh(rows)
  <2>1. Take(r, Found(rows, FALSE)) /\ Goto(r, "recopy")
    BY <1>3 DEF ReadFreshRows
  <2>2. Found(rows, FALSE) \in Finds /\ rows.stated =< Ttl
    BY <1>3 DEF Found, Finds, IsFresh, CarbonInv, CarbonTypeOK
  <2>3. CarbonTypeOK'
    BY <1>1, <2>1, <2>2 DEF CarbonInv, CarbonTypeOK, Take, Goto, Stages
  <2>4. stage'[r] = "recopy" /\ got'[r] = Found(rows, FALSE)
    BY <2>1 DEF CarbonInv, CarbonTypeOK, Take, Goto
  <2>5. HoldsAt(r)' /\ SteadyAt(r)'
    BY <1>1, <1>2, <2>2, <2>4 DEF HoldsAt, SteadyAt, Found
  <2> QED
    BY <1>1, <2>3, <2>5, OneRequest DEF CarbonInv, CopyInTime
<1>4. CASE ~(rows # NoCurve /\ IsFresh(rows))
  <2>1. UNCHANGED got /\ Goto(r, "resorts")
    BY <1>4 DEF ReadFreshRows
  <2>2. CarbonTypeOK'
    BY <1>1, <2>1 DEF CarbonInv, CarbonTypeOK, Goto, Stages
  <2>3. stage'[r] = "resorts"
    BY <2>1 DEF CarbonInv, CarbonTypeOK, Goto
  <2>4. HoldsAt(r)' /\ SteadyAt(r)'
    BY <1>1, <1>2, <2>3 DEF HoldsAt, SteadyAt
  <2> QED
    BY <1>1, <2>2, <2>4, OneRequest DEF CarbonInv, CopyInTime
<1> QED
  BY <1>3, <1>4

LEMMA ReadLastResortsStep ==
  ASSUME CarbonInv, NEW r \in Requests, ReadLastResorts(r)
  PROVE  CarbonInv'
<1>1. UNCHANGED <<apiUp, copy, stale, lock, rows, holds, steady>> /\ OthersWait(r)
  BY DEF ReadLastResorts, Take, Goto, OthersWait, CarbonInv, CarbonTypeOK
<1>2. ~steady[r] /\ stage[r] = "resorts"
  BY DEF ReadLastResorts, CarbonInv, SteadyAt
<1>3. \E find \in Finds : Take(r, find) /\ (find.tagged \/ find.curve.stated =< Ttl)
  <2> DEFINE Fits(find) == find \in Finds /\ (find.tagged \/ find.curve.stated =< Ttl)
  <2>1. Fits(Found(Made(FALSE), TRUE)) /\ Fits(Found(DataSetCurve, TRUE))
    BY MadeIsCurve DEF Found, Finds, DataSetCurve
  <2>2. stale # NoCurve => Fits(Found(stale.curve, TRUE))
    BY DEF Found, Finds, CarbonInv, CarbonTypeOK
  <2>3. rows # NoCurve => Fits(Found(rows, ~IsFresh(rows)))
    BY DEF Found, Finds, CarbonInv, CarbonTypeOK, IsFresh
  <2>4. PICK csv \in CsvOutcomes, reached \in RedisAnswers :
          Take(r, IF csv THEN Found(DataSetCurve, TRUE)
                  ELSE IF reached /\ stale # NoCurve THEN Found(stale.curve, TRUE)
                  ELSE IF rows # NoCurve THEN Found(rows, ~IsFresh(rows))
                  ELSE Found(Made(FALSE), TRUE))
    BY DEF ReadLastResorts
  <2> HIDE DEF Fits
  <2>5. \E find : Fits(find) /\ Take(r, find)
    BY <2>1, <2>2, <2>3, <2>4
  <2> QED
    BY <2>5 DEF Fits
<1>4. PICK find \in Finds : Take(r, find) /\ (find.tagged \/ find.curve.stated =< Ttl)
  BY <1>3
<1>5. Goto(r, "done")
  BY DEF ReadLastResorts
<1>6. CarbonTypeOK'
  BY <1>1, <1>4, <1>5 DEF CarbonInv, CarbonTypeOK, Take, Goto, Stages
<1>7. stage'[r] = "done" /\ got'[r] = find
  BY <1>4, <1>5 DEF CarbonInv, CarbonTypeOK, Take, Goto
<1>8. HoldsAt(r)' /\ SteadyAt(r)'
  BY <1>1, <1>2, <1>4, <1>7, Lifetimes DEF HoldsAt, SteadyAt, Finds, Curves
<1> QED
  BY <1>1, <1>6, <1>8, OneRequest DEF CarbonInv, CopyInTime

LEMMA UseStep ==
  ASSUME CarbonInv, NEW r \in Requests, Use(r)
  PROVE  CarbonInv'
<1>1. UNCHANGED <<apiUp, copy, stale, lock, holds>> /\ OthersWait(r)
  BY DEF Use, Take, Goto, OthersWait, CarbonInv, CarbonTypeOK
<1>2. stage[r] = "done" /\ got[r] \in Finds
  BY DEF Use, CarbonInv, HoldsAt
<1>3. rows' \in Curves \cup {NoCurve}
  BY <1>2, StoredIsTyped DEF Use, CarbonInv, CarbonTypeOK, Finds
<1>4. CarbonTypeOK'
  BY <1>1, <1>3 DEF Use, CarbonInv, CarbonTypeOK, Take, Goto, Stages
<1>5. stage'[r] = "idle" /\ got'[r] = NoCurve /\ steady'[r] = FALSE
  BY DEF Use, CarbonInv, CarbonTypeOK, Take, Goto
<1>6. HoldsAt(r)' /\ SteadyAt(r)'
  BY <1>5 DEF HoldsAt, SteadyAt
<1> QED
  BY <1>1, <1>4, <1>6, OneRequest DEF CarbonInv, CopyInTime

LEMMA ApiChangesStep ==
  ASSUME CarbonInv, ApiChanges
  PROVE  CarbonInv'
<1>1. CarbonTypeOK' /\ CopyInTime'
  BY DEF ApiChanges, CarbonInv, CarbonTypeOK, CopyInTime
<1>2. \A r \in Requests : (HoldsAt(r) /\ SteadyAt(r))'
  BY DEF ApiChanges, CarbonInv, HoldsAt, SteadyAt
<1> QED
  BY <1>1, <1>2 DEF CarbonInv

-----------------------------------------------------------------------------
\* A tick makes a curve one older, as far as ages are told apart.
LEMMA AgedIsTyped ==
  ASSUME NEW curve \in Curves
  PROVE  Aged(curve) \in Curves /\ Aged(curve).stated =< curve.stated + 1
<1> DEFINE older(n) == IF n < MaxAge THEN n + 1 ELSE n
<1>1. Aged(curve) = [live |-> curve.live, stated |-> older(curve.stated),
                     age |-> IF curve.live THEN older(curve.age) ELSE curve.age]
  BY DEF Aged, Curves
<1>2. older(curve.stated) \in 0 .. MaxAge /\ older(curve.age) \in 0 .. MaxAge
      /\ older(curve.stated) =< curve.stated + 1
  BY Lifetimes DEF Curves
<1> QED
  BY <1>1, <1>2 DEF Curves

LEMMA ExpiredIsTyped ==
  ASSUME NEW life \in Nat, NEW entry \in [curve : Curves, ttl : 1 .. life] \cup {NoCurve}
  PROVE  /\ Expired(entry) \in [curve : Curves, ttl : 1 .. life] \cup {NoCurve}
         /\ Expired(entry) # NoCurve =>
              /\ entry # NoCurve
              /\ Expired(entry).curve.stated + Expired(entry).ttl =< entry.curve.stated + entry.ttl
<1>1. CASE entry = NoCurve \/ entry.ttl = 1
  BY <1>1 DEF Expired
<1>2. CASE ~(entry = NoCurve \/ entry.ttl = 1)
  <2>1. entry.curve \in Curves /\ entry.ttl \in 1 .. life /\ entry.ttl # 1
    BY <1>2
  <2>2. Expired(entry) = [curve |-> Aged(entry.curve), ttl |-> entry.ttl - 1]
    BY <1>2 DEF Expired
  <2>3. Aged(entry.curve) \in Curves /\ Aged(entry.curve).stated =< entry.curve.stated + 1
    BY <2>1, AgedIsTyped
  <2>4. entry.ttl - 1 \in 1 .. life
    BY <2>1
  <2>5. Aged(entry.curve).stated \in Nat /\ entry.curve.stated \in Nat
    BY <2>1, <2>3, Lifetimes DEF Curves
  <2>6. Aged(entry.curve).stated + (entry.ttl - 1) =< entry.curve.stated + entry.ttl
    BY <2>1, <2>3, <2>5
  <2> QED
    BY <1>2, <2>2, <2>3, <2>4, <2>6
<1> QED
  BY <1>1, <1>2

LEMMA TickStep ==
  ASSUME CarbonInv, CarbonTick
  PROVE  CarbonInv'
<1>1. /\ UNCHANGED <<apiUp, stage, holds, got, steady>>
      /\ copy' = Expired(copy) /\ stale' = Expired(stale)
  BY DEF CarbonTick
<1>2. rows' \in Curves \cup {NoCurve}
  BY AgedIsTyped DEF CarbonTick, CarbonInv, CarbonTypeOK
<1>3. lock' \in 0 .. LockTtl
  BY Lifetimes DEF CarbonTick, CarbonInv, CarbonTypeOK
<1>4. /\ copy' \in [curve : Curves, ttl : 1 .. Ttl] \cup {NoCurve}
      /\ stale' \in [curve : Curves, ttl : 1 .. StaleTtl] \cup {NoCurve}
  BY <1>1, ExpiredIsTyped, Lifetimes DEF CarbonInv, CarbonTypeOK
<1>5. CarbonTypeOK'
  BY <1>1, <1>2, <1>3, <1>4 DEF CarbonInv, CarbonTypeOK
<1>6. CopyInTime'
  <2> SUFFICES ASSUME copy' # NoCurve
               PROVE  copy'.curve.stated + copy'.ttl =< 2 * Ttl
    BY DEF CopyInTime
  <2>1. copy # NoCurve /\ copy'.curve.stated + copy'.ttl =< copy.curve.stated + copy.ttl
    BY <1>1, ExpiredIsTyped, Lifetimes DEF CarbonInv, CarbonTypeOK
  <2>2. copy.curve.stated + copy.ttl =< 2 * Ttl
    BY <2>1 DEF CarbonInv, CopyInTime
  <2>3. /\ copy.curve.stated \in Nat /\ copy.ttl \in Nat
        /\ copy'.curve.stated \in Nat /\ copy'.ttl \in Nat
    BY <1>4, <2>1, Lifetimes DEF CarbonInv, CarbonTypeOK, Curves
  <2> QED
    BY <2>1, <2>2, <2>3, Lifetimes
<1>7. \A r \in Requests : (HoldsAt(r) /\ SteadyAt(r))'
  BY <1>1 DEF CarbonInv, HoldsAt, SteadyAt
<1> QED
  BY <1>5, <1>6, <1>7 DEF CarbonInv

-----------------------------------------------------------------------------
\* Types, what copies state, and what a request may have found at each of its
\* tiers (get_resilient_carbon_curve), in every reachable state.
THEOREM CarbonInvariant == CarbonSpec => []CarbonInv
<1>1. CarbonInit => CarbonInv
  BY Lifetimes DEF CarbonInit, CarbonInv, CarbonTypeOK, CopyInTime, HoldsAt, SteadyAt, Stages
<1>2. CarbonInv /\ [CarbonNext]_carbonVars => CarbonInv'
  <2> SUFFICES ASSUME CarbonInv, [CarbonNext]_carbonVars
               PROVE  CarbonInv'
    OBVIOUS
  <2>1. CASE UNCHANGED carbonVars
    BY <2>1 DEF carbonVars, CarbonInv, CarbonTypeOK, CopyInTime, HoldsAt, SteadyAt
  <2>2. ASSUME NEW r \in Requests, Ask(r) \/ RequestStep(r)
        PROVE  CarbonInv'
    BY <2>2, AskStep, AcquireLockStep, FetchStep, KeepInRedisStep, KeepInRowsStep, ReleaseLockStep,
       ReadFreshRowsStep, ReadLastResortsStep, UseStep DEF RequestStep
  <2> QED
    BY <2>1, <2>2, ApiChangesStep, TickStep DEF CarbonNext
<1> QED
  BY <1>1, <1>2, PTL DEF CarbonSpec

\* What is served as measured states less than two lifetimes, and no fallback is
\* served to a request during which the provider was up all along.
THEOREM AnswersAreFreshAlways == CarbonSpec => []AnswersAreFresh
<1>1. CarbonInv => AnswersAreFresh
  BY DEF CarbonInv, HoldsAt, SteadyAt, AnswersAreFresh
<1> QED
  BY <1>1, CarbonInvariant, PTL
=============================================================================
