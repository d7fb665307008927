---------------------------- MODULE CarbonCache ----------------------------
(***************************************************************************)
(* How a carbon curve reaches the planners: the shared Redis copy, the     *)
(* live provider, the rows of the database, the data set on disk, the      *)
(* long-lived stale copy and the configured fallback value                 *)
(* (app/shared/carbon_cache.py, app/ingest/carbon_api.py,                  *)
(* app/ingest/service.py fetch_and_store_carbon).                          *)
(*                                                                         *)
(* One hour of one region is followed. A curve says whether the provider   *)
(* supplied it (live), the age of that information (age) and the age its   *)
(* fetched_at states (stated), both in ticks and counted no further than   *)
(* MaxAge. The hour is one that the answers of the provider have. Redis    *)
(* may be out of reach at any call.                                        *)
(* The calls to Redis and the database are taken to need less than a tick; *)
(* a call to the provider may take any time.                               *)
(***************************************************************************)
EXTENDS Integers, FiniteSets

CONSTANTS Readers,     \* requests that only read a curve: planning, impact
          Ingesters,   \* requests that also store what they were given
          Ttl,         \* carbon_cache_ttl_seconds, in ticks
          StaleTtl,    \* STALE_BACKUP_TTL_SECONDS, in ticks
          LockTtl,     \* lifetime of the refresh lock, in ticks
          MaxAge,      \* bound: older than this is not told apart
          CsvOutcomes, \* whether the data set on disk has rows for the hour
          NoCurve      \* model value

ASSUME CarbonAssumption ==
    /\ {Ttl, StaleTtl, LockTtl, MaxAge} \subseteq Nat \ {0}
    /\ LockTtl =< Ttl /\ Ttl < StaleTtl /\ MaxAge >= 2 * Ttl
    /\ CsvOutcomes \subseteq BOOLEAN

VARIABLES apiUp,      \* the provider answers with usable points
          copy,       \* the Redis copy [curve, ttl], or NoCurve
          stale,      \* the Redis stale copy [curve, ttl], or NoCurve
          lock,       \* ticks the refresh lock still lives, 0 when free
          rows,       \* the database rows of the hour, stated age included
          stage,      \* of a request
          holds,      \* lock_acquired of a request
          got,        \* what a request has found: curve and is_fallback
          steady      \* a request has found nothing, and the provider was up all along

carbonVars == <<apiUp, copy, stale, lock, rows, stage, holds, got, steady>>

Requests == Readers \cup Ingesters
Curves == [live : BOOLEAN, age : 0 .. MaxAge, stated : 0 .. MaxAge]
Finds == [curve : Curves, tagged : BOOLEAN]
Stages == {"idle", "lock", "fetch", "redis", "rows", "release", "fresh",
           "recopy", "resorts", "done"}

CarbonTypeOK ==
    /\ apiUp \in BOOLEAN
    /\ copy \in [curve : Curves, ttl : 1 .. Ttl] \cup {NoCurve}
    /\ stale \in [curve : Curves, ttl : 1 .. StaleTtl] \cup {NoCurve}
    /\ lock \in 0 .. LockTtl
    /\ rows \in Curves \cup {NoCurve}
    /\ stage \in [Requests -> Stages]
    /\ holds \in [Requests -> BOOLEAN]
    /\ got \in [Requests -> Finds \cup {NoCurve}]
    /\ steady \in [Requests -> BOOLEAN]

CarbonInit ==
    /\ apiUp \in BOOLEAN
    /\ copy = NoCurve /\ stale = NoCurve /\ lock = 0 /\ rows = NoCurve
    /\ stage = [r \in Requests |-> "idle"]
    /\ holds = [r \in Requests |-> FALSE]
    /\ got = [r \in Requests |-> NoCurve]
    /\ steady = [r \in Requests |-> FALSE]

-----------------------------------------------------------------------------
\* A curve made at this moment, by the provider, the data set or the fallback.
Made(live) == [live |-> live, age |-> 0, stated |-> 0]

\* get_carbon_from_csv: the points the data set has for the hours asked for.
DataSetCurve == Made(FALSE)
Found(curve, tagged) == [curve |-> curve, tagged |-> tagged]

\* get_redis_client: refused connections and the circuit breaker make a call fail.
RedisAnswers == BOOLEAN

\* The two SETs of set_cached_carbon_data; either may be the one that fails.
Copied(curve, sets) ==
    /\ copy' = IF sets >= 1 THEN [curve |-> curve, ttl |-> Ttl] ELSE copy
    /\ stale' = IF sets = 2 THEN [curve |-> curve, ttl |-> StaleTtl] ELSE stale

\* store_carbon_in_db_cache: fetched_at becomes now whatever the points stated;
\* an error rolls back.
Stored(curve) ==
    \/ rows' = [curve EXCEPT !.stated = 0]
    \/ UNCHANGED rows

\* Mutant: rows of any age are taken for fresh ones.
IsFresh_AnyAge(curve) == TRUE

IsFresh(curve) == curve.stated =< Ttl

-----------------------------------------------------------------------------
Goto(r, next) == stage' = [stage EXCEPT ![r] = next]
Take(r, find) == got' = [got EXCEPT ![r] = find]

\* Tier 1A: a hit is served as no fallback, whatever the copy was made from.
Ask(r) ==
    /\ stage[r] = "idle"
    /\ \E reached \in RedisAnswers :
          IF reached /\ copy # NoCurve
          THEN Take(r, Found(copy.curve, FALSE)) /\ Goto(r, "done") /\ UNCHANGED steady
          ELSE /\ UNCHANGED got /\ Goto(r, "lock")
               /\ steady' = [steady EXCEPT ![r] = apiUp]
    /\ UNCHANGED <<apiUp, copy, stale, lock, rows, holds>>

\* Mutant: fresh rows are asked for before the provider is.
AcquireLock_RowsFirst(r) ==
    /\ stage[r] = "lock"
    /\ \E reached \in RedisAnswers :
          /\ holds' = [holds EXCEPT ![r] = ~reached \/ lock = 0]
          /\ lock' = IF reached /\ lock = 0 THEN LockTtl ELSE lock
    /\ IF rows # NoCurve /\ IsFresh(rows)
       THEN Take(r, Found(rows, FALSE)) /\ Goto(r, "recopy")
       ELSE UNCHANGED got /\ Goto(r, "fetch")
    /\ UNCHANGED <<apiUp, copy, stale, rows, steady>>

\* acquire_carbon_refresh_lock: who does not get the lock fetches all the same.
AcquireLock(r) ==
    /\ stage[r] = "lock"
    /\ \E reached \in RedisAnswers :
          /\ holds' = [holds EXCEPT ![r] = ~reached \/ lock = 0]
          /\ lock' = IF reached /\ lock = 0 THEN LockTtl ELSE lock
    /\ Goto(r, "fetch")
    /\ UNCHANGED <<apiUp, copy, stale, rows, got, steady>>

\* Tier 1B.
Fetch(r) ==
    /\ stage[r] = "fetch"
    /\ IF apiUp
       THEN /\ Take(r, Found(Made(TRUE), FALSE))
            /\ Goto(r, "redis")
            /\ steady' = [steady EXCEPT ![r] = FALSE]
       ELSE UNCHANGED <<got, steady>> /\ Goto(r, "release")
    /\ UNCHANGED <<apiUp, copy, stale, lock, rows, holds>>

KeepInRedis(r) ==
    /\ stage[r] \in {"redis", "recopy"}
    /\ \E sets \in 0 .. 2 : Copied(got[r].curve, sets)
    /\ Goto(r, IF stage[r] = "redis" THEN "rows" ELSE "done")
    /\ UNCHANGED <<apiUp, lock, rows, holds, got, steady>>

KeepInRows(r) ==
    /\ stage[r] = "rows"
    /\ Stored(got[r].curve)
    /\ Goto(r, "release")
    /\ UNCHANGED <<apiUp, copy, stale, lock, holds, got, steady>>

\* release_carbon_refresh_lock deletes the key, whoever has set it since.
ReleaseLock(r) ==
    /\ stage[r] = "release"
    /\ \E reached \in RedisAnswers :
          lock' = IF holds[r] /\ reached THEN 0 ELSE lock
    /\ holds' = [holds EXCEPT ![r] = FALSE]
    /\ Goto(r, IF got[r] = NoCurve THEN "fresh" ELSE "done")
    /\ UNCHANGED <<apiUp, copy, stale, rows, got, steady>>

\* Tier 2: fresh rows are served as no fallback and copied for a full lifetime.
ReadFreshRows(r) ==
    /\ stage[r] = "fresh"
    /\ IF rows # NoCurve /\ IsFresh(rows)
       THEN Take(r, Found(rows, FALSE)) /\ Goto(r, "recopy")
       ELSE UNCHANGED got /\ Goto(r, "resorts")
    /\ UNCHANGED <<apiUp, copy, stale, lock, rows, holds, steady>>

\* Tiers 3 to 5: the data set, the stale copy, the rows as they are, the
\* configured value.
ReadLastResorts(r) ==
    /\ stage[r] = "resorts"
    /\ \E csv \in CsvOutcomes, reached \in RedisAnswers :
          Take(r, IF csv THEN Found(DataSetCurve, TRUE)
                  ELSE IF reached /\ stale # NoCurve
                       THEN Found(stale.curve, TRUE)
                  ELSE IF rows # NoCurve
                       THEN Found(rows, ~IsFresh(rows))
                  ELSE Found(Made(FALSE), TRUE))
    /\ Goto(r, "done")
    /\ UNCHANGED <<apiUp, copy, stale, lock, rows, holds, steady>>

\* The caller has the answer; fetch_and_store_carbon stores whatever was served
\* as fetched now.
Use(r) ==
    /\ stage[r] = "done"
    /\ IF r \in Ingesters THEN Stored(got[r].curve) ELSE UNCHANGED rows
    /\ Goto(r, "idle")
    /\ Take(r, NoCurve)
    /\ steady' = [steady EXCEPT ![r] = FALSE]
    /\ UNCHANGED <<apiUp, copy, stale, lock, holds>>

-----------------------------------------------------------------------------
\* The environment: the provider fails and recovers, and time passes.
ApiChanges ==
    /\ apiUp' = ~apiUp
    /\ steady' = [r \in Requests |-> FALSE]
    /\ UNCHANGED <<copy, stale, lock, rows, stage, holds, got>>

\* A made-up value does not age, only the time stated for it.
Aged(curve) ==
    LET older(n) == IF n < MaxAge THEN n + 1 ELSE n
    IN  [live |-> curve.live, stated |-> older(curve.stated),
         age |-> IF curve.live THEN older(curve.age) ELSE curve.age]

Expired(entry) ==
    IF entry = NoCurve \/ entry.ttl = 1 THEN NoCurve
    ELSE [curve |-> Aged(entry.curve), ttl |-> entry.ttl - 1]

\* Only a call to the provider, or a pause between requests, lasts for ticks.
Pausing == {"idle", "fetch"}

CarbonTick ==
    /\ \A r \in Requests : stage[r] \in Pausing
    /\ copy' = Expired(copy) /\ stale' = Expired(stale)
    /\ rows' = IF rows = NoCurve THEN NoCurve ELSE Aged(rows)
    /\ lock' = IF lock > 0 THEN lock - 1 ELSE 0
    /\ UNCHANGED <<apiUp, stage, holds, got, steady>>

RequestStep(r) ==
    \/ AcquireLock(r) \/ Fetch(r) \/ KeepInRedis(r) \/ KeepInRows(r)
    \/ ReleaseLock(r) \/ ReadFreshRows(r) \/ ReadLastResorts(r) \/ Use(r)

CarbonNext ==
    \/ \E r \in Requests : Ask(r) \/ RequestStep(r)
    \/ ApiChanges
    \/ CarbonTick

\* Nothing is left whose age or lifetime a tick would change.
Timeless ==
    /\ copy = NoCurve /\ stale = NoCurve /\ lock = 0
    /\ rows = NoCurve \/ Aged(rows) = rows

\* A request under way goes on, and time is not Zeno: no succession of requests,
\* each taking less than a tick, keeps the clock from moving. Nobody has to ask.
CarbonFairness ==
    /\ \A r \in Requests : WF_carbonVars(RequestStep(r))
    /\ ([]<><<CarbonTick>>_carbonVars) \/ ([]<>Timeless)

CarbonSpec == CarbonInit /\ [][CarbonNext]_carbonVars /\ CarbonFairness

-----------------------------------------------------------------------------
\* What is served as no fallback states an age below two lifetimes, one in the
\* rows and one in the copy made of them, and a fallback is served only if the
\* provider was down some time since the request began, whoever else was
\* refreshing the copy (get_resilient_carbon_curve).
AnswersAreFresh ==
    \A r \in Requests : stage[r] = "done" =>
        IF got[r].tagged THEN ~steady[r] ELSE got[r].curve.stated < 2 * Ttl

\* Once the provider stays up, the values made up or kept during an outage are
\* served no more, however they had been stored meanwhile.
HealsAfterOutage ==
    <>[]apiUp => <>[](\A r \in Requests :
        stage[r] = "done" => got[r].curve.live /\ got[r].curve.age =< Ttl)

\* What carbon_api.py:10 promises of the fallback value, "clearly tagged": what
\* is served as no fallback comes from the provider.
FallbackStaysTagged ==
    \A r \in Requests :
        stage[r] = "done" /\ ~got[r].tagged => got[r].curve.live
=============================================================================
