----------------------------- MODULE RateLimit -----------------------------
(***************************************************************************)
(* IPRateLimiter (auth/ratelimit.go): a sliding window per client address  *)
(* in front of login, OIDC callback and enrolment. An attempt is its time  *)
(* and a number, because several may share one clock reading; the code     *)
(* keeps the times in a slice and uses their number alone.                 *)
(***************************************************************************)
EXTENDS Naturals, FiniteSets

CONSTANTS
    Key,            \* client addresses
    Limit, Window,
    MaxStep         \* bound on the clock

ASSUME RateAssumption == Limit \in Nat \ {0} /\ Window \in Nat \ {0} /\ MaxStep \in Nat

VARIABLES
    tick,
    hits,           \* IPRateLimiter.hits; {} when the key is missing
    cleanup,        \* when the next prune is due
    granted,        \* history: all attempts that were let through
    verdict         \* history: the last answer: its key, and whether it was let through

rateVars == <<tick, hits, cleanup, granted, verdict>>

(* The clock starts late enough for the cutoff to be a natural number. *)
RateInit ==
    /\ tick = Window /\ cleanup = 0
    /\ hits = [k \in Key |-> {}] /\ granted = [k \in Key |-> {}]
    /\ verdict = [key |-> CHOOSE k \in Key : TRUE, ok |-> TRUE]

RateTick ==
    /\ tick < MaxStep
    /\ tick' = tick + 1
    /\ UNCHANGED <<hits, cleanup, granted, verdict>>

FreshShort(times) == {a \in times : a.at > (tick + 1) - Window}    \* bug: the window is one step short
Fresh(times) == {a \in times : a.at > tick - Window}

(* pruneLocked, when it is due. *)
Pruned == IF tick > cleanup THEN [k \in Key |-> Fresh(hits[k])] ELSE hits

attempt(k) == [no |-> Cardinality(granted[k]) + 1, at |-> tick]
AllowRecordsAll(k) ==               \* bug: a refused attempt is recorded too
    LET times == Fresh(Pruned[k])
        ok == Cardinality(times) < Limit
    IN  /\ hits' = [Pruned EXCEPT ![k] = times \cup {attempt(k)}]
        /\ cleanup' = IF tick > cleanup THEN tick + Window ELSE cleanup
        /\ granted' = IF ok THEN [granted EXCEPT ![k] = granted[k] \cup {attempt(k)}] ELSE granted
        /\ verdict' = [key |-> k, ok |-> ok]
        /\ UNCHANGED tick
Allow(k) ==
    LET times == Fresh(Pruned[k])
        ok == Cardinality(times) < Limit
    IN  /\ hits' = [Pruned EXCEPT ![k] = IF ok THEN times \cup {attempt(k)} ELSE times]
        /\ cleanup' = IF tick > cleanup THEN tick + Window ELSE cleanup
        /\ granted' = IF ok THEN [granted EXCEPT ![k] = granted[k] \cup {attempt(k)}] ELSE granted
        /\ verdict' = [key |-> k, ok |-> ok]
        /\ UNCHANGED tick

RateNext == RateTick \/ \E k \in Key : Allow(k)

RateSpec == RateInit /\ [][RateNext]_rateVars
-----------------------------------------------------------------------------
GrantedIn(k, from, to) == {a \in granted[k] : a.at \in from..to}

(* No window, wherever it starts, holds more than Limit attempts of one    *)
(* address that were let through, whatever was pruned in between.          *)
WindowKept ==
    \A k \in Key, t \in Window..MaxStep :
        Cardinality(GrantedIn(k, (t + 1) - Window, t)) <= Limit

(* An attempt is refused only when Limit attempts of the same address were *)
(* let through within the window that ends with it: neither refused ones   *)
(* nor those of other addresses count.                                     *)
NoUndueRefusal ==
    [][tick' = tick /\ ~verdict'.ok =>
         Cardinality(GrantedIn(verdict'.key, (tick + 1) - Window, tick)) >= Limit]_rateVars

(* The limiter grants Limit attempts a window and refuses only the rest,   *)
(* whenever it filters and prunes (IPRateLimiter.Allow).                   *)
LimitExact == []WindowKept /\ NoUndueRefusal
=============================================================================
