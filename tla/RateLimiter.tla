------------------------------ MODULE RateLimiter ------------------------------
(***************************************************************************)
(* RateLimiter.is_allowed (config/rate_limit.py), used by rate_limit of    *)
(* api_gateway/main.py: a sliding window per key in a Redis sorted set.    *)
(*                                                                         *)
(* A request reads its own clock, runs one atomic pipeline and, if it is   *)
(* refused, takes its member back in a second call.  The member is the     *)
(* clock reading itself, so two requests with one reading are one member.  *)
(***************************************************************************)
EXTENDS Integers, Sequences, FiniteSets

CONSTANTS
    Callers,     \* requests under one key, each of which asks once
    PassLimit,   \* limit
    PassWindow,  \* window_seconds
    MaxClock     \* bound on the clock

ASSUME LimiterAssumption ==
    /\ PassLimit \in Nat \ {0}
    /\ PassWindow \in Nat \ {0}
    /\ MaxClock \in Nat

VARIABLES
    clock,  \* time.time(), the same for every process
    zset,   \* the members of the sorted set
    life,   \* what is left of the key's EXPIRE
    asker,  \* where each request stands, and its clock reading
    passes  \* history: the pipelines, in the order Redis ran them

limiterVars == <<clock, zset, life, asker, passes>>

AskerPlaces == {"new", "read", "over", "granted", "refused", "error"}
PutAsker(r, from, to) == asker[r].at = from /\ asker' = [asker EXCEPT ![r].at = to]

-------------------------------------------------------------------------------
\* now = time.time().
ReadClock(r) ==
    /\ asker[r].at = "new"
    /\ asker' = [asker EXCEPT ![r] = [at |-> "read", stamp |-> clock]]
    /\ UNCHANGED <<clock, zset, life, passes>>

\* ZREMRANGEBYSCORE 0 .. now - window, both ends included.
Recorded(r) == {s \in zset : s > asker[r].stamp - PassWindow}

\* Mutant: the request that reaches the limit passes too.
Exceeds_OffByOne(n) == n > PassLimit

Exceeds(n) == n >= PassLimit

\* The pipeline: remove, ZCARD, ZADD, EXPIRE in one transaction.
RunPipeline(r) ==
    LET full == Exceeds(Cardinality(Recorded(r))) IN
    /\ PutAsker(r, "read", IF full THEN "over" ELSE "granted")
    /\ zset' = Recorded(r) \cup {asker[r].stamp}
    /\ life' = PassWindow + 1
    /\ passes' = Append(passes, [stamp |-> asker[r].stamp, at |-> clock, ok |-> ~full])
    /\ UNCHANGED clock

\* ZREM of the member of a refused request.
TakeBack(r) ==
    /\ PutAsker(r, "over", "refused")
    /\ zset' = zset \ {asker[r].stamp}
    /\ UNCHANGED <<clock, life, passes>>

\* Redis does not answer: 500, and the request does not pass.
LimiterFails(r) ==
    /\ \/ PutAsker(r, "read", "error")
       \/ PutAsker(r, "over", "error")
    /\ UNCHANGED <<clock, zset, life, passes>>

\* One second; the key goes window + 1 seconds after the last pipeline.
LimiterTick ==
    /\ clock < MaxClock
    /\ clock' = clock + 1
    /\ life' = IF life = 0 THEN 0 ELSE life - 1
    /\ zset' = IF life = 1 THEN {} ELSE zset
    /\ UNCHANGED <<asker, passes>>

LimiterInit ==
    /\ clock = 0 /\ zset = {} /\ life = 0 /\ passes = <<>>
    /\ asker = [r \in Callers |-> [at |-> "new", stamp |-> 0]]

LimiterNext ==
    \/ \E r \in Callers : ReadClock(r) \/ RunPipeline(r) \/ TakeBack(r) \/ LimiterFails(r)
    \/ LimiterTick

LimiterSpec == LimiterInit /\ [][LimiterNext]_limiterVars

-------------------------------------------------------------------------------
(* Properties.                                                               *)

LimiterTypeOK ==
    /\ clock \in 0 .. MaxClock
    /\ zset \subseteq 0 .. clock
    /\ life \in 0 .. PassWindow + 1
    /\ asker \in [Callers -> [at: AskerPlaces, stamp: 0 .. MaxClock]]
    /\ passes \in Seq([stamp: 0 .. MaxClock, at: 0 .. MaxClock, ok: BOOLEAN])

\* At most PassLimit requests get through in any window, in spite of refused
\* requests that hold a member for a while, of lost calls and of the expiry of
\* the key (is_allowed) -- as long as the readings of the clock are distinct,
\* reach Redis in their order and are at most a second old by then: EXPIRE
\* leaves that second, and a later pipeline may find its window gone.
Prompt(p) == p.at <= p.stamp + 1
InOrder(i) == /\ \A j \in 1 .. i - 1 : passes[j].stamp < passes[j + 1].stamp
              /\ \A j \in 1 .. i : Prompt(passes[j])
Granted(i) ==
    {j \in 1 .. i : passes[j].ok /\ passes[j].stamp > passes[i].stamp - PassWindow}
LimitHolds ==
    \A i \in 1 .. Len(passes) : InOrder(i) => Cardinality(Granted(i)) <= PassLimit
===============================================================================
