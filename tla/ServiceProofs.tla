------------------------------ MODULE ServiceProofs ------------------------------
(***************************************************************************)
(* Proofs about services that share nothing with one another: the keys of  *)
(* a platform (PlatformKeys), the broker client (MarketAccess), the event  *)
(* bus (EventBus), the sessions (Sessions), the rows of an account         *)
(* (UserAccounts), alerts (Incidents), the operators' script               *)
(* (SandboxRefund), prices (Pricing), the rate limiter (RateLimiter) and   *)
(* the listings (LedgerViews).  Each part has its own inductive invariant. *)
(***************************************************************************)
EXTENDS PlatformKeys, MarketAccess, EventBus, Sessions, UserAccounts,
        RateLimiter, LedgerViews, Incidents, SandboxRefund, Pricing,
        FiniteSetTheorems, TLAPS

-------------------------------------------------------------------------------
(***************************************************************************)
(* Proofs about PlatformKeys: for any number of rotations at a time, each  *)
(* ends all the keys issued before it began.                               *)
(*                                                                         *)
(* KeysRotated is not inductive: it says nothing of a rotation under way.  *)
(* The invariant adds that an active key which is older than an open       *)
(* rotation is still ahead of its UPDATE or locked by it.  A key that is   *)
(* inactive stays so, which lets the UPDATE skip it.                       *)
(***************************************************************************)

OldKeysAreOff ==
    \A k \in DOMAIN keys :
        keys[k].since < k /\ \A j \in 1 .. keys[k].since : ~keys[j].on

RotationCovers(c) ==
    rotation[c].open =>
        /\ rotation[c].since <= Len(keys)
        /\ \A j \in 1 .. rotation[c].since :
             keys[j].on => j \in rotation[c].todo \cup rotation[c].held

NewestIsOn == keys # <<>> => keys[Len(keys)].on

KeyInv ==
    /\ KeyTypeOK
    /\ OldKeysAreOff
    /\ \A c \in Rotators : RotationCovers(c)
    /\ NewestIsOn

RotationRow(n) == [open: BOOLEAN, todo: SUBSET (1 .. n), held: SUBSET (1 .. n), since: Nat]

-------------------------------------------------------------------------------
LEMMA KeyInitInv == KeyInit => KeyInv
BY DEF KeyInit, KeyInv, KeyTypeOK, OldKeysAreOff, RotationCovers, NewestIsOn, NoRotation

\* A step of a rotation that leaves the table alone.
LEMMA RotationOnly ==
    ASSUME KeyInv, NEW c \in Rotators, NEW r \in RotationRow(Len(keys)),
           rotation' = [rotation EXCEPT ![c] = r], UNCHANGED keys,
           r.open => /\ r.since <= Len(keys)
                     /\ \A j \in 1 .. r.since : keys[j].on => j \in r.todo \cup r.held
    PROVE  KeyInv'
<1>1. DOMAIN keys = 1 .. Len(keys)
  BY DEF KeyInv, KeyTypeOK
<1>2. KeyTypeOK'
  BY <1>1 DEF KeyInv, KeyTypeOK, RotationRow
<1>3. OldKeysAreOff' /\ NewestIsOn'
  BY DEF KeyInv, OldKeysAreOff, NewestIsOn
<1>4. ASSUME NEW d \in Rotators PROVE RotationCovers(d)'
  BY DEF KeyInv, KeyTypeOK, RotationCovers
<1> QED
  BY <1>2, <1>3, <1>4 DEF KeyInv

LEMMA KeyNextInv == KeyInv /\ [KeyNext]_keyVars => KeyInv'
<1> SUFFICES ASSUME KeyInv, [KeyNext]_keyVars PROVE KeyInv'
  OBVIOUS
<1>a. DOMAIN keys = 1 .. Len(keys) /\ Len(keys) \in Nat
  BY DEF KeyInv, KeyTypeOK
<1>b. NoRotation \in RotationRow(Len(keys)) /\ ~NoRotation.open
  BY DEF NoRotation, RotationRow
<1>c. ASSUME NEW c \in Rotators PROVE rotation[c] \in RotationRow(Len(keys))
  BY <1>a, <1>c DEF KeyInv, KeyTypeOK, RotationRow
<1>d. \A k \in 1 .. Len(keys) : keys[k] \in KeyRow
  BY <1>a DEF KeyInv, KeyTypeOK
<1>e. ASSUME NEW k \in 1 .. Len(keys)
      PROVE  /\ keys[k].since \in Nat /\ keys[k].since < k
             /\ \A j \in 1 .. keys[k].since : ~keys[j].on
  BY <1>a, <1>d DEF KeyInv, OldKeysAreOff, KeyRow
<1>1. CASE OnboardPlatform
  <2>1. keys = <<>> /\ keys' = <<NewKey(0)>> /\ UNCHANGED rotation
    BY <1>1 DEF OnboardPlatform
  <2>2. NewKey(0) \in KeyRow /\ NewKey(0).on /\ NewKey(0).since = 0
    BY KeyAssumption DEF NewKey, KeyRow
  <2>3. /\ keys' \in Seq(KeyRow) /\ Len(keys') = 1 /\ DOMAIN keys' = 1 .. 1
        /\ keys'[1] = NewKey(0) /\ Len(keys) = 0
    BY <2>1, <2>2
  <2>4. KeyTypeOK'
    BY <2>1, <2>3, <1>a DEF KeyInv, KeyTypeOK
  <2>5. OldKeysAreOff' /\ NewestIsOn'
    BY <2>2, <2>3 DEF OldKeysAreOff, NewestIsOn
  <2>6. ASSUME NEW c \in Rotators PROVE RotationCovers(c)'
    BY <2>1, <2>3, <1>c DEF KeyInv, RotationCovers, RotationRow
  <2> QED
    BY <2>4, <2>5, <2>6 DEF KeyInv
<1>2. ASSUME NEW c \in Rotators, StartRotation(c) PROVE KeyInv'
  <2> DEFINE r == [open |-> TRUE, todo |-> ToRevoke, held |-> {}, since |-> Len(keys)]
  <2>1. rotation' = [rotation EXCEPT ![c] = r] /\ UNCHANGED keys
    BY <1>2 DEF StartRotation
  <2>2. r \in RotationRow(Len(keys))
    BY <1>a DEF RotationRow, ToRevoke
  <2>3. r.since <= Len(keys)
    BY <1>a
  <2>4. \A j \in 1 .. r.since : keys[j].on => j \in r.todo \cup r.held
    BY <1>a DEF ToRevoke
  <2> HIDE DEF r
  <2> QED
    BY <2>1, <2>2, <2>3, <2>4, RotationOnly
<1>3. ASSUME NEW c \in Rotators, LockKey(c) PROVE KeyInv'
  <2>1. PICK k \in rotation[c].todo :
           rotation' = [rotation EXCEPT ![c].todo = @ \ {k},
                                        ![c].held = IF keys[k].on THEN @ \cup {k} ELSE @]
    BY <1>3 DEF LockKey
  <2> DEFINE r == [rotation[c] EXCEPT
                     !.todo = @ \ {k}, !.held = IF keys[k].on THEN @ \cup {k} ELSE @]
  <2>2. rotation' = [rotation EXCEPT ![c] = r]
    BY <2>1 DEF KeyInv, KeyTypeOK
  <2>3. r \in RotationRow(Len(keys))
    BY <1>c DEF RotationRow
  <2>4. r.open => /\ r.since <= Len(keys)
                  /\ \A j \in 1 .. r.since : keys[j].on => j \in r.todo \cup r.held
    BY <1>c DEF KeyInv, RotationCovers, RotationRow
  <2>5. UNCHANGED keys
    BY <1>3 DEF LockKey
  <2> HIDE DEF r
  <2> QED
    BY <2>2, <2>3, <2>4, <2>5, RotationOnly
<1>4. ASSUME NEW c \in Rotators, CommitRotation(c) PROVE KeyInv'
  <2> DEFINE n == Len(keys)
             s == rotation[c].since
  <2>1. /\ rotation[c].open /\ rotation[c].todo = {}
        /\ keys' = Append(Revoked(c), NewKey(s))
        /\ rotation' = [rotation EXCEPT ![c] = NoRotation]
    BY <1>4 DEF CommitRotation
  <2>2. Revoked(c) \in Seq(KeyRow) /\ Len(Revoked(c)) = n
    <3>1. Revoked(c) = [k \in 1 .. n |-> [keys[k] EXCEPT !.on = @ /\ k \notin rotation[c].held]]
      BY <1>a DEF Revoked
    <3>2. ASSUME NEW k \in 1 .. n
          PROVE  [keys[k] EXCEPT !.on = @ /\ k \notin rotation[c].held] \in KeyRow
      BY <1>d DEF KeyRow
    <3>3. Revoked(c) \in [1 .. n -> KeyRow]
      BY <3>1, <3>2
    <3> QED
      BY <3>1, <3>3, <1>a
  <2>3. NewKey(s) \in KeyRow /\ NewKey(s).on /\ NewKey(s).since = s
    BY KeyAssumption, <1>c DEF NewKey, KeyRow, RotationRow
  <2>4. keys' \in Seq(KeyRow) /\ Len(keys') = n + 1 /\ DOMAIN keys' = 1 .. n + 1
    BY <2>1, <2>2, <2>3, <1>a
  <2>5. keys'[n + 1] = NewKey(s)
    BY <2>1, <2>2, <2>3, <1>a
  <2>6. \A k \in 1 .. n : keys'[k] = [keys[k] EXCEPT !.on = @ /\ k \notin rotation[c].held]
    BY <2>1, <2>2, <2>3, <1>a DEF Revoked
  <2>7. \A k \in 1 .. n : /\ keys'[k].since = keys[k].since
                          /\ keys'[k].on <=> keys[k].on /\ k \notin rotation[c].held
    BY <2>6, <1>d DEF KeyRow
  <2>8. KeyTypeOK'
    <3>1. rotation' \in [Rotators -> RotationRow(n + 1)]
      BY <2>1, <1>a DEF KeyInv, KeyTypeOK, RotationRow, NoRotation
    <3> QED
      BY <3>1, <2>4 DEF KeyTypeOK, RotationRow
  <2>9. s \in Nat /\ s <= n /\ \A j \in 1 .. s : keys[j].on => j \in rotation[c].held
    BY <2>1, <1>c DEF KeyInv, RotationCovers, RotationRow
  <2>10. OldKeysAreOff'
    <3> SUFFICES ASSUME NEW k \in 1 .. n + 1
                 PROVE  /\ keys'[k].since < k
                        /\ \A j \in 1 .. keys'[k].since : ~keys'[j].on
      BY <2>4 DEF OldKeysAreOff
    <3>1. CASE k = n + 1
      BY <3>1, <2>3, <2>5, <2>7, <2>9, <1>a
    <3>2. CASE k \in 1 .. n
      <4>1. keys[k].since \in Nat /\ keys[k].since < k /\ \A j \in 1 .. keys[k].since : ~keys[j].on
        BY <3>2, <1>e
      <4> QED
        BY <3>2, <4>1, <2>7, <1>a
    <3> QED BY <3>1, <3>2, <1>a
  <2>11. NewestIsOn'
    BY <2>3, <2>4, <2>5 DEF NewestIsOn
  <2>12. ASSUME NEW d \in Rotators PROVE RotationCovers(d)'
    <3>1. CASE d = c
      BY <3>1, <2>1 DEF RotationCovers, NoRotation, KeyInv, KeyTypeOK
    <3>2. CASE d # c
      <4>1. rotation'[d] = rotation[d]
        BY <3>2, <2>1 DEF KeyInv, KeyTypeOK
      <4> QED
        BY <4>1, <2>4, <2>7, <1>a, <1>c DEF KeyInv, RotationCovers, RotationRow
    <3> QED BY <3>1, <3>2
  <2> QED
    BY <2>8, <2>10, <2>11, <2>12 DEF KeyInv
<1>5. ASSUME NEW c \in Rotators, AbortRotation(c) PROVE KeyInv'
  BY <1>5, <1>b, RotationOnly DEF AbortRotation
<1>6. CASE KeyTick
  <2>1. keys' = [k \in 1 .. Len(keys) |->
                   [keys[k] EXCEPT !.left = IF @ = 0 THEN 0 ELSE @ - 1]]
    BY <1>6, <1>a DEF KeyTick
  <2>2. keys' \in Seq(KeyRow) /\ Len(keys') = Len(keys) /\ DOMAIN keys' = DOMAIN keys
    <3>1. ASSUME NEW k \in 1 .. Len(keys)
          PROVE  [keys[k] EXCEPT !.left = IF @ = 0 THEN 0 ELSE @ - 1] \in KeyRow
      BY <1>d, KeyAssumption DEF KeyRow
    <3>2. keys' \in [1 .. Len(keys) -> KeyRow]
      BY <2>1, <3>1
    <3> QED
      BY <3>2, <2>1, <1>a
  <2>3. \A k \in DOMAIN keys : keys'[k].on = keys[k].on /\ keys'[k].since = keys[k].since
    BY <2>1, <1>a, <1>d DEF KeyRow
  <2>4. UNCHANGED rotation
    BY <1>6 DEF KeyTick
  <2>5. KeyTypeOK'
    BY <2>2, <2>4 DEF KeyInv, KeyTypeOK
  <2>6. OldKeysAreOff'
    <3> SUFFICES ASSUME NEW k \in DOMAIN keys
                 PROVE  /\ keys'[k].since < k
                        /\ \A j \in 1 .. keys'[k].since : ~keys'[j].on
      BY <2>2 DEF OldKeysAreOff
    <3>1. keys[k].since \in Nat /\ keys[k].since < k /\ \A j \in 1 .. keys[k].since : ~keys[j].on
      BY <1>a, <1>e
    <3> QED
      BY <3>1, <2>3, <1>a
  <2>7. NewestIsOn'
    BY <2>2, <2>3, <1>a DEF KeyInv, NewestIsOn, KeyTypeOK
  <2>8. ASSUME NEW d \in Rotators PROVE RotationCovers(d)'
    BY <2>2, <2>3, <2>4, <1>a, <1>c DEF KeyInv, RotationCovers, RotationRow
  <2> QED
    BY <2>5, <2>6, <2>7, <2>8 DEF KeyInv
<1>7. CASE UNCHANGED keyVars
  BY <1>7
  DEF keyVars, KeyInv, KeyTypeOK, OldKeysAreOff, RotationCovers, NewestIsOn
<1> QED
  BY <1>1, <1>2, <1>3, <1>4, <1>5, <1>6, <1>7 DEF KeyNext

-------------------------------------------------------------------------------
\* The table and every open transaction keep their types, and no rotation misses
\* an active key older than itself (rotate_key).
THEOREM KeyInvariance == KeySpec => []KeyInv
BY KeyInitInv, KeyNextInv, PTL DEF KeySpec

\* However rotations overlap, one that has committed has ended every key issued
\* before it began, and the newest key works until it expires (rotate_key,
\* validate_key).
THEOREM KeysRotatedAlways == KeySpec => []KeysRotated
<1>1. KeyInv => KeysRotated
  <2> SUFFICES ASSUME KeyInv PROVE KeysRotated
    OBVIOUS
  <2>1. ASSUME NEW k \in DOMAIN keys, NEW j \in 1 .. keys[k].since PROVE ~Accepted(j)
    BY <2>1 DEF KeyInv, OldKeysAreOff, Accepted
  <2>2. keys # <<>> => LET n == Len(keys) IN keys[n].left > 0 => Accepted(n)
    BY DEF KeyInv, NewestIsOn, Accepted
  <2> QED
    BY <2>1, <2>2 DEF KeysRotated
<1> QED
  BY <1>1, KeyInvariance, PTL

-------------------------------------------------------------------------------
(***************************************************************************)
(* Proofs about MarketAccess: with any number of requests at a time, a     *)
(* call to the broker carries a token that is good until it is answered,   *)
(* if the margin is at least two timeouts long.                            *)
(*                                                                         *)
(* One timeout may pass between the issue of a token and the moment from   *)
(* which its life is counted, another between taking it from the cache and *)
(* the answer to the call.  The invariant keeps account of both.           *)
(***************************************************************************)

CallRow == [at: CallPlaces, since: 0 .. Timeout, left: Nat]

\* What a request holds, by the time it has been waiting.
CallTimely(r) ==
    /\ r.at = "answer" => r.left <= TokenLife /\ r.left + r.since >= TokenLife
    /\ r.at = "send"   => r.left + r.since > Margin - Timeout
    /\ r.at = "data"   => r.left <= r.since

\* The recorded expiry is at most a timeout late.
CacheTimely ==
    /\ cached.due > 0 => cached.left >= cached.due + Margin - Timeout
    /\ quotes.entry < Ttl => quotes.data <= quotes.entry + Timeout

MarketInv == MarketTypeOK /\ CacheTimely /\ \A c \in Calls : CallTimely(call[c])

-------------------------------------------------------------------------------
LEMMA MarketInitInv == MarketInit => MarketInv
BY MarketAssumption
DEF MarketInit, MarketInv, MarketTypeOK, CacheTimely, CallTimely, NoQuotes, Idle, CallPlaces

\* A step of one request that leaves both caches alone.
LEMMA CallOnly ==
    ASSUME MarketInv, NEW c \in Calls, NEW r \in CallRow, CallTimely(r),
           call' = [call EXCEPT ![c] = r], UNCHANGED <<cached, quotes>>
    PROVE  MarketInv'
BY MarketAssumption DEF MarketInv, MarketTypeOK, CacheTimely, CallRow

LEMMA MarketNextInv == MarketInv /\ [MarketNext]_marketVars => MarketInv'
<1> SUFFICES ASSUME MarketInv, [MarketNext]_marketVars PROVE MarketInv'
  OBVIOUS
<1> USE MarketAssumption
<1>a. ASSUME NEW c \in Calls PROVE call[c] \in CallRow /\ CallTimely(call[c])
  BY <1>a DEF MarketInv, MarketTypeOK, CallRow
<1>b. Idle \in CallRow /\ CallTimely(Idle)
  BY DEF Idle, CallRow, CallPlaces, CallTimely
<1>1. CASE MarketTick
  <2>1. ASSUME NEW c \in Calls PROVE call'[c] \in CallRow /\ CallTimely(call'[c])
    <3>1. CASE ~InFlight(c)
      BY <1>1, <3>1, <1>a DEF MarketTick
    <3>2. CASE InFlight(c)
      <4> DEFINE r == call[c]
                 to == IF r.at = "data" THEN r.left + 1 ELSE Down(r.left)
      <4>1. r.since < Timeout /\ r \in CallRow /\ CallTimely(r)
        BY <1>1, <3>2, <1>a DEF MarketTick
      <4>2. call'[c] = [at |-> r.at, since |-> r.since + 1, left |-> to]
        BY <1>1, <3>2, <4>1 DEF MarketTick, CallRow
      <4>3. to \in Nat /\ (r.at = "data" => to = r.left + 1)
            /\ (r.at # "data" /\ r.left > 0 => to = r.left - 1)
            /\ (r.at # "data" => to <= r.left)
        BY <4>1 DEF CallRow, Down
      <4> HIDE DEF to
      <4>4. call'[c] \in CallRow
        BY <4>1, <4>2, <4>3 DEF CallRow
      <4>5. /\ call'[c].at = r.at /\ call'[c].since = r.since + 1
            /\ call'[c].left = to
        BY <4>1, <4>2 DEF CallRow
      <4>6. CallTimely(call'[c])
        BY <4>1, <4>3, <4>5 DEF CallTimely, CallRow
      <4> QED BY <4>4, <4>6
    <3> QED BY <3>1, <3>2
  <2>2. call' = [c \in Calls |-> call'[c]]
    BY <1>1 DEF MarketTick
  <2>3. /\ cached' = [left |-> Down(cached.left), due |-> Down(cached.due)]
        /\ quotes' = [data |-> UpTo(quotes.data, Ttl + Timeout), entry |-> UpTo(quotes.entry, Ttl)]
    BY <1>1 DEF MarketTick
  <2>4. MarketTypeOK'
    <3>1. cached' \in [left: 0 .. TokenLife, due: 0 .. TokenLife]
      BY <2>3 DEF MarketInv, MarketTypeOK, Down
    <3>2. quotes' \in [data: 0 .. Ttl + Timeout, entry: 0 .. Ttl]
      BY <2>3 DEF MarketInv, MarketTypeOK, UpTo
    <3>3. call' \in [Calls -> CallRow]
      BY <2>1, <2>2
    <3> QED
      BY <3>1, <3>2, <3>3 DEF MarketTypeOK, CallRow
  <2>5. CacheTimely'
    BY <2>3 DEF MarketInv, MarketTypeOK, CacheTimely, Down, UpTo
  <2> QED
    BY <2>1, <2>4, <2>5 DEF MarketInv
<1>2. ASSUME NEW c \in Calls, CallBroker(c) PROVE MarketInv'
  <2> DEFINE r == IF cached.due > 0 THEN [at |-> "send", since |-> 0, left |-> cached.left]
                                    ELSE [at |-> "ask", since |-> 0, left |-> 0]
  <2>1. r \in CallRow /\ CallTimely(r)
    BY DEF MarketInv, MarketTypeOK, CacheTimely, CallRow, CallPlaces, CallTimely
  <2>2. call' = [call EXCEPT ![c] = r] /\ UNCHANGED <<cached, quotes>>
    BY <1>2 DEF CallBroker, Put
  <2> HIDE DEF r
  <2> QED BY <2>1, <2>2, CallOnly
<1>3. ASSUME NEW c \in Calls, IssueToken(c) PROVE MarketInv'
  <2> DEFINE r == [call[c] EXCEPT !.at = "answer", !.left = TokenLife]
  <2>1. r \in CallRow /\ r.at = "answer" /\ r.since = call[c].since /\ r.left = TokenLife
    BY <1>a DEF CallRow, CallPlaces
  <2>2. call' = [call EXCEPT ![c] = r] /\ UNCHANGED <<cached, quotes>>
    BY <1>3 DEF IssueToken, MarketInv, MarketTypeOK
  <2> HIDE DEF r
  <2>3. CallTimely(r)
    BY <2>1 DEF CallRow, CallTimely
  <2> QED BY <2>1, <2>2, <2>3, CallOnly
<1>4. ASSUME NEW c \in Calls, ReadToken(c) PROVE MarketInv'
  <2> DEFINE r == [at |-> "send", since |-> 0, left |-> call[c].left]
  <2>1. /\ call[c].left \in 0 .. TokenLife
        /\ call[c].left >= TokenLife - Timeout
    BY <1>4, <1>a DEF ReadToken, CallRow, CallTimely
  <2>2. r \in CallRow /\ CallTimely(r)
    BY <2>1 DEF CallRow, CallPlaces, CallTimely
  <2>3. call' = [call EXCEPT ![c] = r] /\ UNCHANGED quotes
        /\ cached' = [left |-> call[c].left, due |-> TokenLife - Margin]
    BY <1>4 DEF ReadToken, Put, UsableFor
  <2> HIDE DEF r
  <2>4. MarketTypeOK'
    BY <2>1, <2>2, <2>3 DEF MarketInv, MarketTypeOK, CallRow
  <2>5. CacheTimely'
    BY <2>1, <2>3 DEF MarketInv, MarketTypeOK, CacheTimely
  <2>6. \A d \in Calls : CallTimely(call'[d])
    BY <2>2, <2>3, <1>a DEF MarketInv, MarketTypeOK
  <2> QED BY <2>4, <2>5, <2>6 DEF MarketInv
<1>5. ASSUME NEW c \in Calls, CallQuotes(c) PROVE MarketInv'
  <2> DEFINE r == [at |-> "quote", since |-> 0, left |-> 0]
  <2>1. r \in CallRow /\ CallTimely(r)
    BY DEF CallRow, CallPlaces, CallTimely
  <2>2. call' = [call EXCEPT ![c] = r] /\ UNCHANGED <<cached, quotes>>
    BY <1>5 DEF CallQuotes, Put
  <2> HIDE DEF r
  <2> QED BY <2>1, <2>2, CallOnly
<1>6. ASSUME NEW c \in Calls, ReadQuotes(c) PROVE MarketInv'
  <2> DEFINE r == [call[c] EXCEPT !.at = "data", !.left = 0]
  <2>1. r \in CallRow /\ r.at = "data" /\ r.since = call[c].since /\ r.left = 0
    BY <1>a DEF CallRow, CallPlaces
  <2>2. call' = [call EXCEPT ![c] = r] /\ UNCHANGED <<cached, quotes>>
    BY <1>6 DEF ReadQuotes, MarketInv, MarketTypeOK
  <2> HIDE DEF r
  <2>3. CallTimely(r)
    BY <2>1 DEF CallRow, CallTimely
  <2> QED BY <2>1, <2>2, <2>3, CallOnly
<1>7. ASSUME NEW c \in Calls, StoreQuotes(c) PROVE MarketInv'
  <2>1. /\ call' = [call EXCEPT ![c] = Idle] /\ UNCHANGED cached
        /\ quotes' = [data |-> call[c].left, entry |-> 0]
    BY <1>7 DEF StoreQuotes, Put, Idle
  <2>2. call[c].left \in 0 .. Timeout
    BY <1>7, <1>a DEF StoreQuotes, CallRow, CallTimely
  <2>3. MarketTypeOK'
    BY <2>1, <2>2, <1>b DEF MarketInv, MarketTypeOK, CallRow
  <2>4. CacheTimely'
    BY <2>1, <2>2 DEF MarketInv, MarketTypeOK, CacheTimely
  <2>5. \A d \in Calls : CallTimely(call'[d])
    BY <2>1, <1>a, <1>b DEF MarketInv, MarketTypeOK
  <2> QED BY <2>3, <2>4, <2>5 DEF MarketInv
<1>8. ASSUME NEW c \in Calls, EndCall(c) PROVE MarketInv'
  <2>1. call' = [call EXCEPT ![c] = Idle] /\ UNCHANGED <<cached, quotes>>
    BY <1>8 DEF EndCall, Put, Idle
  <2> QED BY <2>1, <1>b, CallOnly
<1>9. CASE UNCHANGED marketVars
  BY <1>9 DEF marketVars, MarketInv, MarketTypeOK, CacheTimely
<1> QED
  BY <1>1, <1>2, <1>3, <1>4, <1>5, <1>6, <1>7, <1>8, <1>9 DEF MarketNext

-------------------------------------------------------------------------------
\* Both caches and every request keep their types and what they hold the life it
\* was taken for, as long as a whole call ends within the timeout, which
\* MarketTick assumes (token, request, get_market_histories).
THEOREM MarketInvariance == MarketSpec => []MarketInv
BY MarketInitInv, MarketNextInv, PTL DEF MarketSpec

\* No call to the broker outlives its token, and no cached answer is older than
\* the TTL and a timeout, as long as a whole call ends within the timeout, which
\* MarketTick assumes (AlpacaBrokerClient.token, get_tradable_trading_assets).
THEOREM CallsAreTimelyAlways == MarketSpec => []CallsAreTimely
<1>1. MarketInv => CallsAreTimely
  BY MarketAssumption
  DEF MarketInv, MarketTypeOK, CacheTimely, CallTimely, CallsAreTimely
<1> QED
  BY <1>1, MarketInvariance, PTL

-------------------------------------------------------------------------------
(***************************************************************************)
(* Proofs about EventBus: the group loses no entry and calls the handler   *)
(* for none of them twice, for any number of workers, entries and faults.  *)
(*                                                                         *)
(* What makes Accounted inductive is that a batch belongs to the worker    *)
(* that has it: its entries are pending with that worker, are not beyond   *)
(* the cursor, and have not been handled except the one to acknowledge.    *)
(***************************************************************************)

BatchRow == [at: BusPlaces, next: Nat, last: Nat]
HasBatch(w) == worker[w].at \in {"handle", "ack"}

BatchOK(w) ==
    HasBatch(w) =>
        /\ worker[w].next >= 1 /\ worker[w].last <= cursor
        /\ worker[w].at = "ack" => worker[w].next <= worker[w].last
        /\ \A e \in worker[w].next .. worker[w].last :
             /\ owner[e] = w
             /\ ran[e] = IF worker[w].at = "ack" /\ e = worker[w].next THEN 1 ELSE 0

\* Nothing is delivered before there is a group.
GroupOK == ~group => cursor = 0 /\ \A w \in Consumers : worker[w].at = "off"

CursorOK ==
    /\ cursor <= stream
    /\ \A e \in Entries : e > cursor => ran[e] = 0

BusInv ==
    /\ BusTypeOK
    /\ GroupOK
    /\ CursorOK
    /\ \A w \in Consumers : BatchOK(w)
    /\ Accounted

-------------------------------------------------------------------------------
LEMMA BusInitInv == BusInit => BusInv
<1> SUFFICES ASSUME BusInit PROVE BusInv
  OBVIOUS
<1> USE BusAssumption DEF BusInit
<1>0. owner = [e \in Entries |-> NoOne] /\ ran = [e \in Entries |-> 0]
  OBVIOUS
<1>1. NoBatch \in BatchRow /\ NoBatch.at = "off"
  BY DEF NoBatch, BatchRow, BusPlaces
<1>2. BusTypeOK
  <2>1. worker \in [Consumers -> BatchRow]
    BY <1>1
  <2>2. /\ stream \in 0 .. MaxEntries /\ cursor \in 0 .. MaxEntries /\ faults \in Nat
    OBVIOUS
  <2>4. group \in BOOLEAN /\ done \subseteq Entries
    OBVIOUS
  <2>5. ran \in [Entries -> Nat]
    BY <1>0
  <2>3. owner \in [Entries -> Consumers \cup {NoOne}]
    BY <1>0
  <2> QED
    BY <2>1, <2>2, <2>3, <2>4, <2>5 DEF BusTypeOK, BatchRow
<1>3. GroupOK /\ CursorOK /\ \A w \in Consumers : BatchOK(w)
  BY <1>1 DEF GroupOK, CursorOK, BatchOK, HasBatch, Entries
<1>4. Accounted
  BY DEF Accounted, Entries
<1> QED
  BY <1>2, <1>3, <1>4 DEF BusInv

\* A worker that waits, stops or dies has no batch.
LEMMA WithoutBatch ==
    ASSUME BusInv, NEW w \in Consumers, NEW to \in {"off", "read", "sleep"},
           PutWorker(w, to), to # "off" => group,
           UNCHANGED <<stream, group, cursor, owner, ran, done>>, faults' \in Nat
    PROVE  BusInv'
<1>1. worker' = [worker EXCEPT ![w] = [at |-> to, next |-> 1, last |-> 0]]
  <2>1. [NoBatch EXCEPT !.at = to] = [at |-> to, next |-> 1, last |-> 0]
    BY DEF NoBatch
  <2> QED BY <2>1 DEF PutWorker
<1>2. BusTypeOK'
  BY <1>1 DEF BusInv, BusTypeOK, BusPlaces
<1>3. GroupOK'
  BY <1>1 DEF BusInv, BusTypeOK, GroupOK
<1>4. CursorOK' /\ Accounted'
  BY DEF BusInv, CursorOK, Accounted
<1>5. ASSUME NEW v \in Consumers PROVE BatchOK(v)'
  BY <1>1 DEF BusInv, BusTypeOK, BatchOK, HasBatch
<1> QED
  BY <1>2, <1>3, <1>4, <1>5 DEF BusInv

\* Redis assigns the next entries, whether the answer arrives or not.
LEMMA Assigned ==
    ASSUME BusInv, NEW w \in Consumers, Assign(w), NEW b \in BatchRow,
           worker' = [worker EXCEPT ![w] = b],
           \/ b = [at |-> "handle", next |-> cursor + 1, last |-> Upto]
           \/ b.at = "sleep",
           UNCHANGED <<stream, group, ran, done>>, faults' \in Nat
    PROVE  BusInv'
<1> USE BusAssumption
<1>1. /\ cursor \in Nat /\ stream \in Nat /\ stream <= MaxEntries
      /\ cursor < stream /\ worker[w].at = "read"
  BY DEF BusInv, BusTypeOK, Assign
<1>2. Upto \in Nat /\ cursor < Upto /\ Upto <= stream
  BY <1>1 DEF Upto
<1>3. /\ cursor' = Upto
      /\ owner' = [e \in Entries |-> IF e \in (cursor + 1) .. Upto THEN w ELSE owner[e]]
  BY DEF Assign, NextBatch
<1>4. BusTypeOK'
  BY <1>1, <1>2, <1>3 DEF BusInv, BusTypeOK, BatchRow
<1>5. GroupOK'
  BY <1>1 DEF BusInv, GroupOK
<1>6. CursorOK'
  BY <1>1, <1>2, <1>3 DEF BusInv, CursorOK, Entries
<1>7. Accounted'
  <2> SUFFICES ASSUME NEW e \in Entries
               PROVE  /\ ran[e] <= 1
                      /\ e \in done => ran[e] = 1 /\ owner'[e] = NoOne
                      /\ e <= cursor' <=> (e \in done \/ owner'[e] # NoOne)
    BY DEF Accounted
  <2>1. /\ ran[e] <= 1
        /\ e \in done => ran[e] = 1 /\ owner[e] = NoOne
        /\ e <= cursor <=> (e \in done \/ owner[e] # NoOne)
    BY DEF BusInv, Accounted
  <2>2. e \in Nat
    BY DEF Entries
  <2>3. CASE e \in (cursor + 1) .. Upto
    BY <2>1, <2>2, <2>3, <1>1, <1>2, <1>3
  <2>4. CASE e \notin (cursor + 1) .. Upto
    BY <2>1, <2>2, <2>4, <1>1, <1>2, <1>3
  <2> QED BY <2>3, <2>4
<1>8. ASSUME NEW v \in Consumers PROVE BatchOK(v)'
  <2>1. CASE v = w /\ b.at = "sleep"
    BY <2>1 DEF BatchOK, HasBatch, BusInv, BusTypeOK
  <2>2. CASE v = w /\ b = [at |-> "handle", next |-> cursor + 1, last |-> Upto]
    <3>1. /\ worker'[v].at = "handle" /\ worker'[v].next = cursor + 1
          /\ worker'[v].last = Upto
      BY <2>2 DEF BusInv, BusTypeOK
    <3>2. ASSUME NEW e \in (cursor + 1) .. Upto
          PROVE  owner'[e] = v /\ ran'[e] = 0
      <4>1. e \in Entries /\ e > cursor
        BY <1>1, <1>2 DEF Entries
      <4> QED
        BY <2>2, <4>1, <1>3 DEF BusInv, CursorOK
    <3> QED
      BY <3>1, <3>2, <1>1, <1>2, <1>3 DEF BatchOK, HasBatch
  <2>3. CASE v # w
    <3>1. worker'[v] = worker[v] /\ worker[v] \in BatchRow
      BY <2>3 DEF BusInv, BusTypeOK, BatchRow
    <3> SUFFICES ASSUME HasBatch(v)
                 PROVE  BatchOK(v)'
      BY <3>1 DEF BatchOK, HasBatch
    <3>2. /\ worker[v].next >= 1 /\ worker[v].last <= cursor
          /\ worker[v].at = "ack" => worker[v].next <= worker[v].last
          /\ \A e \in worker[v].next .. worker[v].last :
               /\ owner[e] = v
               /\ ran[e] = IF worker[v].at = "ack" /\ e = worker[v].next THEN 1 ELSE 0
      BY DEF BusInv, BatchOK
    <3>3. ASSUME NEW e \in worker[v].next .. worker[v].last
          PROVE  owner'[e] = owner[e]
      <4>1. e \in Entries /\ e \notin (cursor + 1) .. Upto
        BY <3>1, <3>2, <1>1, <1>2 DEF Entries, BatchRow
      <4> QED BY <4>1, <1>3
    <3> QED
      BY <3>1, <3>2, <3>3, <1>1, <1>2, <1>3 DEF BatchOK, HasBatch, BatchRow
  <2> QED BY <2>1, <2>2, <2>3
<1> QED
  BY <1>4, <1>5, <1>6, <1>7, <1>8 DEF BusInv

LEMMA BusNextInv == BusInv /\ [BusNext]_busVars => BusInv'
<1> SUFFICES ASSUME BusInv, [BusNext]_busVars PROVE BusInv'
  OBVIOUS
<1> USE BusAssumption
<1>a. ASSUME NEW w \in Consumers PROVE worker[w] \in BatchRow /\ BatchOK(w)
  BY <1>a DEF BusInv, BusTypeOK, BatchRow
<1>b. /\ stream \in Nat /\ cursor \in Nat /\ faults \in Nat /\ stream <= MaxEntries
      /\ cursor <= stream
  BY DEF BusInv, BusTypeOK, CursorOK
<1>c. ASSUME NEW w \in Consumers, worker[w].at # "off" PROVE group
  BY <1>c DEF BusInv, GroupOK
<1>d. ASSUME NEW w \in Consumers, HasBatch(w),
             NEW e \in worker[w].next .. worker[w].last
      PROVE  /\ e \in Entries /\ e <= cursor /\ e \notin done
             /\ owner[e] = w /\ owner[e] # NoOne
             /\ ran[e] = IF worker[w].at = "ack" /\ e = worker[w].next THEN 1 ELSE 0
  BY <1>a, <1>b, <1>d DEF BatchOK, BatchRow, Entries, BusInv, Accounted
<1>1. CASE Publish
  <2>1. stream' \in 0 .. MaxEntries /\ stream' = stream + 1
    BY <1>1, <1>b DEF Publish
  <2>2. UNCHANGED <<group, cursor, owner, worker, ran, done, faults>>
    BY <1>1 DEF Publish
  <2>3. BusTypeOK' /\ GroupOK' /\ CursorOK'
    BY <2>1, <2>2, <1>b DEF BusInv, BusTypeOK, GroupOK, CursorOK
  <2>4. Accounted' /\ \A w \in Consumers : BatchOK(w)'
    BY <2>2 DEF BusInv, BatchOK, HasBatch, Accounted
  <2> QED BY <2>3, <2>4 DEF BusInv
<1>2. ASSUME NEW w \in Consumers, StartWorker(w) PROVE BusInv'
  <2>1. worker' = [worker EXCEPT ![w] = [NoBatch EXCEPT !.at = "read"]]
        /\ group' = TRUE /\ UNCHANGED <<stream, owner, ran, done, faults>>
    BY <1>2 DEF StartWorker, PutWorker
  <2>2. cursor' = cursor
    BY <1>2 DEF StartWorker, GroupStart, BusInv, GroupOK
  <2>3. [NoBatch EXCEPT !.at = "read"] = [at |-> "read", next |-> 1, last |-> 0]
    BY DEF NoBatch
  <2>4. BusTypeOK'
    BY <2>1, <2>2, <2>3 DEF BusInv, BusTypeOK, BusPlaces
  <2>5. GroupOK' /\ CursorOK' /\ Accounted'
    BY <2>1, <2>2 DEF BusInv, GroupOK, CursorOK, Accounted
  <2>6. ASSUME NEW v \in Consumers PROVE BatchOK(v)'
    BY <2>1, <2>2, <2>3 DEF BusInv, BusTypeOK, BatchOK, HasBatch
  <2> QED BY <2>4, <2>5, <2>6 DEF BusInv
<1>3. ASSUME NEW w \in Consumers, ReadBatch(w) PROVE BusInv'
  <2> DEFINE b == [at |-> "handle", next |-> cursor + 1, last |-> Upto]
  <2>1. b \in BatchRow
    BY <1>b DEF BatchRow, BusPlaces, Upto
  <2>2. Assign(w) /\ worker' = [worker EXCEPT ![w] = b]
    BY <1>3 DEF ReadBatch
  <2>3. UNCHANGED <<stream, group, ran, done>> /\ faults' \in Nat
    BY <1>3, <1>b DEF ReadBatch
  <2> QED BY <2>1, <2>2, <2>3, Assigned
<1>4. ASSUME NEW w \in Consumers, ReadIsLost(w) PROVE BusInv'
  <2> DEFINE b == [NoBatch EXCEPT !.at = "sleep"]
  <2>1. b \in BatchRow /\ b.at = "sleep"
    BY DEF NoBatch, BatchRow, BusPlaces
  <2>2. Assign(w) /\ worker' = [worker EXCEPT ![w] = b]
    BY <1>4 DEF ReadIsLost, PutWorker
  <2>3. UNCHANGED <<stream, group, ran, done>> /\ faults' \in Nat
    BY <1>4, <1>b DEF ReadIsLost, Fault
  <2> HIDE DEF b
  <2> QED BY <2>1, <2>2, <2>3, Assigned
<1>5. ASSUME NEW w \in Consumers,
             NEW to \in {"off", "read", "sleep"}, PutWorker(w, to),
             to # "off" => worker[w].at # "off",
             UNCHANGED <<stream, group, cursor, owner, ran, done>>, faults' \in Nat
      PROVE  BusInv'
  BY <1>5, <1>c, WithoutBatch
<1>6. ASSUME NEW w \in Consumers,
             Wake(w) \/ FinishBatch(w) \/ ReadFails(w) \/ WorkerDies(w)
      PROVE  BusInv'
  <2>1. /\ UNCHANGED <<stream, group, cursor, owner, ran, done>> /\ faults' \in Nat
        /\ worker[w].at # "off"
    BY <1>6, <1>b DEF Wake, FinishBatch, ReadFails, WorkerDies, Fault
  <2>2. PutWorker(w, "read") \/ PutWorker(w, "sleep") \/ PutWorker(w, "off")
    BY <1>6 DEF Wake, FinishBatch, ReadFails, WorkerDies
  <2> QED BY <2>1, <2>2, <1>5
<1>7. ASSUME NEW w \in Consumers, StartFails(w) PROVE BusInv'
  <2>1. UNCHANGED <<stream, group, cursor, owner, worker, ran, done>> /\ faults' \in Nat
    BY <1>7, <1>b DEF StartFails, Fault
  <2> QED
    BY <2>1 DEF BusInv, BusTypeOK, GroupOK, CursorOK, BatchOK, HasBatch, Accounted
<1>8. ASSUME NEW w \in Consumers, HandleEntry(w) PROVE BusInv'
  <2> DEFINE b == worker[w]
             n == worker[w].next
  <2>1. /\ b.at = "handle" /\ n <= b.last /\ HasBatch(w) /\ b \in BatchRow /\ n >= 1
        /\ b.last <= cursor
    BY <1>8, <1>a DEF HandleEntry, HasBatch, BatchOK
  <2>2. n \in b.next .. b.last /\ n \in Nat /\ b.last \in Nat
    BY <2>1 DEF BatchRow
  <2>3. n \in Entries /\ n <= cursor /\ n \notin done /\ owner[n] = w /\ ran[n] = 0
    BY <2>1, <2>2, <1>d
  <2>4. PICK r \in BatchRow :
          /\ worker' = [worker EXCEPT ![w] = r]
          /\ r.last = b.last
          /\ \/ r.at = "ack" /\ r.next = n
             \/ r.at = "handle" /\ r.next = n + 1
    <3>1. CASE worker' = [worker EXCEPT ![w].at = "ack"]
      <4> DEFINE r == [b EXCEPT !.at = "ack"]
      <4>1. r \in BatchRow /\ r.last = b.last /\ r.at = "ack" /\ r.next = n
        BY <2>1 DEF BatchRow, BusPlaces
      <4>2. worker' = [worker EXCEPT ![w] = r]
        BY <3>1
      <4> QED BY <4>1, <4>2
    <3>2. CASE worker' = [worker EXCEPT ![w].next = @ + 1]
      <4> DEFINE r == [b EXCEPT !.next = n + 1]
      <4>1. r \in BatchRow /\ r.last = b.last /\ r.at = "handle" /\ r.next = n + 1
        BY <2>1, <2>2 DEF BatchRow
      <4>2. worker' = [worker EXCEPT ![w] = r]
        BY <3>2
      <4> QED BY <4>1, <4>2
    <3> QED BY <3>1, <3>2, <1>8 DEF HandleEntry
  <2>5. /\ UNCHANGED <<stream, group, cursor, owner, done, faults>>
        /\ ran' = [ran EXCEPT ![n] = @ + 1]
    BY <1>8 DEF HandleEntry
  <2>6. /\ ran' \in [Entries -> Nat] /\ ran'[n] = 1
        /\ \A e \in Entries : e # n => ran'[e] = ran[e]
    BY <2>3, <2>5 DEF BusInv, BusTypeOK
  <2>7. BusTypeOK'
    BY <2>4, <2>5, <2>6 DEF BusInv, BusTypeOK, BatchRow
  <2>8. GroupOK'
    BY <2>1, <2>5, <1>c DEF GroupOK
  <2>9. CursorOK'
    BY <2>3, <2>5, <2>6, <1>b DEF BusInv, CursorOK, Entries
  <2>10. Accounted'
    <3> SUFFICES ASSUME NEW e \in Entries
                 PROVE  /\ ran'[e] <= 1
                        /\ e \in done => ran'[e] = 1 /\ owner[e] = NoOne
                        /\ e <= cursor <=> (e \in done \/ owner[e] # NoOne)
      BY <2>5 DEF Accounted
    <3> QED
      BY <2>3, <2>6 DEF BusInv, Accounted
  <2>11. ASSUME NEW v \in Consumers PROVE BatchOK(v)'
    <3>1. CASE v = w
      <4>1. worker'[v] = r
        BY <3>1, <2>4 DEF BusInv, BusTypeOK
      <4>2. r.next \in Nat /\ r.next >= 1 /\ r.last <= cursor'
            /\ (r.at = "ack" => r.next <= r.last)
        BY <2>1, <2>2, <2>4, <2>5
      <4>3. ASSUME NEW e \in r.next .. r.last
            PROVE  owner'[e] = v /\ ran'[e] = IF r.at = "ack" /\ e = r.next THEN 1 ELSE 0
        <5>1. e \in b.next .. b.last /\ (e = n <=> r.at = "ack" /\ e = r.next)
          BY <2>2, <2>4
        <5>2. e \in Entries /\ owner[e] = w /\ ran[e] = 0
          BY <5>1, <2>1, <1>d
        <5> QED
          BY <5>1, <5>2, <2>5, <2>6, <3>1
      <4> QED
        BY <4>1, <4>2, <4>3 DEF BatchOK, HasBatch
    <3>2. CASE v # w
      <4>1. worker'[v] = worker[v]
        BY <3>2, <2>4 DEF BusInv, BusTypeOK
      <4> SUFFICES ASSUME HasBatch(v) PROVE BatchOK(v)'
        BY <4>1 DEF BatchOK, HasBatch
      <4>2. ASSUME NEW e \in worker[v].next .. worker[v].last PROVE ran'[e] = ran[e]
        BY <3>2, <1>d, <2>3, <2>6
      <4> QED
        BY <4>1, <4>2, <1>a, <2>5 DEF BatchOK, HasBatch
    <3> QED BY <3>1, <3>2
  <2> QED
    BY <2>7, <2>8, <2>9, <2>10, <2>11 DEF BusInv
<1>9. ASSUME NEW w \in Consumers, AckEntry(w) PROVE BusInv'
  <2> DEFINE b == worker[w]
             n == worker[w].next
             r == [worker[w] EXCEPT !.at = "handle", !.next = n + 1]
  <2>1. b.at = "ack" /\ HasBatch(w) /\ b \in BatchRow /\ n >= 1 /\ n <= b.last /\ b.last <= cursor
    BY <1>9, <1>a DEF AckEntry, HasBatch, BatchOK
  <2>2. n \in b.next .. b.last /\ n \in Nat /\ b.last \in Nat
    BY <2>1 DEF BatchRow
  <2>3. n \in Entries /\ n <= cursor /\ n \notin done /\ owner[n] = w /\ ran[n] = 1
    BY <2>1, <2>2, <1>d
  <2>4. /\ worker' = [worker EXCEPT ![w] = r] /\ r \in BatchRow
        /\ r.at = "handle" /\ r.next = n + 1 /\ r.last = b.last
    <3>1. worker[w] \in [at: BusPlaces, next: Nat, last: Nat] /\ n + 1 \in Nat
      BY <2>1, <2>2 DEF BatchRow
    <3>2. r \in BatchRow /\ r.at = "handle" /\ r.next = n + 1 /\ r.last = b.last
      BY <3>1 DEF BatchRow, BusPlaces
    <3>3. worker' = [worker EXCEPT ![w] = r]
      BY <1>9 DEF AckEntry
    <3> HIDE DEF r
    <3> QED BY <3>2, <3>3
  <2> HIDE DEF r
  <2>5. UNCHANGED <<stream, group, cursor, ran, faults>>
    BY <1>9 DEF AckEntry
  <2>6. \/ /\ owner' = [owner EXCEPT ![n] = NoOne] /\ done' = done \cup {n}
        \/ owner' = owner /\ done' = done
    BY <1>9 DEF AckEntry
  <2>7. /\ owner' \in [Entries -> Consumers \cup {NoOne}]
        /\ \A e \in Entries : e # n => owner'[e] = owner[e]
    BY <2>6 DEF BusInv, BusTypeOK
  <2>8. BusTypeOK'
    BY <2>3, <2>4, <2>5, <2>6, <2>7 DEF BusInv, BusTypeOK, BatchRow
  <2>9. GroupOK' /\ CursorOK'
    BY <2>1, <2>5, <1>c DEF BusInv, GroupOK, CursorOK
  <2>10. Accounted'
    <3> SUFFICES ASSUME NEW e \in Entries
                 PROVE  /\ ran[e] <= 1
                        /\ e \in done' => ran[e] = 1 /\ owner'[e] = NoOne
                        /\ e <= cursor <=> (e \in done' \/ owner'[e] # NoOne)
      BY <2>5 DEF Accounted
    <3>1. /\ ran[e] <= 1
          /\ e \in done => ran[e] = 1 /\ owner[e] = NoOne
          /\ e <= cursor <=> (e \in done \/ owner[e] # NoOne)
      BY DEF BusInv, Accounted
    <3>2. CASE e = n
      BY <3>1, <3>2, <2>3, <2>6 DEF BusInv, BusTypeOK
    <3>3. CASE e # n
      BY <3>1, <3>3, <2>6, <2>7
    <3> QED BY <3>2, <3>3
  <2>11. ASSUME NEW v \in Consumers PROVE BatchOK(v)'
    <3>1. CASE v = w
      <4>1. worker'[v] = r
        BY <3>1, <2>4 DEF BusInv, BusTypeOK
      <4>2. ASSUME NEW e \in n + 1 .. b.last
            PROVE  owner'[e] = v /\ ran'[e] = 0
        <5>1. e \in b.next .. b.last /\ e # n
          BY <2>2
        <5>2. e \in Entries /\ owner[e] = w /\ ran[e] = 0
          BY <5>1, <2>1, <1>d
        <5> QED
          BY <5>1, <5>2, <2>5, <2>7, <3>1
      <4> QED
        BY <4>1, <4>2, <2>1, <2>2, <2>4, <2>5 DEF BatchOK, HasBatch
    <3>2. CASE v # w
      <4>1. worker'[v] = worker[v]
        BY <3>2, <2>4 DEF BusInv, BusTypeOK
      <4> SUFFICES ASSUME HasBatch(v) PROVE BatchOK(v)'
        BY <4>1 DEF BatchOK, HasBatch
      <4>2. ASSUME NEW e \in worker[v].next .. worker[v].last PROVE owner'[e] = owner[e]
        BY <3>2, <1>d, <2>3, <2>7
      <4> QED
        BY <4>1, <4>2, <1>a, <2>5 DEF BatchOK, HasBatch
    <3> QED BY <3>1, <3>2
  <2> QED
    BY <2>8, <2>9, <2>10, <2>11 DEF BusInv
<1>10. CASE UNCHANGED busVars
  BY <1>10
  DEF busVars, BusInv, BusTypeOK, GroupOK, CursorOK, BatchOK, HasBatch, Accounted
<1> QED
  BY <1>1, <1>2, <1>3, <1>4, <1>6, <1>7, <1>8, <1>9, <1>10
  DEF BusNext, WorkerStep, WorkerFault

-------------------------------------------------------------------------------
\* The stream, the group and the workers keep their types, and every batch under
\* way is still pending with its worker (EventConsumer.consume).
THEOREM BusInvariance == BusSpec => []BusInv
BY BusInitInv, BusNextInv, PTL DEF BusSpec

\* What the group has passed was handled once and acknowledged, or is owed by one
\* consumer, whatever fails (EventConsumer.consume, worker.py).
THEOREM AccountedAlways == BusSpec => []Accounted
<1>1. BusInv => Accounted
  BY DEF BusInv
<1> QED
  BY <1>1, BusInvariance, PTL

-------------------------------------------------------------------------------
(***************************************************************************)
(* Proofs about the account of a user: what it gives access to (Sessions)  *)
(* and the rows it owns (UserAccounts), for any number of requests.        *)
(*                                                                         *)
(* AccessEnds is not inductive: a request that has passed the check of     *)
(* is_active may issue a new token at any later moment.  What bounds it is *)
(* that such a request has been running since before the account was       *)
(* disabled, so that the account has been off no longer than it runs.      *)
(*                                                                         *)
(* Of the rows, requests know what they read some time ago.  That is       *)
(* enough because an account, once there, stays the only one of its user.  *)
(***************************************************************************)

Admitted(v) == visit[v].at \in {"issueBoth", "issueAccess", "moving"}

\* A request that was admitted is older than the end of the account.
AdmittedBefore == \A v \in Visits : Admitted(v) => off <= visit[v].since

\* No access token outlives one that was issued at the last moment.
TokensRunOut == access > 0 => off + access <= AccessLife + Lag

SessionInv == SessionTypeOK /\ (~enabled => AdmittedBefore /\ TokensRunOut)

-------------------------------------------------------------------------------
LEMMA SessionInitInv == SessionInit => SessionInv
BY SessionAssumption
DEF SessionInit, SessionInv, SessionTypeOK, VisitPlaces, Away

\* A request that arrives or ends, admits nobody.
LEMMA VisitsOnly ==
    ASSUME SessionInv, NEW v \in Visits, NEW w \in [at: VisitPlaces, since: 0 .. Lag],
           visit' = [visit EXCEPT ![v] = w],
           w.at \in {"issueBoth", "issueAccess", "moving"} => enabled,
           UNCHANGED <<enabled, off, access>>, renewal' \in 0 .. RefreshLife
    PROVE  SessionInv'
BY SessionAssumption
DEF SessionInv, SessionTypeOK, AdmittedBefore, TokensRunOut, Admitted

LEMMA SessionNextInv == SessionInv /\ [SessionNext]_sessionVars => SessionInv'
<1> SUFFICES ASSUME SessionInv, [SessionNext]_sessionVars PROVE SessionInv'
  OBVIOUS
<1> USE SessionAssumption
<1>a. Away \in [at: VisitPlaces, since: 0 .. Lag]
  BY DEF Away, VisitPlaces
<1>1. CASE SessionTick
  <2>1. SessionTypeOK'
    BY <1>1, <1>a DEF SessionInv, SessionTypeOK, SessionTick, Less
  <2>2. ASSUME ~enabled PROVE AdmittedBefore'
    <3>1. off' <= off + 1
      BY <1>1 DEF SessionInv, SessionTypeOK, SessionTick
    <3>2. ASSUME NEW v \in Visits, Admitted(v)'
          PROVE  off' <= visit'[v].since
      <4>1. off <= visit[v].since /\ visit'[v].since = visit[v].since + 1
        BY <1>1, <2>2, <3>2
        DEF SessionInv, SessionTypeOK, SessionTick, AdmittedBefore, Admitted, Away
      <4>2. off \in Nat /\ off' \in Nat /\ visit[v].since \in Nat
        BY <2>1 DEF SessionInv, SessionTypeOK
      <4> QED
        BY <3>1, <4>1, <4>2
    <3> QED
      BY <3>2 DEF AdmittedBefore
  <2>3. ASSUME ~enabled PROVE TokensRunOut'
    BY <1>1, <2>3 DEF SessionInv, SessionTypeOK, SessionTick, TokensRunOut, Less
  <2> QED
    BY <1>1, <2>1, <2>2, <2>3 DEF SessionInv, SessionTick
<1>2. ASSUME NEW on \in BOOLEAN, SetEnabled(on) PROVE SessionInv'
  BY <1>2
  DEF SessionInv, SessionTypeOK, AdmittedBefore, TokensRunOut, Admitted, SetEnabled
<1>3. ASSUME NEW v \in Visits, Arrive(v) PROVE SessionInv'
  <2>1. PICK to \in {"login", "exchange", "refresh", "transfer"} :
           visit' = [visit EXCEPT ![v] = [at |-> to, since |-> 0]]
    BY <1>3 DEF Arrive
  <2>2. UNCHANGED <<enabled, off, access>> /\ renewal' \in 0 .. RefreshLife
    BY <1>3 DEF Arrive, SessionInv, SessionTypeOK
  <2> DEFINE w == [at |-> to, since |-> 0]
  <2>3. w \in [at: VisitPlaces, since: 0 .. Lag]
    BY DEF VisitPlaces
  <2>4. w.at \notin {"issueBoth", "issueAccess", "moving"}
    OBVIOUS
  <2>5. visit' = [visit EXCEPT ![v] = w]
    BY <2>1
  <2> HIDE DEF w
  <2> QED
    BY <2>2, <2>3, <2>4, <2>5, VisitsOnly
<1>4. ASSUME NEW v \in Visits, ReadUser(v) PROVE SessionInv'
  <2>1. PICK w \in [at: VisitPlaces, since: 0 .. Lag] :
           /\ visit' = [visit EXCEPT ![v] = w]
           /\ w.at \in {"issueBoth", "issueAccess", "moving"} => enabled
    <3>1. CASE enabled
      <4> DEFINE to == CASE visit[v].at = "login"    -> "issueBoth"
                         [] visit[v].at = "transfer" -> "moving"
                         [] OTHER                    -> "issueAccess"
      <4>1. to \in VisitPlaces
        BY DEF VisitPlaces
      <4>2. visit' = [visit EXCEPT ![v] = [visit[v] EXCEPT !.at = to]]
        BY <1>4, <3>1 DEF ReadUser, Admits, PutVisit
      <4>3. [visit[v] EXCEPT !.at = to] \in [at: VisitPlaces, since: 0 .. Lag]
        BY <4>1 DEF SessionInv, SessionTypeOK
      <4> HIDE DEF to
      <4> QED BY <3>1, <4>2, <4>3
    <3>2. CASE ~enabled
      BY <1>4, <3>2, <1>a DEF ReadUser, Admits, Leave, Away
    <3> QED BY <3>1, <3>2
  <2>2. UNCHANGED <<enabled, off, access>> /\ renewal' \in 0 .. RefreshLife
    BY <1>4 DEF ReadUser, SessionInv, SessionTypeOK
  <2> QED
    BY <2>1, <2>2, VisitsOnly
<1>5. ASSUME NEW v \in Visits, Issue(v) PROVE SessionInv'
  <2>1. SessionTypeOK'
    BY <1>5, <1>a DEF SessionInv, SessionTypeOK, Issue, Leave, Longest
  <2>2. ASSUME ~enabled PROVE off <= Lag
    BY <1>5, <2>2 DEF SessionInv, SessionTypeOK, AdmittedBefore, Admitted, Issue
  <2>3. ASSUME ~enabled PROVE AdmittedBefore' /\ TokensRunOut'
    BY <1>5, <2>2, <2>3
    DEF SessionInv, SessionTypeOK, AdmittedBefore, TokensRunOut, Admitted, Issue, Leave, Away
  <2> QED
    BY <1>5, <2>1, <2>3 DEF SessionInv, Issue
<1>6. ASSUME NEW v \in Visits, LeaveVisit(v) PROVE SessionInv'
  <2>1. /\ visit' = [visit EXCEPT ![v] = Away]
        /\ UNCHANGED <<enabled, off, access>> /\ renewal' \in 0 .. RefreshLife
    BY <1>6 DEF LeaveVisit, Leave, SessionInv, SessionTypeOK
  <2> QED
    BY <2>1, <1>a, VisitsOnly DEF Away
<1>7. CASE UNCHANGED sessionVars
  BY <1>7
  DEF sessionVars, SessionInv, SessionTypeOK, AdmittedBefore, TokensRunOut, Admitted
<1> QED
  BY <1>1, <1>2, <1>3, <1>4, <1>5, <1>6, <1>7 DEF SessionNext

-------------------------------------------------------------------------------
\* Every variable keeps its type, the lifetimes their bounds, and a request that
\* was admitted is older than the end of the account (refresh, login).
THEOREM SessionInvariance == SessionSpec => []SessionInv
BY SessionInitInv, SessionNextInv, PTL DEF SessionSpec

\* Once an account is disabled, transfers end with the requests under way and
\* access one life of an access token later (require_verified_user, refresh).
THEOREM AccessEndsAlways == SessionSpec => []AccessEnds
<1>1. SessionInv => AccessEnds
  BY SessionAssumption
  DEF SessionInv, SessionTypeOK, AdmittedBefore, TokensRunOut, Admitted, AccessEnds
<1> QED
  BY <1>1, SessionInvariance, PTL

-------------------------------------------------------------------------------
(* The rows a user owns.                                                     *)

ErrandRow == [at: ErrandPlaces, user: Users \cup {Nothing},
              found: Requests \cup Brokers \cup {Nothing}, broker: Brokers \cup {Nothing}]

AccountPlaces == {"find", "insert", "again", "has"}
LinkPlaces == {"findLink", "writeLink"}

\* A request for an account knows that there is one once a conflict has told it,
\* and which one once it has found it.
ErrandOK(r) ==
    LET e == errand[r] IN
    /\ e.at # "unavailable"
    /\ e.at \in AccountPlaces \cup LinkPlaces => e.user \in Users
    /\ e.at \in LinkPlaces => e.broker \in Brokers
    /\ e.at = "again" => \E a \in accounts : a.user = e.user
    /\ e.at = "has" => \E a \in accounts : a.user = e.user /\ a.by = e.found

OneRow == \A a, b \in accounts : a.user = b.user => a = b
OneLink == \A l, m \in links : l.user = m.user <=> l.broker = m.broker

AccountInv ==
    /\ accounts \subseteq [user: Users, by: Requests]
    /\ links \subseteq [user: Users, broker: Brokers]
    /\ errand \in [Requests -> ErrandRow]
    /\ OneRow /\ OneLink
    /\ \A r \in Requests : ErrandOK(r)

\* A request moves on to e: the accounts only grow, and stay one for each user.
LEMMA ErrandMoves ==
    ASSUME AccountInv, NEW r \in Requests, NEW e \in ErrandRow,
           errand' = [errand EXCEPT ![r] = e],
           accounts \subseteq accounts', accounts' \subseteq [user: Users, by: Requests], OneRow',
           links' \subseteq [user: Users, broker: Brokers], OneLink',
           e.at # "unavailable",
           e.at \in AccountPlaces \cup LinkPlaces => e.user \in Users,
           e.at \in LinkPlaces => e.broker \in Brokers,
           e.at = "again" => \E a \in accounts' : a.user = e.user,
           e.at = "has" => \E a \in accounts' : a.user = e.user /\ a.by = e.found
    PROVE  AccountInv'
<1>1. errand' \in [Requests -> ErrandRow]
  BY DEF AccountInv
<1>2. ASSUME NEW q \in Requests PROVE ErrandOK(q)'
  <2>1. CASE q = r
    <3>1. errand'[q] = e
      BY <2>1 DEF AccountInv
    <3> QED BY <3>1 DEF ErrandOK
  <2>2. CASE q # r
    <3>1. errand'[q] = errand[q] /\ ErrandOK(q)
      BY <2>2 DEF AccountInv
    <3> QED BY <3>1 DEF ErrandOK
  <2> QED BY <2>1, <2>2
<1> QED BY <1>1, <1>2 DEF AccountInv

\* Both looks at the table.
LEMMA LookKeeps ==
    ASSUME AccountInv, NEW r \in Requests, NEW to \in {"find", "again"},
           NEW missing \in {"insert", "unavailable"},
           missing = "unavailable" => to = "again",
           FindAccount(r, to, missing)
    PROVE  AccountInv'
<1> DEFINE e == errand[r]
<1>1. /\ e \in ErrandRow /\ e.at = to /\ e.user \in Users /\ ErrandOK(r)
      /\ UNCHANGED <<accounts, links>>
  BY DEF AccountInv, ErrandOK, AccountPlaces, FindAccount, Step
<1>2. /\ accounts' \subseteq [user: Users, by: Requests] /\ OneRow' /\ OneLink'
      /\ links' \subseteq [user: Users, broker: Brokers]
  BY <1>1 DEF AccountInv, OneRow, OneLink
<1>3. CASE OwnRows(r) = {} /\ Step(r, to, [e EXCEPT !.at = missing])
  <2> DEFINE f == [e EXCEPT !.at = missing]
  <2>1. missing = "insert"
    BY <1>1, <1>3 DEF ErrandOK, OwnRows
  <2>2. f \in ErrandRow /\ f.at = "insert" /\ f.user = e.user
    BY <1>1, <2>1 DEF ErrandRow, ErrandPlaces
  <2>3. errand' = [errand EXCEPT ![r] = f]
    BY <1>3 DEF Step
  <2> HIDE DEF f
  <2> QED BY <1>1, <1>2, <2>2, <2>3, ErrandMoves DEF LinkPlaces
<1>4. CASE Step(r, to, [e EXCEPT !.at = "failed"])
  <2> DEFINE f == [e EXCEPT !.at = "failed"]
  <2>1. f \in ErrandRow /\ f.at = "failed"
    BY <1>1 DEF ErrandRow, ErrandPlaces
  <2>2. errand' = [errand EXCEPT ![r] = f]
    BY <1>4 DEF Step
  <2> HIDE DEF f
  <2> QED BY <1>1, <1>2, <2>1, <2>2, ErrandMoves DEF AccountPlaces, LinkPlaces
<1>5. ASSUME NEW a \in OwnRows(r), Step(r, to, [e EXCEPT !.at = "has", !.found = a.by])
      PROVE  AccountInv'
  <2> DEFINE f == [e EXCEPT !.at = "has", !.found = a.by]
  <2>1. a \in accounts /\ a.user = e.user /\ a.by \in Requests
    BY DEF OwnRows, AccountInv
  <2>2. f \in ErrandRow /\ f.at = "has" /\ f.user = e.user /\ f.found = a.by
    BY <1>1, <2>1 DEF ErrandRow, ErrandPlaces
  <2>3. errand' = [errand EXCEPT ![r] = f]
    BY <1>5 DEF Step
  <2> HIDE DEF f
  <2> QED BY <1>1, <1>2, <2>1, <2>2, <2>3, ErrandMoves DEF LinkPlaces
<1> QED BY <1>3, <1>4, <1>5 DEF FindAccount

LEMMA InsertKeeps ==
    ASSUME AccountInv, NEW r \in Requests, InsertAccount(r)
    PROVE  AccountInv'
<1> DEFINE e == errand[r]
<1>1. e \in ErrandRow /\ e.at = "insert" /\ e.user \in Users /\ links' = links
  BY DEF AccountInv, ErrandOK, AccountPlaces, InsertAccount, Step
<1>2. OneLink' /\ links' \subseteq [user: Users, broker: Brokers]
  BY <1>1 DEF AccountInv, OneLink
<1>3. CASE AccountTaken(r)
  <2> DEFINE f == [e EXCEPT !.at = "again"]
  <2>1. f \in ErrandRow /\ f.at = "again" /\ f.user = e.user
    BY <1>1 DEF ErrandRow, ErrandPlaces
  <2>2. errand' = [errand EXCEPT ![r] = f] /\ accounts' = accounts
    BY <1>3 DEF InsertAccount, Step
  <2>3. \E a \in accounts : a.user = e.user
    BY <1>3 DEF AccountTaken, OwnRows
  <2>4. accounts' \subseteq [user: Users, by: Requests] /\ OneRow'
    BY <2>2 DEF AccountInv, OneRow
  <2> HIDE DEF f
  <2> QED BY <1>1, <1>2, <2>1, <2>2, <2>3, <2>4, ErrandMoves DEF LinkPlaces
<1>4. CASE ~AccountTaken(r)
  <2> DEFINE f == [e EXCEPT !.at = "has", !.found = r]
             a == [user |-> e.user, by |-> r]
  <2>1. f \in ErrandRow /\ f.at = "has" /\ f.user = e.user /\ f.found = r
    BY <1>1 DEF ErrandRow, ErrandPlaces
  <2>2. errand' = [errand EXCEPT ![r] = f] /\ accounts' = accounts \cup {a}
    BY <1>4 DEF InsertAccount, Step
  <2>3. a \in [user: Users, by: Requests] /\ a.user = e.user /\ a.by = r
    BY <1>1
  <2>4. \A b \in accounts : b.user # e.user
    BY <1>4 DEF AccountTaken, OwnRows
  <2> HIDE DEF f, a
  <2>5. accounts' \subseteq [user: Users, by: Requests] /\ OneRow'
    BY <2>2, <2>3, <2>4 DEF AccountInv, OneRow
  <2> QED BY <1>1, <1>2, <2>1, <2>2, <2>3, <2>5, ErrandMoves DEF LinkPlaces
<1> QED BY <1>3, <1>4

LEMMA WriteLinkKeeps ==
    ASSUME AccountInv, NEW r \in Requests, WriteLink(r)
    PROVE  AccountInv'
<1> DEFINE e == errand[r]
           l == [user |-> e.user, broker |-> e.broker]
<1>1. e \in ErrandRow /\ e.user \in Users /\ e.broker \in Brokers /\ accounts' = accounts
  BY DEF AccountInv, ErrandOK, LinkPlaces, AccountPlaces, WriteLink, Step
<1>2. PICK to \in {"failed", "linked"} : errand' = [errand EXCEPT ![r] = [e EXCEPT !.at = to]]
  BY DEF WriteLink, Step
<1> DEFINE f == [e EXCEPT !.at = to]
<1>3. f \in ErrandRow /\ f.at = to /\ errand' = [errand EXCEPT ![r] = f]
  BY <1>1, <1>2 DEF ErrandRow, ErrandPlaces
<1>4. \/ links' = links
      \/ ~BrokerTaken(r) /\ links' = (links \ OwnLinks(r)) \cup {l}
  BY DEF WriteLink
<1>5. l \in [user: Users, broker: Brokers] /\ l.user = e.user /\ l.broker = e.broker
  BY <1>1
<1> HIDE DEF f, l
<1>6. links' \subseteq [user: Users, broker: Brokers] /\ OneLink'
  BY <1>4, <1>5 DEF AccountInv, OneLink, BrokerTaken, OwnLinks
<1>7. accounts' \subseteq [user: Users, by: Requests] /\ OneRow'
  BY <1>1 DEF AccountInv, OneRow
<1> QED BY <1>1, <1>3, <1>6, <1>7, ErrandMoves DEF AccountPlaces, LinkPlaces

\* Steps that write nothing and find no account.
LEMMA QuietKeeps ==
    ASSUME AccountInv, NEW r \in Requests, NEW e \in ErrandRow,
           errand' = [errand EXCEPT ![r] = e], UNCHANGED <<accounts, links>>,
           e.at \in {"find", "findLink", "writeLink", "failed", "dead"},
           e.at \in {"find", "findLink", "writeLink"} => e.user \in Users,
           e.at \in LinkPlaces => e.broker \in Brokers
    PROVE  AccountInv'
<1>1. /\ accounts' \subseteq [user: Users, by: Requests] /\ OneRow' /\ OneLink'
      /\ links' \subseteq [user: Users, broker: Brokers]
  BY DEF AccountInv, OneRow, OneLink
<1> QED BY <1>1, ErrandMoves DEF AccountPlaces, LinkPlaces

LEMMA AccountNextInv == AccountInv /\ [AccountNext]_accountVars => AccountInv'
<1> SUFFICES ASSUME AccountInv, [AccountNext]_accountVars PROVE AccountInv'
  OBVIOUS
<1>1. CASE UNCHANGED accountVars
  BY <1>1 DEF accountVars, AccountInv, OneRow, OneLink, ErrandOK
<1>2. ASSUME NEW r \in Requests, NEW u \in Users, AskAccount(r, u) PROVE AccountInv'
  <2> DEFINE e == [NoErrand EXCEPT !.at = "find", !.user = u]
  <2>1. e \in ErrandRow /\ e.at = "find" /\ e.user = u
    BY DEF NoErrand, ErrandRow, ErrandPlaces
  <2>2. errand' = [errand EXCEPT ![r] = e] /\ UNCHANGED <<accounts, links>>
    BY <1>2 DEF AskAccount, Step
  <2> HIDE DEF e
  <2> QED BY <2>1, <2>2, QuietKeeps DEF LinkPlaces
<1>3. ASSUME NEW r \in Requests, NEW u \in Users, NEW b \in Brokers, AskLink(r, u, b)
      PROVE  AccountInv'
  <2>1. PICK to \in {"findLink", "failed"} :
           errand' = [errand EXCEPT ![r] =
                        [at |-> to, user |-> u, found |-> Nothing, broker |-> b]]
    BY <1>3 DEF AskLink, Step
  <2> DEFINE e == [at |-> to, user |-> u, found |-> Nothing, broker |-> b]
  <2>2. e \in ErrandRow /\ e.at = to /\ e.user = u /\ e.broker = b
    BY DEF ErrandRow, ErrandPlaces
  <2>3. errand' = [errand EXCEPT ![r] = e] /\ UNCHANGED <<accounts, links>>
    BY <1>3, <2>1 DEF AskLink
  <2> HIDE DEF e
  <2> QED BY <2>2, <2>3, QuietKeeps
<1>4. ASSUME NEW r \in Requests, FirstLook(r) \/ SecondLook(r) PROVE AccountInv'
  BY <1>4, LookKeeps DEF FirstLook, SecondLook
<1>5. ASSUME NEW r \in Requests, FindLink(r) PROVE AccountInv'
  <2>1. /\ errand[r] \in ErrandRow /\ errand[r].user \in Users /\ errand[r].broker \in Brokers
        /\ UNCHANGED <<accounts, links>>
    BY <1>5 DEF FindLink, Step, AccountInv, ErrandOK, AccountPlaces, LinkPlaces
  <2>2. PICK got \in Requests \cup Brokers \cup {Nothing} :
           errand' = [errand EXCEPT ![r] = [errand[r] EXCEPT !.at = "writeLink", !.found = got]]
    <3>1. CASE OwnLinks(r) = {}
      <4> DEFINE e == [errand[r] EXCEPT !.at = "writeLink"]
      <4>1. errand' = [errand EXCEPT ![r] = e]
        BY <1>5, <3>1 DEF FindLink, Step
      <4>2. e = [errand[r] EXCEPT !.at = "writeLink", !.found = errand[r].found]
        BY <2>1 DEF ErrandRow
      <4>3. errand[r].found \in Requests \cup Brokers \cup {Nothing}
        BY <2>1 DEF ErrandRow
      <4> QED BY <4>1, <4>2, <4>3
    <3>2. CASE OwnLinks(r) # {}
      <4>1. PICK l \in OwnLinks(r) :
               Step(r, "findLink", [errand[r] EXCEPT !.at = "writeLink", !.found = l.broker])
        BY <1>5, <3>2 DEF FindLink
      <4>2. l.broker \in Brokers
        BY DEF OwnLinks, AccountInv
      <4> QED BY <4>1, <4>2 DEF Step
    <3> QED BY <3>1, <3>2
  <2> DEFINE e == [errand[r] EXCEPT !.at = "writeLink", !.found = got]
  <2>3. /\ e \in ErrandRow /\ e.at = "writeLink" /\ e.user = errand[r].user
        /\ e.broker = errand[r].broker
    BY <2>1 DEF ErrandRow, ErrandPlaces
  <2>4. errand' = [errand EXCEPT ![r] = e]
    BY <2>2
  <2> HIDE DEF e
  <2> QED BY <2>1, <2>3, <2>4, QuietKeeps
<1>6. ASSUME NEW r \in Requests, ErrandDies(r) PROVE AccountInv'
  <2> DEFINE e == [errand[r] EXCEPT !.at = "dead"]
  <2>1. e \in ErrandRow /\ e.at = "dead"
    BY DEF AccountInv, ErrandRow, ErrandPlaces
  <2>2. errand' = [errand EXCEPT ![r] = e] /\ UNCHANGED <<accounts, links>>
    BY <1>6 DEF ErrandDies
  <2> HIDE DEF e
  <2> QED BY <2>1, <2>2, QuietKeeps DEF LinkPlaces
<1> QED
  BY <1>1, <1>2, <1>3, <1>4, <1>5, <1>6, InsertKeeps, WriteLinkKeeps DEF AccountNext

LEMMA AccountInitInv == AccountInit => AccountInv
BY DEF AccountInit, AccountInv, OneRow, OneLink, ErrandOK, NoErrand, ErrandRow, ErrandPlaces,
       AccountPlaces, LinkPlaces

\* The inductive invariant of the rows holds: accounts are unique and stay, and a
\* request knows one exists once it has met a conflict
\* (get_or_create_virtual_account, link_broker_account).
THEOREM AccountInvariance == AccountSpec => []AccountInv
BY AccountInitInv, AccountNextInv, PTL DEF AccountSpec

\* Requests of a user that run together get the one account of the table and none
\* is turned away, and no two users share an account at the broker
\* (get_or_create_virtual_account, link_broker_account).
THEOREM OneAccountEachAlways == AccountSpec => []OneAccountEach
<1>1. AccountInv => OneAccountEach
  <2> SUFFICES ASSUME AccountInv, NEW r \in Requests, errand[r].at = "has"
               PROVE  accounts \cap [user: {errand[r].user}, by: Requests] =
                        {[user |-> errand[r].user, by |-> errand[r].found]}
    BY DEF OneAccountEach, AccountInv, ErrandOK, OneLink
  <2>1. PICK a \in accounts : a.user = errand[r].user /\ a.by = errand[r].found
    BY DEF AccountInv, ErrandOK
  <2>2. a = [user |-> errand[r].user, by |-> errand[r].found] /\ a.by \in Requests
    BY <2>1 DEF AccountInv
  <2>3. \A b \in accounts : b.user = errand[r].user => b = a
    BY <2>1 DEF AccountInv, OneRow
  <2> QED BY <2>1, <2>2, <2>3 DEF AccountInv
<1> QED BY <1>1, AccountInvariance, PTL

-------------------------------------------------------------------------------
(***************************************************************************)
(* Alerts.  AlertRaised says nothing of rows that leave the window: an     *)
(* alerted failure may be too old when its fellows are not.  The invariant *)
(* is that those who stayed quiet are by themselves below the threshold,   *)
(* because each of them was there when the last of them counted.           *)
(***************************************************************************)

Stored == {e \in Failures : errors[e] # "idle"}
Quietly(k) == {e \in Failures : /\ row[e].kind = k /\ row[e].age <= Recent
                                /\ errors[e] = "quiet"}

IncidentInv ==
    /\ IncidentTypeOK
    /\ IsFiniteSet(Stored)
    /\ \A e \in Failures : /\ errors[e] = "idle" => row[e].status = "none"
                           /\ errors[e] \in {"failed", "quiet", "alerted"}
                                => row[e].status = "failed"
    /\ \A k \in Kinds : Cardinality(Quietly(k)) < Threshold

\* A request gets on with its event.
LEMMA IncidentStep ==
    ASSUME IncidentInv, NEW e \in Failures, NEW from, NEW to \in ErrorPlaces,
           Proceed(e, from, to), to # "idle",
           row' \in [Failures -> [status: {"none", "received", "failed"},
                                  kind: Kinds \cup {"none"}, age: 0 .. Recent + 1]],
           \A f \in Failures : f # e => row'[f] = row[f],
           to \in {"failed", "quiet", "alerted"} => row'[e].status = "failed",
           \A k \in Kinds : Cardinality(Quietly(k)') < Threshold
    PROVE  IncidentInv'
<1>1. errors \in [Failures -> ErrorPlaces]
  BY DEF IncidentInv, IncidentTypeOK
<1>2. IncidentTypeOK'
  BY <1>1 DEF Proceed, IncidentTypeOK
<1>3. Stored' = Stored \cup {e}
  BY <1>1 DEF Proceed, Stored
<1>4. IsFiniteSet(Stored')
  BY <1>3, FS_AddElement DEF IncidentInv
<1>5. ASSUME NEW f \in Failures
      PROVE  /\ errors'[f] = "idle" => row'[f].status = "none"
             /\ errors'[f] \in {"failed", "quiet", "alerted"} => row'[f].status = "failed"
  BY <1>1 DEF Proceed, IncidentInv
<1> QED
  BY <1>2, <1>4, <1>5 DEF IncidentInv

\* Those who stay quiet do not grow in number.
LEMMA QuietStays ==
    ASSUME IncidentInv, NEW k \in Kinds, Quietly(k)' \subseteq Quietly(k)
    PROVE  Cardinality(Quietly(k)') < Threshold
<1>1. Quietly(k) \subseteq Stored
  BY DEF Quietly, Stored
<1>2. IsFiniteSet(Quietly(k))
  BY <1>1, FS_Subset DEF IncidentInv
<1>3. Cardinality(Quietly(k)') <= Cardinality(Quietly(k)) /\ IsFiniteSet(Quietly(k)')
  BY <1>2, FS_Subset
<1> QED
  BY <1>2, <1>3, IncidentAssumption, FS_CardinalityType DEF IncidentInv

LEMMA IncidentNextInv == IncidentInv /\ [IncidentNext]_incidentVars => IncidentInv'
<1> SUFFICES ASSUME IncidentInv, [IncidentNext]_incidentVars PROVE IncidentInv'
  OBVIOUS
<1> USE IncidentAssumption
<1>1. /\ row \in [Failures -> [status: {"none", "received", "failed"},
                               kind: Kinds \cup {"none"}, age: 0 .. Recent + 1]]
      /\ errors \in [Failures -> ErrorPlaces]
  BY DEF IncidentInv, IncidentTypeOK
<1>2. CASE AgeTick
  <2>1. ASSUME NEW e \in Failures
        PROVE  /\ row'[e] \in [status: {"none", "received", "failed"},
                               kind: Kinds \cup {"none"}, age: 0 .. Recent + 1]
               /\ row'[e].status = row[e].status /\ row'[e].kind = row[e].kind
               /\ row'[e].age >= row[e].age /\ row'[e].age \in Nat /\ row[e].age \in Nat
    BY <1>1, <1>2 DEF AgeTick
  <2>2. row' \in [Failures -> [status: {"none", "received", "failed"},
                               kind: Kinds \cup {"none"}, age: 0 .. Recent + 1]]
    BY <1>2, <2>1 DEF AgeTick
  <2>3. \A k \in Kinds : Quietly(k)' \subseteq Quietly(k)
    BY <1>2, <2>1 DEF AgeTick, Quietly
  <2>4. \A k \in Kinds : Cardinality(Quietly(k)') < Threshold
    BY <2>3, QuietStays
  <2>5. Stored' = Stored /\ errors' = errors
    BY <1>2 DEF AgeTick, Stored
  <2> QED
    BY <2>1, <2>2, <2>4, <2>5 DEF IncidentInv, IncidentTypeOK
<1>3. ASSUME NEW e \in Failures, NEW k \in Kinds, StoreEvent(e, k) PROVE IncidentInv'
  <2>1. /\ row' \in [Failures -> [status: {"none", "received", "failed"},
                                  kind: Kinds \cup {"none"}, age: 0 .. Recent + 1]]
        /\ \A f \in Failures : f # e => row'[f] = row[f]
    BY <1>1, <1>3 DEF StoreEvent
  <2>2. \A j \in Kinds : Quietly(j)' \subseteq Quietly(j)
    BY <1>1, <1>3, <2>1 DEF StoreEvent, Proceed, Quietly
  <2> QED
    BY <1>3, <2>1, <2>2, IncidentStep, QuietStays DEF StoreEvent, ErrorPlaces
<1>4. ASSUME NEW e \in Failures, MarkFailed(e) PROVE IncidentInv'
  <2>1. /\ row' \in [Failures -> [status: {"none", "received", "failed"},
                                  kind: Kinds \cup {"none"}, age: 0 .. Recent + 1]]
        /\ \A f \in Failures : f # e => row'[f] = row[f]
        /\ row'[e].status = "failed"
    BY <1>1, <1>4 DEF MarkFailed
  <2>2. \A j \in Kinds : Quietly(j)' \subseteq Quietly(j)
    BY <1>1, <1>4, <2>1 DEF MarkFailed, Proceed, Quietly
  <2> QED
    BY <1>4, <2>1, <2>2, IncidentStep, QuietStays DEF MarkFailed, ErrorPlaces
<1>5. ASSUME NEW e \in Failures, CountAndNotify(e) PROVE IncidentInv'
  <2> DEFINE to == IF Cardinality(RecentFailures(e)) < Threshold THEN "quiet" ELSE "alerted"
  <2>1. UNCHANGED row /\ Proceed(e, "failed", to) /\ row[e].status = "failed"
    BY <1>5 DEF CountAndNotify, Proceed, IncidentInv
  <2>2. ASSUME NEW j \in Kinds PROVE Cardinality(Quietly(j)') < Threshold
    <3>1. CASE to = "quiet" /\ row[e].kind = j
      <4>1. Quietly(j)' \subseteq RecentFailures(e)
        BY <1>1, <2>1, <3>1 DEF Proceed, Quietly, RecentFailures, IncidentInv
      <4>2. RecentFailures(e) \subseteq Stored
        BY DEF RecentFailures, Stored, IncidentInv
      <4>3. IsFiniteSet(RecentFailures(e))
        BY <4>2, FS_Subset DEF IncidentInv
      <4>4. /\ IsFiniteSet(Quietly(j)')
            /\ Cardinality(Quietly(j)') <= Cardinality(RecentFailures(e))
        BY <4>1, <4>3, FS_Subset
      <4>5. Cardinality(RecentFailures(e)) < Threshold
        BY <3>1
      <4> QED
        BY <4>3, <4>4, <4>5, FS_CardinalityType
    <3>2. CASE to # "quiet" \/ row[e].kind # j
      <4>1. Quietly(j)' \subseteq Quietly(j)
        BY <1>1, <2>1, <3>2 DEF Proceed, Quietly
      <4> QED
        BY <4>1, QuietStays
    <3> QED
      BY <3>1, <3>2
  <2>3. to \in ErrorPlaces /\ to # "idle"
    BY DEF ErrorPlaces
  <2> HIDE DEF to
  <2> QED
    BY <1>1, <2>1, <2>2, <2>3, IncidentStep
<1>6. ASSUME NEW e \in Failures, RequestDies(e) PROVE IncidentInv'
  <2>1. \A j \in Kinds : Quietly(j)' \subseteq Quietly(j)
    BY <1>1, <1>6 DEF RequestDies, Proceed, Quietly
  <2> QED
    BY <1>1, <1>6, <2>1, IncidentStep, QuietStays DEF RequestDies, ErrorPlaces
<1>7. CASE UNCHANGED incidentVars
  BY <1>7 DEF incidentVars, IncidentInv, IncidentTypeOK, Stored, Quietly
<1> QED
  BY <1>2, <1>3, <1>4, <1>5, <1>6, <1>7 DEF IncidentNext

\* Of the failures of one type within the window, those whose requests stayed
\* quiet are fewer than the threshold, for any number of events (kora_webhook).
THEOREM IncidentInvariance == IncidentSpec => []IncidentInv
<1>1. IncidentInit => IncidentInv
  <2> SUFFICES ASSUME IncidentInit PROVE IncidentInv
    OBVIOUS
  <2>1. Stored = {} /\ \A k \in Kinds : Quietly(k) = {}
    BY DEF IncidentInit, Stored, Quietly
  <2>2. IncidentTypeOK
    BY IncidentAssumption DEF IncidentInit, IncidentTypeOK, NoRow, ErrorPlaces
  <2> QED
    BY <2>1, <2>2, FS_EmptySet, IncidentAssumption DEF IncidentInit, IncidentInv, NoRow
<1> QED
  BY <1>1, IncidentNextInv, PTL DEF IncidentSpec

\* Failures of one type never reach the threshold within the window without an
\* alert, in whatever order they are committed and counted (notify_kora_failure).
THEOREM AlertRaisedAlways == IncidentSpec => []AlertRaised
<1>1. IncidentInv => AlertRaised
  <2> SUFFICES ASSUME IncidentInv, NEW k \in Kinds,
                      Cardinality({e \in Failures :
                            /\ row[e].kind = k /\ row[e].age <= Recent
                            /\ errors[e] \in {"quiet", "alerted"}}) >= Threshold
               PROVE  \E e \in Failures : /\ row[e].kind = k /\ row[e].age <= Recent
                                          /\ errors[e] = "alerted"
    BY DEF AlertRaised
  <2> DEFINE past == {e \in Failures : /\ row[e].kind = k /\ row[e].age <= Recent
                                       /\ errors[e] \in {"quiet", "alerted"}}
  <2>1. Quietly(k) \subseteq past
    BY DEF Quietly
  <2>2. Quietly(k) \subseteq Stored
    BY DEF Quietly, Stored
  <2>3. Cardinality(Quietly(k)) \in Nat /\ Cardinality(Quietly(k)) < Threshold
    BY <2>2, FS_Subset, FS_CardinalityType DEF IncidentInv
  <2>4. Cardinality(past) >= Threshold
    OBVIOUS
  <2>5. past # Quietly(k)
    <3> HIDE DEF past
    <3> QED
      BY <2>3, <2>4, IncidentAssumption
  <2>6. PICK e \in past : e \notin Quietly(k)
    <3> HIDE DEF past
    <3> QED
      BY <2>1, <2>5
  <2>7. e \in Failures /\ row[e].kind = k /\ row[e].age <= Recent /\ errors[e] = "alerted"
    BY <2>6 DEF Quietly
  <2> QED
    BY <2>7
<1> QED
  BY <1>1, IncidentInvariance, PTL
-------------------------------------------------------------------------------
(***************************************************************************)
(* The script.  What it polls for is decided only when it stops polling:   *)
(* while it goes on, the latest status is no success, so running out of    *)
(* attempts is never taken for one.                                        *)
(***************************************************************************)

Undecided == {"none", "pending"}

ScriptInv ==
    /\ ScriptTypeOK
    /\ script.at \in {"quote", "charge", "otp", "poll", "refund"} => asked = 0
    /\ script.at \in {"poll", "pollRefund"} => script.latest \in Undecided
    /\ script.at = "refund" => charge = "success"
    /\ asked <= 1
    /\ asked = 1 => charge = "success"
    /\ payback # "none" => asked = 1
    /\ exit = 0 => payback = "success"

\* A poll of the charge: what Seen does to the script.
LEMMA PollOfCharge ==
    ASSUME ScriptInv, At("poll"), NEW status \in Decision,
           Seen(status) \/ (NextAttempt(status) /\ status \in Undecided)
    PROVE  /\ script' \in [at: ScriptPlaces, attempt: 1 .. PollAttempts,
                           ref: 1 .. References, latest: Decision]
           /\ script'.at \in {"poll", "refund", "end"}
           /\ script'.at = "poll" => script'.latest \in Undecided
           /\ script'.at = "refund" => status = "success"
           /\ exit' \in {2, 99}
<1> USE DEF Decision, ScriptPlaces, Undecided
<1>1. /\ script \in [at: ScriptPlaces, attempt: 1 .. PollAttempts,
                     ref: 1 .. References, latest: Decision]
      /\ exit = 99 /\ script.at = "poll"
  BY DEF ScriptInv, ScriptTypeOK, At
<1>2. CASE EndPoll(status)
  <2>1. \/ /\ status = "success" /\ exit' = 99
           /\ script' = [script EXCEPT !.at = "refund", !.latest = status]
        \/ exit' = 2 /\ script' = [script EXCEPT !.at = "end"]
    BY <1>1, <1>2 DEF EndPoll, Exit, Refundable
  <2> QED
    BY <1>1, <2>1
<1>3. CASE /\ script.attempt < PollAttempts /\ exit' = exit
           /\ script' = [script EXCEPT !.attempt = script.attempt + 1, !.ref = 1,
                                       !.latest = status]
           /\ status \in Undecided
  <2>1. script.attempt + 1 \in 1 .. PollAttempts /\ 1 \in 1 .. References
    BY <1>1, <1>3, ScriptAssumption
  <2> QED
    BY <1>1, <1>3, <2>1
<1> QED
  BY <1>2, <1>3 DEF Seen, NextAttempt, Decided

\* A poll of the refund.
LEMMA PollOfRefund ==
    ASSUME ScriptInv, At("pollRefund"), NEW status \in Decision,
           Seen(status) \/ (NextAttempt(status) /\ status \in Undecided)
    PROVE  /\ script' \in [at: ScriptPlaces, attempt: 1 .. PollAttempts,
                           ref: 1 .. References, latest: Decision]
           /\ script'.at \in {"pollRefund", "end"}
           /\ script'.at = "pollRefund" => script'.latest \in Undecided
           /\ exit' \in {0, 2, 99}
           /\ exit' = 0 => status = "success"
<1> USE DEF Decision, ScriptPlaces, Undecided
<1>1. /\ script \in [at: ScriptPlaces, attempt: 1 .. PollAttempts,
                     ref: 1 .. References, latest: Decision]
      /\ exit = 99 /\ script.at = "pollRefund"
  BY DEF ScriptInv, ScriptTypeOK, At
<1>2. CASE EndPoll(status)
  <2>1. script' = [script EXCEPT !.at = "end"]
    BY <1>1, <1>2 DEF EndPoll, Exit
  <2>2. exit' \in {0, 2} /\ (exit' = 0 => status = "success")
    BY <1>1, <1>2 DEF EndPoll, Exit, Refundable
  <2> QED
    BY <1>1, <2>1, <2>2
<1>3. CASE /\ script.attempt < PollAttempts /\ exit' = exit
           /\ script' = [script EXCEPT !.attempt = script.attempt + 1, !.ref = 1,
                                       !.latest = status]
           /\ status \in Undecided
  <2>1. script.attempt + 1 \in 1 .. PollAttempts /\ 1 \in 1 .. References
    BY <1>1, <1>3, ScriptAssumption
  <2>2. script' = [at |-> "pollRefund", attempt |-> script.attempt + 1, ref |-> 1,
                   latest |-> status]
    BY <1>1, <1>3
  <2> QED
    BY <1>1, <1>3, <2>1, <2>2
<1> QED
  BY <1>2, <1>3 DEF Seen, NextAttempt, Decided

LEMMA ScriptNextInv == ScriptInv /\ [ScriptNext]_scriptVars => ScriptInv'
<1> SUFFICES ASSUME ScriptInv, [ScriptNext]_scriptVars PROVE ScriptInv'
  OBVIOUS
<1> USE ScriptAssumption
<1> USE DEF Decision, ScriptPlaces, Undecided
<1>1. CASE CallFails
  <2>1. /\ exit' = 2 /\ found' = found /\ exit = 99
        /\ script' = [script EXCEPT !.at = "end"]
        /\ script.at \in {"quote", "charge", "otp", "refund"} /\ asked = 0
    BY <1>1 DEF CallFails, At, Exit, ScriptInv
  <2>2. CASE UNCHANGED <<charge, payback, asked>>
    BY <2>1, <2>2 DEF ScriptInv, ScriptTypeOK
  <2>3. CASE script.at = "charge" /\ charge' = "pending" /\ UNCHANGED <<payback, asked>>
    BY <2>1, <2>3 DEF ScriptInv, ScriptTypeOK
  <2>4. CASE /\ script.at = "refund" /\ asked' = asked + 1
             /\ payback' \in {payback, "pending"} /\ UNCHANGED charge
    BY <2>1, <2>4 DEF ScriptInv, ScriptTypeOK
  <2> QED
    BY <1>1, <2>2, <2>3, <2>4 DEF CallFails, At
<1>2. CASE GetQuote \/ SendOtp
  <2>1. asked = 0 /\ UNCHANGED <<charge, payback, found, asked, exit>> /\ exit = 99
    BY <1>2 DEF GetQuote, SendOtp, At, Go, ScriptInv
  <2>2. script' = Poll("charge") \/ script' = Poll("poll")
    BY <1>2 DEF GetQuote, SendOtp, Go
  <2> QED
    BY <2>1, <2>2 DEF Poll, ScriptInv, ScriptTypeOK
<1>3. CASE ChargeWallet
  BY <1>3 DEF ChargeWallet, At, Go, Poll, ScriptInv, ScriptTypeOK
<1>4. CASE PollCharge
  <2>1. At("poll") /\ UNCHANGED <<charge, payback, found, asked>>
    BY <1>4 DEF PollCharge
  <2>2. CASE script.ref \notin found /\ script.ref < References
             /\ script' = [script EXCEPT !.ref = @ + 1] /\ UNCHANGED exit
    BY <2>1, <2>2 DEF At, ScriptInv, ScriptTypeOK
  <2>3. CASE Seen(charge)
    BY <2>1, <2>3, PollOfCharge DEF At, ScriptInv, ScriptTypeOK
  <2>4. CASE NextAttempt(script.latest)
    BY <2>1, <2>4, PollOfCharge DEF At, ScriptInv, ScriptTypeOK
  <2> QED
    BY <1>4, <2>2, <2>3, <2>4 DEF PollCharge
<1>5. CASE InitiateRefund
  BY <1>5 DEF InitiateRefund, At, Go, Poll, ScriptInv, ScriptTypeOK
<1>6. CASE PollRefund
  <2>1. At("pollRefund") /\ UNCHANGED <<charge, payback, found, asked>>
    BY <1>6 DEF PollRefund
  <2>2. CASE Seen(payback)
    BY <2>1, <2>2, PollOfRefund DEF At, ScriptInv, ScriptTypeOK
  <2>3. CASE NextAttempt(script.latest)
    BY <2>1, <2>3, PollOfRefund DEF At, ScriptInv, ScriptTypeOK
  <2> QED
    BY <1>6, <2>2, <2>3 DEF PollRefund
<1>7. CASE SettleCharge \/ SettleRefund
  BY <1>7 DEF SettleCharge, SettleRefund, ScriptInv, ScriptTypeOK
<1>8. CASE UNCHANGED scriptVars
  BY <1>8 DEF scriptVars, ScriptInv, ScriptTypeOK
<1> QED
  BY <1>1, <1>2, <1>3, <1>4, <1>5, <1>6, <1>7, <1>8 DEF ScriptNext

\* Where the script stands, it has asked for what it has seen settled, and for no
\* more (kora_sandbox_refund_e2e.py).
THEOREM ScriptInvariance == ScriptSpec => []ScriptInv
<1>1. ScriptInit => ScriptInv
  BY ScriptAssumption
     DEF ScriptInit, ScriptInv, ScriptTypeOK, Poll, Decision, ScriptPlaces, Undecided
<1> QED
  BY <1>1, ScriptNextInv, PTL DEF ScriptSpec

\* The script refunds at most once, and only what it has seen paid, for any number of
\* poll attempts and of references (kora_sandbox_refund_e2e.py).
THEOREM RefundOnlyOfPaidAlways == ScriptSpec => []RefundOnlyOfPaid
<1>1. ScriptInv => RefundOnlyOfPaid
  BY DEF ScriptInv, ScriptTypeOK, RefundOnlyOfPaid
<1> QED
  BY <1>1, ScriptInvariance, PTL

-------------------------------------------------------------------------------
(***************************************************************************)
(* Prices.  Every divisor is a constant of the code, so the rounding of    *)
(* each is linear; the commission of a month needs one product, which is   *)
(* taken apart first.                                                      *)
(***************************************************************************)

\* What the quantize of a percentage is worth: within half a unit.
LEMMA HalfUpOfHundred ==
    ASSUME NEW n \in Int
    PROVE  HalfUp(n, 100) \in Int /\ Within(100 * HalfUp(n, 100), n, 50)
  BY DEF HalfUp, Within

LEMMA HalfEvenOfHundred ==
    ASSUME NEW n \in Int
    PROVE  HalfEven(n, 100) \in Int /\ Within(100 * HalfEven(n, 100), n, 50)
  BY DEF HalfEven, HalfUp, Within

LEMMA HalfEvenOfTen ==
    ASSUME NEW n \in Int PROVE HalfEven(n, 10) \in Int
  BY DEF HalfEven, HalfUp

\* A bound in another currency; the order of the bounds survives conversion.
LEMMA LocalBoundsOrdered ==
    ASSUME NEW m \in Nat, NEW n \in Nat, m <= n, NEW c \in Currency
    PROVE  /\ LocalBound(m, c) \in Nat /\ LocalBound(n, c) \in Nat
           /\ LocalBound(m, c) <= LocalBound(n, c)
<1>1. CASE c = "USD" \/ c \notin DOMAIN Rate
  BY <1>1 DEF LocalBound
<1>2. ASSUME NEW r \in {165, 64, 770, 6600, 5500, 108000, 127000}
      PROVE  /\ HalfUp(m * 100000, r) \in Nat /\ HalfUp(n * 100000, r) \in Nat
             /\ HalfUp(m * 100000, r) <= HalfUp(n * 100000, r)
  <2>1. CASE r = 165
    BY <2>1 DEF HalfUp
  <2>2. CASE r = 64
    BY <2>2 DEF HalfUp
  <2>3. CASE r = 770
    BY <2>3 DEF HalfUp
  <2>4. CASE r = 6600
    BY <2>4 DEF HalfUp
  <2>5. CASE r = 5500
    BY <2>5 DEF HalfUp
  <2>6. CASE r = 108000
    BY <2>6 DEF HalfUp
  <2>7. CASE r = 127000
    BY <2>7 DEF HalfUp
  <2> QED
    BY <2>1, <2>2, <2>3, <2>4, <2>5, <2>6, <2>7
<1>3. CASE c # "USD" /\ c \in DOMAIN Rate
  <2>1. Rate[c] \in {165, 64, 770, 6600, 5500, 108000, 127000}
    BY <1>3 DEF Rate
  <2> QED
    BY <1>2, <1>3, <2>1 DEF LocalBound
<1> QED
  BY <1>1, <1>3

\* A fee between its bounds.
LEMMA FeeWithinBounds ==
    ASSUME NEW x \in Int, NEW low \in Nat, NEW high \in Nat, low <= high
    PROVE  HalfUp(Smaller(Larger(x, low * 100), high * 100), 100) \in low .. high
  BY DEF HalfUp, Smaller, Larger

\* Capping and flooring a month at once is doing it payment by payment.
LEMMA MonthIsClamped ==
    ASSUME NEW v \in Nat, NEW x \in Int, NEW low \in Int, NEW high \in Int, low <= high
    PROVE  Larger(Smaller(v * x, v * high), v * low) = v * Smaller(Larger(x, low), high)
<1>1. ASSUME NEW p \in Int, NEW q \in Int, p <= q PROVE v * p <= v * q
  BY <1>1
<1>2. v * x \in Int /\ v * high \in Int /\ v * low \in Int
  OBVIOUS
<1>3. CASE x <= low
  <2>1. v * x <= v * low /\ v * low <= v * high
    BY <1>1, <1>3
  <2> QED
    BY <1>2, <1>3, <2>1 DEF Larger, Smaller
<1>4. CASE low < x /\ x <= high
  <2>1. v * x >= v * low /\ v * x <= v * high
    BY <1>1, <1>4
  <2> QED
    BY <1>2, <1>4, <2>1 DEF Larger, Smaller
<1>5. CASE x > high
  <2>1. v * x >= v * high /\ v * low <= v * high
    BY <1>1, <1>5
  <2> QED
    BY <1>2, <1>5, <2>1 DEF Larger, Smaller
<1> QED
  BY <1>3, <1>4, <1>5

\* A multiple of what is off by so much is off by so many times that.
LEMMA MultipleOff ==
    ASSUME NEW v \in Nat, NEW x \in Int, NEW y \in Int, Within(100 * y, x, 50)
    PROVE  Within(100 * (v * y), v * x, 50 * v)
<1> DEFINE d == 100 * y - x
<1>1. d \in Int /\ d <= 50 /\ -50 <= d /\ x = 100 * y - d
  BY DEF Within
<1>2. v * d \in Int /\ v * d <= v * 50 /\ v * (-50) <= v * d
  <2> HIDE DEF d
  <2> QED
    BY <1>1
<1>3. v * x = 100 * (v * y) - v * d
  <2> HIDE DEF d
  <2> QED
    BY <1>1
<1>4. v * x \in Int /\ v * y \in Int
  OBVIOUS
<1> HIDE DEF d
<1> QED
  BY <1>2, <1>3, <1>4 DEF Within
\* Fees: of a payment, and of a month.
LEMMA FeeAddsUp ==
    ASSUME NEW a \in Amounts, NEW c \in Currency
    PROVE  /\ ServiceFee(a, c) = EngineFee(a, c)
           /\ ServiceFee(a, c).fee \in LocalBound(MinFee, c) .. LocalBound(MaxFee, c)
           /\ ServiceFee(a, c).fee + ServiceFee(a, c).net = a
<1>1. /\ LocalBound(MinFee, c) \in Nat /\ LocalBound(MaxFee, c) \in Nat
      /\ LocalBound(MinFee, c) <= LocalBound(MaxFee, c)
  BY LocalBoundsOrdered, PricingAssumption
<1>2. a * Percent \in Int /\ a \in Int
  BY PricingAssumption
<1>3. Bounded(a, LocalBound(MinFee, c), LocalBound(MaxFee, c))
        \in LocalBound(MinFee, c) .. LocalBound(MaxFee, c)
  BY <1>1, <1>2, FeeWithinBounds DEF Bounded
<1> QED
  BY <1>1, <1>2, <1>3 DEF ServiceFee, EngineFee

LEMMA MonthAddsUp ==
    ASSUME NEW v \in Volumes, NEW a \in Sizes
    PROVE  Within(2 * MonthlyRevenue(v, a), 2 * v * EngineFee(a, "USD").fee, v + 1)
<1> DEFINE x == Smaller(Larger(a * Percent, MinFee * 100), MaxFee * 100)
           f == HalfUp(x, 100)
           R == HalfEven(v * x, 100)
<1>1. /\ v \in Nat /\ a * Percent \in Int /\ MinFee * 100 \in Int /\ MaxFee * 100 \in Int
      /\ MinFee * 100 <= MaxFee * 100
  BY PricingAssumption
<1>2. x \in Int
  BY <1>1 DEF Smaller, Larger
<1>3. EngineFee(a, "USD").fee = f
  BY DEF EngineFee, Bounded, LocalBound
<1>4. MonthlyRevenue(v, a) = R
  <2>1. /\ v * a * Percent = v * (a * Percent)
        /\ v * MaxFee * 100 = v * (MaxFee * 100) /\ v * MinFee * 100 = v * (MinFee * 100)
    BY PricingAssumption
  <2>2. Larger(Smaller(v * (a * Percent), v * (MaxFee * 100)), v * (MinFee * 100)) = v * x
    BY <1>1, MonthIsClamped
  <2> QED
    BY <2>1, <2>2 DEF MonthlyRevenue
<1> HIDE DEF x
<1>5. f \in Int /\ Within(100 * f, x, 50)
  BY <1>2, HalfUpOfHundred
<1>6. v * x \in Int /\ R \in Int /\ Within(100 * R, v * x, 50)
  BY <1>1, <1>2, HalfEvenOfHundred
<1> HIDE DEF f, R
<1>7. Within(100 * (v * f), v * x, 50 * v) /\ v * f \in Int
  BY <1>1, <1>2, <1>5, MultipleOff
<1>8. 2 * v * f = 2 * (v * f)
  BY <1>1, <1>5
<1> QED
  BY <1>1, <1>3, <1>4, <1>6, <1>7, <1>8 DEF Within

\* Splits: the rounding error is at most one unit, and the creator takes it.
LEMMA SplitAddsUp ==
    ASSUME NEW g \in Amounts
    PROVE  /\ Total(Split(g)) = g
           /\ \A r \in DOMAIN Share : Within(100 * Split(g)[r], g * Share[r], 100)
<1>1. g \in Nat
  BY PricingAssumption
<1> DEFINE s == Rounded(g)
           ads == HalfUp(g * 35, 100)
           creator == HalfUp(g * 50, 100)
           platform == HalfUp(g * 15, 100)
<1>2. s = [ads |-> ads, creator |-> creator, platform |-> platform]
  BY DEF Rounded, Share
<1>3. ads \in Nat /\ creator \in Nat /\ platform \in Nat
  BY <1>1 DEF HalfUp
<1>4. creator >= ads /\ creator >= platform
  BY <1>1 DEF HalfUp
<1>5. /\ Within(100 * ads, g * 35, 100) /\ Within(100 * platform, g * 15, 100)
      /\ Within(100 * (creator + g - (ads + creator + platform)), g * 50, 100)
  BY <1>1 DEF HalfUp, Within
<1>6. Split(g) = [ads |-> ads, platform |-> platform,
                  creator |-> creator + g - (ads + creator + platform)]
  BY <1>2, <1>4 DEF Split, Taker, Total
<1> HIDE DEF ads, creator, platform, s
<1>7. Total(Split(g)) = g
  BY <1>1, <1>3, <1>6 DEF Total
<1> QED
  BY <1>1, <1>5, <1>6, <1>7 DEF Share

\* Simulations: the fees are the same, whichever route computes them.
LEMMA SimulationAddsUp ==
    ASSUME NEW a \in Amounts, NEW payout \in BOOLEAN,
           NEW f \in [kaybic: PartFees, payin: PartFees, payout: PartFees, afm: PartFees]
    PROVE  /\ Preview(a, f, payout).fees = Intent(a, f, payout).fees
           /\ Preview(a, f, payout).ok =>
                 /\ Intent(a, f, payout).ok
                 /\ Preview(a, f, payout).net = Intent(a, f, payout).net
           /\ Intent(a, f, payout).fees + Intent(a, f, payout).net = a
<1>1. /\ f.kaybic \in Nat /\ f.payin \in Nat /\ f.payout \in Nat /\ f.afm \in Nat
      /\ a \in Int
  <2>1. /\ f.kaybic \in PartFees /\ f.payin \in PartFees
        /\ f.payout \in PartFees /\ f.afm \in PartFees
    OBVIOUS
  <2>2. \A p \in PartFees : p \in Nat
    BY PricingAssumption
  <2>3. a \in Nat
    BY PricingAssumption
  <2> QED
    BY <2>1, <2>2, <2>3
<1>2. f.kaybic + f.payin + f.afm + (IF payout THEN f.payout ELSE 0) \in Int
  BY <1>1
<1>3. TotalFees(f, payout) \in Int
  BY <1>2, HalfEvenOfTen DEF TotalFees
<1> DEFINE fees == TotalFees(f, payout)
<1>4. /\ Preview(a, f, payout).fees = fees /\ Intent(a, f, payout).fees = fees
      /\ Preview(a, f, payout).net = Larger(0, a - fees)
      /\ Intent(a, f, payout).net = a - fees
      /\ Preview(a, f, payout).ok <=> Larger(0, a - fees) > 0
      /\ Intent(a, f, payout).ok <=> a - fees >= 0
  BY DEF Preview, Intent
<1>5. Larger(0, a - fees) > 0 => a - fees >= 0 /\ Larger(0, a - fees) = a - fees
  BY <1>1, <1>3 DEF Larger
<1>6. fees + (a - fees) = a
  BY <1>1, <1>3
<1> QED
  BY <1>4, <1>5, <1>6

\* Whatever is priced, in any currency, at any percentage and between any
\* bounds, adds up (fx.py, AFMRevenueEngine, RevenueEngine, PaymentService,
\* public_frontierpay_simulate, simulate_payment).
THEOREM QuoteAddsUpAlways == PricingSpec => []QuoteAddsUp
<1>1. PricingInit => QuoteAddsUp
  BY DEF PricingInit, QuoteAddsUp
<1>2. QuoteAddsUp /\ [PricingNext]_priced => QuoteAddsUp'
  <2> SUFFICES ASSUME QuoteAddsUp, [PricingNext]_priced PROVE QuoteAddsUp'
    OBVIOUS
  <2>1. CASE PriceFee
    BY <2>1, FeeAddsUp DEF PriceFee, QuoteAddsUp
  <2>2. CASE EstimateMonth
    BY <2>2, MonthAddsUp DEF EstimateMonth, QuoteAddsUp
  <2>3. CASE SplitRevenue
    BY <2>3, SplitAddsUp DEF SplitRevenue, QuoteAddsUp
  <2>4. CASE Simulate
    BY <2>4, SimulationAddsUp DEF Simulate, QuoteAddsUp
  <2>5. CASE UNCHANGED priced
    BY <2>5 DEF QuoteAddsUp
  <2> QED
    BY <2>1, <2>2, <2>3, <2>4, <2>5 DEF PricingNext
<1> QED
  BY <1>1, <1>2, PTL DEF PricingSpec

-------------------------------------------------------------------------------
(***************************************************************************)
(* The rate limiter.  LimitHolds speaks of the past; the sorted set is     *)
(* what Redis still knows of it.  The invariant is that as long as the key *)
(* lives, the set holds the reading of every request granted within the    *)
(* window: a refused request takes back a reading that no granted one has, *)
(* and once the key is gone, so is the window of whoever comes in time.    *)
(***************************************************************************)

\* The last pipeline, and when its key goes.
LastPass == Len(passes)
Gone == passes[LastPass].at + PassWindow + 1
Pipeline == [stamp: 0 .. MaxClock, at: 0 .. MaxClock, ok: BOOLEAN]

RefusedWas(r) ==
    asker[r].at = "over" =>
        \E j \in 1 .. LastPass : passes[j].stamp = asker[r].stamp /\ ~passes[j].ok
Past(j) == passes[j].stamp <= passes[j].at /\ passes[j].at <= clock
Increasing == \A j, k \in 1 .. LastPass : j < k => passes[j].stamp < passes[k].stamp
Kept == \A j \in Granted(LastPass) : passes[j].stamp \in zset

LimiterInv ==
    /\ LimiterTypeOK
    /\ LimitHolds
    /\ \A r \in Callers : asker[r].stamp <= clock /\ RefusedWas(r)
    /\ \A j \in 1 .. LastPass : Past(j)
    /\ LastPass > 0 => life >= Gone - clock
    /\ InOrder(LastPass) => Increasing
    /\ InOrder(LastPass) /\ LastPass > 0 /\ clock < Gone => Kept

\* What is said of the pipelines does not change while there is no new one.
LEMMA SamePasses ==
    ASSUME UNCHANGED passes
    PROVE  /\ LimitHolds' <=> LimitHolds
           /\ LastPass' = LastPass /\ Gone' = Gone
           /\ InOrder(LastPass)' <=> InOrder(LastPass)
           /\ Granted(LastPass)' = Granted(LastPass)
           /\ Increasing' <=> Increasing
  BY DEF LimitHolds, InOrder, Prompt, Granted, LastPass, Gone, Increasing

LEMMA InOrderBefore ==
    ASSUME NEW i \in Nat, NEW j \in Nat, j <= i, InOrder(i) PROVE InOrder(j)
  BY DEF InOrder

LEMMA PassType ==
    ASSUME LimiterInv
    PROVE  /\ passes \in Seq(Pipeline) /\ LastPass \in Nat
           /\ \A j \in 1 .. LastPass : passes[j].stamp \in Int /\ passes[j].at \in Int
           /\ LastPass > 0 => Gone \in Int
<1>1. passes \in Seq(Pipeline) /\ MaxClock \in Nat /\ PassWindow \in Nat
  BY LimiterAssumption DEF LimiterInv, LimiterTypeOK, Pipeline
<1>2. ASSUME NEW j \in 1 .. LastPass PROVE passes[j].stamp \in Int /\ passes[j].at \in Int
  <2>1. passes[j] \in Pipeline
    BY <1>1 DEF LastPass
  <2> QED
    BY <1>1, <2>1 DEF Pipeline
<1>3. LastPass \in Nat
  BY <1>1 DEF LastPass
<1> QED
  BY <1>1, <1>2, <1>3 DEF Gone

\* A refused request takes back its own reading.
LEMMA TakeBackInv ==
    ASSUME LimiterInv, NEW r \in Callers, TakeBack(r) PROVE LimiterInv'
<1> USE LimiterAssumption
<1>1. /\ asker[r].at = "over" /\ asker' = [asker EXCEPT ![r].at = "refused"]
      /\ zset' = zset \ {asker[r].stamp} /\ UNCHANGED <<clock, life, passes>>
  BY DEF TakeBack, PutAsker
<1>2. asker \in [Callers -> [at: AskerPlaces, stamp: 0 .. MaxClock]]
  BY DEF LimiterInv, LimiterTypeOK
<1>3. LimiterTypeOK'
  BY <1>1, <1>2 DEF LimiterInv, LimiterTypeOK, AskerPlaces
<1>4. ASSUME NEW q \in Callers PROVE asker'[q].stamp <= clock /\ RefusedWas(q)'
  BY <1>1, <1>2 DEF LimiterInv, RefusedWas, LastPass
<1>5. PICK j \in 1 .. LastPass : passes[j].stamp = asker[r].stamp /\ ~passes[j].ok
  BY <1>1 DEF LimiterInv, RefusedWas
<1>6. ASSUME InOrder(LastPass), LastPass > 0, clock < Gone PROVE Kept'
  <2> SUFFICES ASSUME NEW i \in Granted(LastPass) PROVE passes[i].stamp \in zset'
    BY <1>1, SamePasses DEF Kept
  <2>1. /\ i \in 1 .. LastPass /\ passes[i].ok /\ passes[i].stamp \in zset
        /\ \A m \in 1 .. LastPass : passes[m].stamp \in Int
    BY <1>6, PassType DEF LimiterInv, Granted, Kept
  <2>2. i # j
    BY <1>5, <2>1
  <2>3. passes[i].stamp # passes[j].stamp
    BY <1>5, <1>6, <2>1, <2>2 DEF LimiterInv, Increasing, LastPass
  <2> QED
    BY <1>1, <1>5, <2>1, <2>3
<1> QED
  BY <1>1, <1>3, <1>4, <1>6, SamePasses DEF LimiterInv, Past

\* Time passes; the last second of the key ends its window.
LEMMA LimiterTickInv ==
    ASSUME LimiterInv, LimiterTick PROVE LimiterInv'
<1> USE LimiterAssumption
<1>1. /\ clock < MaxClock /\ clock' = clock + 1 /\ UNCHANGED <<asker, passes>>
      /\ life' = (IF life = 0 THEN 0 ELSE life - 1)
      /\ zset' = (IF life = 1 THEN {} ELSE zset)
  BY DEF LimiterTick
<1>2. /\ clock \in 0 .. MaxClock /\ zset \subseteq 0 .. clock
      /\ life \in 0 .. PassWindow + 1
      /\ asker \in [Callers -> [at: AskerPlaces, stamp: 0 .. MaxClock]]
      /\ passes \in Seq(Pipeline)
  BY DEF LimiterInv, LimiterTypeOK, Pipeline
<1>3. LimiterTypeOK'
  <2>1. clock' \in 0 .. MaxClock /\ 0 .. clock \subseteq 0 .. clock'
    BY <1>1, <1>2
  <2>2. zset' \subseteq 0 .. clock'
    BY <1>1, <1>2, <2>1
  <2>3. life' \in 0 .. PassWindow + 1
    BY <1>1, <1>2
  <2> QED
    BY <1>1, <1>2, <2>1, <2>2, <2>3 DEF LimiterTypeOK, Pipeline
<1>4. ASSUME NEW q \in Callers PROVE asker'[q].stamp <= clock' /\ RefusedWas(q)'
  BY <1>1, <1>2 DEF LimiterInv, RefusedWas, LastPass
<1>5. ASSUME NEW j \in 1 .. LastPass PROVE Past(j)'
  <2>1. passes[j].at \in Int /\ passes[j].at <= clock /\ passes[j].stamp <= passes[j].at
    BY PassType DEF LimiterInv, Past
  <2> QED
    BY <1>1, <1>2, <2>1 DEF Past
<1>6. LastPass > 0 => Gone \in Int
  BY PassType
<1>7. LastPass > 0 => life' >= Gone - clock'
  BY <1>1, <1>2, <1>6 DEF LimiterInv
<1>8. ASSUME InOrder(LastPass), LastPass > 0, clock' < Gone PROVE Kept'
  <2>1. life # 1 /\ clock < Gone
    BY <1>1, <1>2, <1>6, <1>8 DEF LimiterInv
  <2> QED
    BY <1>1, <1>8, <2>1, SamePasses DEF LimiterInv, Kept
<1> QED
  BY <1>1, <1>3, <1>4, <1>5, <1>7, <1>8, SamePasses DEF LimiterInv
\* One more pipeline: e is what it leaves in the history.
LEMMA OneMorePass ==
    ASSUME LimiterInv, NEW e \in Pipeline, passes' = Append(passes, e)
    PROVE  /\ passes' \in Seq(Pipeline) /\ LastPass' = LastPass + 1 /\ passes'[LastPass + 1] = e
           /\ \A j \in 1 .. LastPass : passes'[j] = passes[j]
           /\ InOrder(LastPass)' => InOrder(LastPass)
           /\ \A i \in 1 .. LastPass : /\ InOrder(i)' <=> InOrder(i)
                                   /\ Granted(i)' = Granted(i)
<1>1. passes \in Seq(Pipeline) /\ LastPass \in Nat
  BY PassType
<1>2. /\ passes' \in Seq(Pipeline) /\ LastPass' = LastPass + 1 /\ passes'[LastPass + 1] = e
      /\ \A j \in 1 .. LastPass : passes'[j] = passes[j]
  BY <1>1 DEF LastPass
<1>3. ASSUME NEW i \in 1 .. LastPass
      PROVE  (InOrder(i)' <=> InOrder(i)) /\ Granted(i)' = Granted(i)
  <2>1. /\ \A j \in 1 .. i : j \in 1 .. LastPass
        /\ \A j \in 1 .. i - 1 : j \in 1 .. LastPass /\ j + 1 \in 1 .. LastPass
    BY <1>1
  <2>2. \A j \in 1 .. i : passes'[j] = passes[j]
    BY <1>2, <2>1
  <2>3. \A j \in 1 .. i - 1 : passes'[j] = passes[j] /\ passes'[j + 1] = passes[j + 1]
    BY <1>2, <2>1
  <2>4. i \in 1 .. i
    BY <1>1
  <2>5. InOrder(i)' <=> InOrder(i)
    BY <2>2, <2>3 DEF InOrder, Prompt
  <2>6. Granted(i)' = Granted(i)
    BY <2>2, <2>4 DEF Granted
  <2> QED
    BY <2>5, <2>6
<1>4. InOrder(LastPass)' => InOrder(LastPass)
  <2> SUFFICES ASSUME InOrder(LastPass)' PROVE InOrder(LastPass)
    OBVIOUS
  <2>1. /\ \A j \in 1 .. LastPass : passes'[j].stamp < passes'[j + 1].stamp
        /\ \A j \in 1 .. LastPass + 1 : passes'[j].at <= passes'[j].stamp + 1
    <3>1. /\ \A j \in 1 .. LastPass' - 1 : passes'[j].stamp < passes'[j + 1].stamp
          /\ \A j \in 1 .. LastPass' : passes'[j].at <= passes'[j].stamp + 1
      BY DEF InOrder, Prompt
    <3>2. LastPass' = LastPass + 1 /\ LastPass' - 1 = LastPass
      BY <1>1, <1>2
    <3> QED
      BY <3>1, <3>2
  <2>2. ASSUME NEW j \in 1 .. LastPass - 1 PROVE passes[j].stamp < passes[j + 1].stamp
    <3>1. j \in 1 .. LastPass /\ j + 1 \in 1 .. LastPass
      BY <1>1
    <3> QED
      BY <1>2, <2>1, <3>1
  <2>3. ASSUME NEW j \in 1 .. LastPass PROVE passes[j].at <= passes[j].stamp + 1
    <3>1. j \in 1 .. LastPass + 1
      BY <1>1
    <3> QED
      BY <1>2, <2>1, <3>1
  <2> QED
    BY <2>2, <2>3 DEF InOrder, Prompt
<1> QED
  BY <1>2, <1>3, <1>4
\* What a pipeline that comes in time finds of the granted requests in its window.
LEMMA WindowIsKept ==
    ASSUME LimiterInv, LastPass > 0, InOrder(LastPass), NEW s \in 0 .. MaxClock,
           passes[LastPass].stamp < s, clock <= s + 1,
           NEW j \in 1 .. LastPass, passes[j].ok, passes[j].stamp > s - PassWindow
    PROVE  j \in Granted(LastPass) /\ passes[j].stamp \in zset
<1> USE LimiterAssumption
<1>1. /\ LastPass \in Nat /\ LastPass \in 1 .. LastPass /\ clock \in Int
      /\ passes[j].stamp \in Int /\ passes[LastPass].stamp \in Int /\ passes[LastPass].at \in Int
  <2>1. LastPass \in Nat /\ LastPass \in 1 .. LastPass
    BY PassType
  <2>2. clock \in Int
    BY DEF LimiterInv, LimiterTypeOK
  <2> QED
    BY <2>1, <2>2, PassType
<1>2. passes[j].stamp <= passes[LastPass].stamp
  <2>1. CASE j = LastPass
    BY <1>1, <2>1
  <2>2. CASE j < LastPass
    BY <1>1, <2>2 DEF LimiterInv, Increasing
  <2> QED
    BY <1>1, <2>1, <2>2
<1>3. passes[LastPass].stamp <= passes[LastPass].at
  BY <1>1 DEF LimiterInv, Past
<1>4. clock < Gone
  BY <1>1, <1>2, <1>3 DEF Gone
<1>5. j \in Granted(LastPass)
  BY <1>1 DEF Granted
<1> QED
  BY <1>4, <1>5 DEF LimiterInv, Kept

\* The requests granted in a window are fewer than the limit when one more is.
LEMMA GrantedFitsInSet ==
    ASSUME LimiterInv, NEW G, NEW Z, G \subseteq 1 .. LastPass, IsFiniteSet(Z),
           \A j \in G : passes[j].stamp \in Z, Increasing
    PROVE  /\ IsFiniteSet(G) /\ Cardinality(G) \in Nat /\ Cardinality(Z) \in Nat
           /\ Cardinality(G) <= Cardinality(Z)
<1>1. LastPass \in Nat /\ IsFiniteSet(1 .. LastPass) /\ IsFiniteSet(G)
  <2>1. LastPass \in Nat
    BY PassType
  <2>2. IsFiniteSet(1 .. LastPass)
    BY <2>1, FS_Interval
  <2> QED
    BY <2>1, <2>2, FS_Subset
<1> DEFINE stampOf == [j \in G |-> passes[j].stamp]
<1>2. \A i, j \in G : i # j => passes[i].stamp # passes[j].stamp
  <2> SUFFICES ASSUME NEW i \in G, NEW j \in G, i # j
               PROVE  passes[i].stamp # passes[j].stamp
    OBVIOUS
  <2>1. /\ i \in 1 .. LastPass /\ j \in 1 .. LastPass
        /\ passes[i].stamp \in Int /\ passes[j].stamp \in Int
    BY PassType
  <2>2. i < j \/ j < i
    BY <1>1, <2>1
  <2> QED
    BY <2>1, <2>2 DEF Increasing
<1>3. stampOf \in Injection(G, Z)
  BY <1>2 DEF Injection, IsInjective
<1> QED
  BY <1>1, <1>3, FS_Injection, FS_CardinalityType
\* The pipeline of r: full tells whether its window was.
LEMMA RunPipelineInv ==
    ASSUME LimiterInv, NEW r \in Callers, RunPipeline(r) PROVE LimiterInv'
<1> USE LimiterAssumption
<1> DEFINE s == asker[r].stamp
           full == Exceeds(Cardinality(Recorded(r)))
           e == [stamp |-> s, at |-> clock, ok |-> ~full]
           n == LastPass + 1
<1>1. /\ asker[r].at = "read"
      /\ asker' = [asker EXCEPT ![r].at = IF full THEN "over" ELSE "granted"]
      /\ zset' = Recorded(r) \cup {s} /\ life' = PassWindow + 1
      /\ passes' = Append(passes, e) /\ clock' = clock
  BY DEF RunPipeline, PutAsker
<1>2. /\ clock \in 0 .. MaxClock /\ zset \subseteq 0 .. clock
      /\ asker \in [Callers -> [at: AskerPlaces, stamp: 0 .. MaxClock]]
      /\ passes \in Seq(Pipeline) /\ LastPass \in Nat
  BY PassType DEF LimiterInv, LimiterTypeOK
<1>3. s \in 0 .. MaxClock /\ s <= clock
  BY <1>2 DEF LimiterInv
<1>4. e \in Pipeline /\ e.stamp = s /\ e.at = clock
  <2>1. e \in Pipeline
    <3> HIDE DEF full
    <3>1. CASE full
      <4>1. e = [stamp |-> s, at |-> clock, ok |-> FALSE]
        BY <3>1
      <4> QED
        BY <1>2, <1>3, <4>1 DEF Pipeline
    <3>2. CASE ~full
      <4>1. e = [stamp |-> s, at |-> clock, ok |-> TRUE]
        BY <3>2
      <4> QED
        BY <1>2, <1>3, <4>1 DEF Pipeline
    <3> QED
      BY <3>1, <3>2
  <2> QED
    BY <2>1
<1>5. e.ok <=> ~full
  OBVIOUS
<1> HIDE DEF e
<1>6. /\ passes' \in Seq(Pipeline) /\ LastPass' = n /\ passes'[n] = e
      /\ \A j \in 1 .. LastPass : passes'[j] = passes[j]
      /\ InOrder(LastPass)' => InOrder(LastPass)
      /\ \A i \in 1 .. LastPass : (InOrder(i)' <=> InOrder(i)) /\ Granted(i)' = Granted(i)
  BY <1>1, <1>4, OneMorePass
<1>7. \A j \in 1 .. n : j \in 1 .. LastPass \/ j = n
  BY <1>2
<1>8. LimiterTypeOK'
  <2>1. asker' \in [Callers -> [at: AskerPlaces, stamp: 0 .. MaxClock]]
    <3> HIDE DEF full
    <3> QED
      BY <1>1, <1>2 DEF AskerPlaces
  <2>2. zset' \subseteq 0 .. clock'
    BY <1>1, <1>2, <1>3 DEF Recorded
  <2> QED
    BY <1>1, <1>2, <1>6, <2>1, <2>2 DEF LimiterTypeOK, Pipeline
<1>9. ASSUME NEW q \in Callers PROVE asker'[q].stamp <= clock' /\ RefusedWas(q)'
  <2>1. asker'[q].stamp = asker[q].stamp
    BY <1>1, <1>2
  <2>2. asker'[q].stamp <= clock'
    BY <1>1, <2>1 DEF LimiterInv
  <2>3. CASE q = r
    <3> SUFFICES ASSUME asker'[r].at = "over"
                 PROVE  \E j \in 1 .. n : /\ passes'[j].stamp = asker'[r].stamp
                                          /\ ~passes'[j].ok
      BY <1>6, <2>2, <2>3 DEF RefusedWas
    <3>1. full
      <4> HIDE DEF full
      <4> QED
        BY <1>1, <1>2
    <3>2. n \in 1 .. n /\ passes'[n].stamp = s /\ ~passes'[n].ok
      BY <1>2, <1>4, <1>5, <1>6, <3>1
    <3> QED
      BY <2>1, <2>3, <3>2
  <2>4. CASE q # r
    <3> SUFFICES ASSUME asker'[q].at = "over"
                 PROVE  \E j \in 1 .. n : /\ passes'[j].stamp = asker'[q].stamp
                                          /\ ~passes'[j].ok
      BY <1>6, <2>2, <2>4 DEF RefusedWas
    <3>1. asker[q].at = "over"
      BY <1>1, <1>2, <2>4
    <3>2. PICK j \in 1 .. LastPass : passes[j].stamp = asker[q].stamp /\ ~passes[j].ok
      BY <3>1 DEF LimiterInv, RefusedWas
    <3>3. j \in 1 .. n /\ passes'[j] = passes[j]
      BY <1>2, <1>6
    <3> QED
      BY <2>1, <3>2, <3>3
  <2> QED
    BY <2>3, <2>4
<1>10. ASSUME NEW j \in 1 .. n PROVE Past(j)'
  <2>1. CASE j \in 1 .. LastPass
    <3>1. passes[j].stamp <= passes[j].at /\ passes[j].at <= clock
      BY <2>1 DEF LimiterInv, Past
    <3> QED
      BY <1>1, <1>6, <2>1, <3>1 DEF Past
  <2>2. CASE j = n
    <3>1. passes'[j].stamp = s /\ passes'[j].at = clock
      BY <1>4, <1>6, <2>2
    <3>2. s <= clock /\ clock <= clock
      BY <1>2, <1>3
    <3> QED
      BY <1>1, <3>1, <3>2 DEF Past
  <2> QED
    BY <1>7, <2>1, <2>2
<1>11. Gone' = clock + PassWindow + 1
  BY <1>4, <1>6 DEF Gone
<1>12. life' >= Gone' - clock'
  BY <1>1, <1>2, <1>11
<1>13. ASSUME InOrder(LastPass)'
       PROVE  /\ InOrder(LastPass) /\ clock <= s + 1
              /\ LastPass > 0 => passes[LastPass].stamp < s
  <2>1. InOrder(LastPass)
    BY <1>6, <1>13
  <2>2. /\ \A j \in 1 .. LastPass' - 1 : passes'[j].stamp < passes'[j + 1].stamp
        /\ \A j \in 1 .. LastPass' : passes'[j].at <= passes'[j].stamp + 1
    BY <1>13 DEF InOrder, Prompt
  <2>3. LastPass' - 1 = LastPass /\ n \in 1 .. LastPass'
    BY <1>2, <1>6
  <2>4. clock <= s + 1
    BY <1>4, <1>6, <2>2, <2>3
  <2>5. ASSUME LastPass > 0 PROVE passes[LastPass].stamp < s
    <3>1. LastPass \in 1 .. LastPass /\ LastPass \in 1 .. LastPass' - 1
      BY <1>2, <2>3, <2>5
    <3> QED
      BY <1>4, <1>6, <2>2, <3>1
  <2> QED
    BY <2>1, <2>4, <2>5
<1>14. ASSUME InOrder(LastPass)' PROVE Increasing'
  <2> SUFFICES ASSUME NEW j \in 1 .. n, NEW k \in 1 .. n, j < k
               PROVE  passes'[j].stamp < passes'[k].stamp
    BY <1>6 DEF Increasing
  <2>1. j \in 1 .. LastPass /\ passes'[j] = passes[j]
    BY <1>2, <1>6
  <2>2. CASE k \in 1 .. LastPass
    BY <1>6, <1>13, <1>14, <2>1, <2>2 DEF LimiterInv, Increasing
  <2>3. CASE k = n
    <3>1. LastPass > 0 /\ LastPass \in 1 .. LastPass
      BY <1>2, <2>1
    <3>2. passes[LastPass].stamp < s
      BY <1>13, <1>14, <3>1
    <3>3. j = LastPass \/ passes[j].stamp < passes[LastPass].stamp
      BY <1>2, <1>13, <1>14, <2>1, <3>1 DEF LimiterInv, Increasing
    <3>4. passes[j].stamp \in Int /\ passes[LastPass].stamp \in Int
      BY <2>1, <3>1, PassType
    <3> QED
      BY <1>3, <1>4, <1>6, <2>1, <2>3, <3>2, <3>3, <3>4
  <2> QED
    BY <1>7, <2>2, <2>3
<1>15. ASSUME InOrder(LastPass)', NEW j \in 1 .. LastPass, j \in Granted(LastPass)'
       PROVE  /\ passes[j].ok /\ passes[j].stamp > s - PassWindow
              /\ LastPass > 0 /\ j \in Granted(LastPass) /\ passes[j].stamp \in Recorded(r)
  <2>1. passes'[j].ok /\ passes'[j].stamp > passes'[n].stamp - PassWindow
    BY <1>6, <1>15 DEF Granted
  <2>2. passes[j].ok /\ passes[j].stamp > s - PassWindow
    BY <1>4, <1>6, <2>1
  <2>3. LastPass > 0
    BY <1>2
  <2>4. j \in Granted(LastPass) /\ passes[j].stamp \in zset
    BY <1>3, <1>13, <1>15, <2>2, <2>3, WindowIsKept
  <2> QED
    BY <2>2, <2>3, <2>4 DEF Recorded
<1>16. ASSUME InOrder(LastPass)' PROVE Kept'
  <2> SUFFICES ASSUME NEW j \in Granted(LastPass)' PROVE passes'[j].stamp \in zset'
    BY DEF Kept
  <2>1. j \in 1 .. n
    BY <1>6 DEF Granted
  <2>2. CASE j \in 1 .. LastPass
    BY <1>1, <1>6, <1>15, <1>16, <2>2
  <2>3. CASE j = n
    BY <1>1, <1>4, <1>6, <2>3
  <2> QED
    BY <1>7, <2>1, <2>2, <2>3
<1>17. ASSUME InOrder(LastPass)' PROVE Cardinality(Granted(LastPass)') <= PassLimit
  <2> DEFINE G == Granted(LastPass)' \ {n}
  <2>1. Granted(LastPass)' \subseteq 1 .. n
    BY <1>6 DEF Granted
  <2>2. G \subseteq 1 .. LastPass /\ Increasing
    BY <1>7, <1>13, <1>17, <2>1 DEF LimiterInv
  <2>3. IsFiniteSet(zset) /\ IsFiniteSet(Recorded(r))
    <3>1. IsFiniteSet(0 .. clock)
      BY <1>2, FS_Interval
    <3> QED
      BY <1>2, <3>1, FS_Subset DEF Recorded
  <2>4. \A j \in G : passes[j].stamp \in Recorded(r) /\ j \in Granted(LastPass) /\ LastPass > 0
    BY <1>15, <1>17, <2>2
  <2>5. /\ IsFiniteSet(G) /\ Cardinality(G) \in Nat /\ Cardinality(Recorded(r)) \in Nat
        /\ Cardinality(G) <= Cardinality(Recorded(r))
    <3> HIDE DEF G
    <3> QED
      BY <2>2, <2>3, <2>4, GrantedFitsInSet
  <2>6. CASE ~full
    <3>1. Cardinality(G) < PassLimit
      BY <2>5, <2>6 DEF Exceeds
    <3>2. Granted(LastPass)' \subseteq G \cup {n}
      OBVIOUS
    <3>3. IsFiniteSet(G \cup {n}) /\ Cardinality(G \cup {n}) <= Cardinality(G) + 1
      <4>1. n \notin G
        OBVIOUS
      <4> HIDE DEF G, n
      <4>2. IsFiniteSet(G \cup {n}) /\ Cardinality(G \cup {n}) = Cardinality(G) + 1
        BY <2>5, <4>1, FS_AddElement
      <4> QED
        BY <2>5, <4>2
    <3>4. /\ IsFiniteSet(Granted(LastPass)')
          /\ Cardinality(Granted(LastPass)') <= Cardinality(G \cup {n})
      BY <3>2, <3>3, FS_Subset
    <3>5. Cardinality(Granted(LastPass)') \in Nat /\ Cardinality(G \cup {n}) \in Nat
      BY <3>3, <3>4, FS_CardinalityType
    <3> HIDE DEF G
    <3> QED
      BY <2>5, <3>1, <3>3, <3>4, <3>5
  <2>7. CASE full
    <3>1. n \notin Granted(LastPass)'
      BY <1>5, <1>6, <2>7 DEF Granted
    <3>2. Granted(LastPass)' = G
      BY <3>1
    <3>3. CASE LastPass = 0
      <4>1. G = {}
        BY <2>2, <3>3
      <4> QED
        BY <3>2, <4>1, FS_EmptySet
    <3>4. CASE LastPass > 0
      <4>1. LastPass \in 1 .. LastPass /\ IsFiniteSet(1 .. LastPass)
        BY <1>2, <3>4, FS_Interval
      <4>2. Cardinality(Granted(LastPass)) <= PassLimit
        BY <1>13, <1>17, <4>1 DEF LimiterInv, LimitHolds, LastPass
      <4>3. Granted(LastPass) \subseteq 1 .. LastPass
        BY DEF Granted
      <4>4. IsFiniteSet(Granted(LastPass))
        BY <4>1, <4>3, FS_Subset
      <4>5. G \subseteq Granted(LastPass)
        BY <2>4
      <4>6. /\ Cardinality(G) <= Cardinality(Granted(LastPass))
            /\ Cardinality(Granted(LastPass)) \in Nat
        BY <4>4, <4>5, FS_Subset, FS_CardinalityType
      <4> HIDE DEF G
      <4> QED
        BY <2>5, <3>2, <4>2, <4>6
    <3> QED
      BY <1>2, <3>3, <3>4
  <2> QED
    BY <2>6, <2>7
<1>18. LimitHolds'
  <2> SUFFICES ASSUME NEW i \in 1 .. n, InOrder(i)'
               PROVE  Cardinality(Granted(i)') <= PassLimit
    BY <1>6 DEF LimitHolds, LastPass
  <2>1. CASE i \in 1 .. LastPass
    BY <1>6, <2>1 DEF LimiterInv, LimitHolds, LastPass
  <2>2. CASE i = n
    BY <1>6, <1>17, <2>2
  <2> QED
    BY <1>7, <2>1, <2>2
<1> QED
  BY <1>6, <1>8, <1>9, <1>10, <1>12, <1>14, <1>16, <1>18 DEF LimiterInv
LEMMA LimiterNextInv == LimiterInv /\ [LimiterNext]_limiterVars => LimiterInv'
<1> SUFFICES ASSUME LimiterInv, [LimiterNext]_limiterVars PROVE LimiterInv'
  OBVIOUS
<1>1. ASSUME UNCHANGED <<clock, zset, life, passes>>,
             asker' \in [Callers -> [at: AskerPlaces, stamp: 0 .. MaxClock]],
             \A q \in Callers : /\ asker'[q].stamp \in {asker[q].stamp, clock}
                                /\ asker'[q].at = "over" => asker'[q] = asker[q]
      PROVE  LimiterInv'
  <2>1. LimiterTypeOK'
    BY <1>1 DEF LimiterInv, LimiterTypeOK
  <2>2. ASSUME NEW q \in Callers PROVE asker'[q].stamp <= clock /\ RefusedWas(q)'
    <3>1. asker'[q].stamp <= clock
      <4>1. asker[q].stamp <= clock /\ clock \in Int
        BY DEF LimiterInv, LimiterTypeOK
      <4>2. asker'[q].stamp \in {asker[q].stamp, clock}
        BY <1>1
      <4> QED
        BY <4>1, <4>2
    <3>2. RefusedWas(q)'
      BY <1>1 DEF LimiterInv, RefusedWas, LastPass
    <3> QED
      BY <3>1, <3>2
  <2>3. \A j \in 1 .. LastPass : Past(j)'
    BY <1>1 DEF LimiterInv, Past
  <2>4. Kept <=> Kept'
    BY <1>1, SamePasses DEF Kept
  <2> QED
    BY <1>1, <2>1, <2>2, <2>3, <2>4, SamePasses DEF LimiterInv
<1>2. asker \in [Callers -> [at: AskerPlaces, stamp: 0 .. MaxClock]] /\ clock \in 0 .. MaxClock
  BY DEF LimiterInv, LimiterTypeOK
<1>3. ASSUME NEW r \in Callers, ReadClock(r) PROVE LimiterInv'
  <2>1. asker' = [asker EXCEPT ![r] = [at |-> "read", stamp |-> clock]]
        /\ UNCHANGED <<clock, zset, life, passes>>
    BY <1>3 DEF ReadClock
  <2> QED
    BY <1>1, <1>2, <2>1 DEF AskerPlaces
<1>4. ASSUME NEW r \in Callers, LimiterFails(r) PROVE LimiterInv'
  <2>1. asker' = [asker EXCEPT ![r].at = "error"] /\ UNCHANGED <<clock, zset, life, passes>>
    BY <1>4 DEF LimiterFails, PutAsker
  <2> QED
    BY <1>1, <1>2, <2>1 DEF AskerPlaces
<1>5. CASE UNCHANGED limiterVars
  BY <1>1, <1>2, <1>5 DEF limiterVars
<1> QED
  BY <1>3, <1>4, <1>5, RunPipelineInv, TakeBackInv, LimiterTickInv DEF LimiterNext

\* While its key lives, the sorted set holds the reading of every request granted
\* within the window (is_allowed).
THEOREM LimiterInvariance == LimiterSpec => []LimiterInv
<1>1. LimiterInit => LimiterInv
  <2> SUFFICES ASSUME LimiterInit PROVE LimiterInv
    OBVIOUS
  <2>1. passes = <<>> /\ LastPass = 0
    BY DEF LimiterInit, LastPass
  <2>2. LimiterTypeOK
    BY LimiterAssumption DEF LimiterInit, LimiterTypeOK, AskerPlaces
  <2>3. \A r \in Callers : asker[r].stamp <= clock /\ RefusedWas(r)
    BY DEF LimiterInit, RefusedWas
  <2>4. LimitHolds /\ Increasing
    BY <2>1 DEF LimitHolds, Increasing
  <2> QED
    BY <2>1, <2>2, <2>3, <2>4 DEF LimiterInv
<1> QED
  BY <1>1, LimiterNextInv, PTL DEF LimiterSpec

\* Among requests that reach Redis in order and in time, no window lets through
\* more than the limit, for any number of requests, limit and window (is_allowed).
THEOREM LimitHoldsAlways == LimiterSpec => []LimitHolds
<1>1. LimiterInv => LimitHolds
  BY DEF LimiterInv
<1> QED
  BY <1>1, LimiterInvariance, PTL

-------------------------------------------------------------------------------
(***************************************************************************)
(* The listings.  Rows are ordered by Before, a strict total order; in a   *)
(* finite set the ranks are 0, 1, 2, ... without a gap, which is why a     *)
(* page that is not full is the last one.  By token, what is returned lies *)
(* up to the token and what is missing lies after it; by number, what is   *)
(* missing has a rank past the pages read, and ranks only grow.            *)
(***************************************************************************)

WalkInv ==
    /\ ViewTypeOK
    /\ IsFiniteSet(booked)
    /\ place = "start" => page = 1 /\ \A p \in Listing : returned[p] = 0
    /\ place = "more" /\ walk = "token" =>
          /\ \A p \in Listing : returned[p] >= 1 => ~Before(token, p)
          /\ \A p \in early : returned[p] = 0 => Before(token, p)
    /\ place = "more" /\ walk = "number" =>
          /\ page \in Nat \ {0}
          /\ \A p \in early : returned[p] = 0 => Rank(p, booked) >= (page - 1) * PageSize
    /\ WalkIsComplete
\* The order of the listing is strict and total.
LEMMA ListingOrder ==
    ASSUME NEW p \in Listing, NEW q \in Listing
    PROVE  /\ ~Before(p, p)
           /\ p = q \/ Before(p, q) \/ Before(q, p)
           /\ \A r \in Listing : Before(p, q) /\ Before(q, r) => Before(p, r)
<1>1. /\ p[1] \in Nat /\ p[2] \in Nat /\ p = <<p[1], p[2]>>
      /\ q[1] \in Nat /\ q[2] \in Nat /\ q = <<q[1], q[2]>>
      /\ \A r \in Listing : r[1] \in Nat /\ r[2] \in Nat
  <2>1. \A r \in Listing : r[1] \in Moments /\ r[2] \in Ids /\ r = <<r[1], r[2]>>
    BY DEF Listing
  <2>2. (\A m \in Moments : m \in Nat) /\ (\A i \in Ids : i \in Nat)
    BY ViewAssumption
  <2> QED
    BY <2>1, <2>2
<1> QED
  BY <1>1 DEF Before

\* What is before p in a larger set is more.
LEMMA RankGrows ==
    ASSUME NEW S, NEW T, S \subseteq T, IsFiniteSet(T), NEW p
    PROVE  Rank(p, S) \in Nat /\ Rank(p, T) \in Nat /\ Rank(p, S) <= Rank(p, T)
<1> DEFINE before(R) == {q \in R : Before(q, p)}
<1>1. before(S) \subseteq before(T) /\ before(T) \subseteq T
  OBVIOUS
<1>2. /\ IsFiniteSet(before(T)) /\ IsFiniteSet(before(S))
      /\ Cardinality(before(S)) <= Cardinality(before(T))
  BY <1>1, FS_Subset
<1> QED
  BY <1>2, FS_CardinalityType DEF Rank

\* The earlier row has the smaller rank.
LEMMA RankIsMonotone ==
    ASSUME NEW S \in SUBSET Listing, IsFiniteSet(S), NEW p \in S, NEW q \in S, Before(p, q)
    PROVE  Rank(p, S) \in Nat /\ Rank(q, S) \in Nat /\ Rank(p, S) < Rank(q, S)
<1> DEFINE before(r) == {s \in S : Before(s, r)}
<1>1. before(p) \subseteq before(q) \ {p} /\ p \in before(q) /\ before(q) \subseteq S
  BY ListingOrder
<1>2. IsFiniteSet(before(q))
  BY <1>1, FS_Subset
<1> HIDE DEF before
<1>3. /\ IsFiniteSet(before(q) \ {p})
      /\ Cardinality(before(q) \ {p}) = Cardinality(before(q)) - 1
  BY <1>1, <1>2, FS_RemoveElement
<1>4. IsFiniteSet(before(p)) /\ Cardinality(before(p)) <= Cardinality(before(q) \ {p})
  BY <1>1, <1>3, FS_Subset
<1>5. Cardinality(before(p)) \in Nat /\ Cardinality(before(q)) \in Nat
  BY <1>2, <1>4, FS_CardinalityType
<1>6. Rank(p, S) = Cardinality(before(p)) /\ Rank(q, S) = Cardinality(before(q))
  BY DEF before, Rank
<1> QED
  BY <1>3, <1>4, <1>5, <1>6

\* The ranks in a finite set are 0 to its size less one, each once.
LEMMA RanksHaveNoGap ==
    ASSUME NEW S \in SUBSET Listing, IsFiniteSet(S)
    PROVE  /\ Cardinality(S) \in Nat
           /\ [p \in S |-> Rank(p, S)] \in Bijection(S, 0 .. Cardinality(S) - 1)
<1> DEFINE n == Cardinality(S)
           rank == [p \in S |-> Rank(p, S)]
<1>1. n \in Nat
  BY FS_CardinalityType
<1>2. ASSUME NEW p \in S PROVE rank[p] \in 0 .. n - 1
  <2> DEFINE before == {q \in S : Before(q, p)}
  <2>1. before \subseteq S \ {p}
    BY ListingOrder
  <2>2. IsFiniteSet(S \ {p}) /\ Cardinality(S \ {p}) = n - 1
    BY FS_RemoveElement
  <2>3. IsFiniteSet(before) /\ Cardinality(before) <= n - 1
    BY <2>1, <2>2, FS_Subset
  <2>4. Cardinality(before) \in Nat
    BY <2>3, FS_CardinalityType
  <2>5. rank[p] = Cardinality(before)
    BY DEF Rank
  <2> HIDE DEF rank, before, n
  <2> QED
    BY <1>1, <2>3, <2>4, <2>5
<1>3. ASSUME NEW p \in S, NEW q \in S, p # q PROVE rank[p] # rank[q]
  <2>1. p \in Listing /\ q \in Listing
    OBVIOUS
  <2>2. Before(p, q) \/ Before(q, p)
    BY <1>3, <2>1, ListingOrder
  <2>3. \/ Rank(p, S) \in Nat /\ Rank(q, S) \in Nat /\ Rank(p, S) < Rank(q, S)
        \/ Rank(p, S) \in Nat /\ Rank(q, S) \in Nat /\ Rank(q, S) < Rank(p, S)
    BY <2>2, RankIsMonotone
  <2> QED
    BY <2>3
<1>4. rank \in Injection(S, 0 .. n - 1)
  BY <1>2, <1>3 DEF Injection, IsInjective
<1>5. IsFiniteSet(0 .. n - 1) /\ Cardinality(0 .. n - 1) = n
  <2>1. IsFiniteSet(0 .. n - 1) /\ Cardinality(0 .. n - 1) = IF 0 > n - 1 THEN 0 ELSE (n - 1) - 0 + 1
    BY <1>1, FS_Interval
  <2> QED
    BY <1>1, <2>1
<1>6. rank \in Surjection(S, 0 .. n - 1)
  <2> HIDE DEF rank
  <2> QED
    BY <1>4, <1>5, FS_Injection
<1> QED
  BY <1>1, <1>4, <1>6 DEF Bijection

\* A page is full if there is a row past it.
LEMMA PageIsFull ==
    ASSUME NEW S \in SUBSET Listing, IsFiniteSet(S), NEW low \in Nat, NEW size \in Nat,
           NEW p \in S, Rank(p, S) >= low + size
    PROVE  Cardinality({q \in S : Rank(q, S) \in low .. low + size - 1}) = size
<1> DEFINE n == Cardinality(S)
           rank == [q \in S |-> Rank(q, S)]
           rows == {q \in S : Rank(q, S) \in low .. low + size - 1}
           onRows == [q \in rows |-> Rank(q, S)]
<1>1. n \in Nat /\ rank \in [S -> 0 .. n - 1]
      /\ (\A q, r \in S : q # r => rank[q] # rank[r])
      /\ (\A t \in 0 .. n - 1 : \E s \in S : rank[s] = t)
  <2>1. n \in Nat /\ rank \in Bijection(S, 0 .. n - 1)
    BY RanksHaveNoGap
  <2> HIDE DEF rank, n
  <2> QED
    BY <2>1 DEF Bijection, Injection, Surjection, IsInjective
<1>2. rank[p] \in 0 .. n - 1 /\ low + size < n
  BY <1>1
<1>3. ASSUME NEW t \in low .. low + size - 1 PROVE \E q \in rows : onRows[q] = t
  <2>1. t \in 0 .. n - 1
    BY <1>1, <1>2
  <2>2. PICK q \in S : rank[q] = t
    BY <1>1, <2>1
  <2> QED
    BY <2>2
<1>4. \A q, r \in rows : q # r => onRows[q] # onRows[r]
  BY <1>1
<1>5. onRows \in Bijection(rows, low .. low + size - 1)
  BY <1>3, <1>4 DEF Bijection, Injection, Surjection, IsInjective
<1>6. rows \subseteq S /\ IsFiniteSet(rows)
  BY FS_Subset
<1>7. Cardinality(low .. low + size - 1) = Cardinality(rows)
  <2> HIDE DEF rows, onRows
  <2> QED
    BY <1>5, <1>6, FS_Bijection DEF ExistsBijection
<1>8. Cardinality(low .. low + size - 1) = size
  <2>1. Cardinality(low .. low + size - 1)
          = IF low > low + size - 1 THEN 0 ELSE low + size - 1 - low + 1
    BY FS_Interval
  <2> QED
    BY <2>1
<1> QED
  BY <1>7, <1>8
\* A page by token: S is what lies after the token, or everything.
LEMMA TokenPageInv ==
    ASSUME WalkInv, NEW S \in SUBSET booked, Return(S), walk' = "token",
           early' \subseteq booked,
           \A p \in Listing : returned[p] <= 1,
           \A p \in S : returned[p] = 0,
           \A p \in early' : returned[p] = 0 => p \in S,
           \A p, q \in Listing : returned[p] >= 1 /\ q \in S => Before(p, q)
    PROVE  WalkInv'
<1> USE ViewAssumption
<1> DEFINE rows == PageOf(S)
<1>1. /\ booked' = booked /\ page' = page /\ IsFiniteSet(booked) /\ booked \subseteq Listing
      /\ returned \in [Listing -> Nat] /\ page \in Nat /\ token \in Listing \cup {<<0, 0>>}
      /\ returned' = [p \in Listing |-> returned[p] + (IF p \in rows THEN 1 ELSE 0)]
      /\ place' = IF Cardinality(rows) = PageSize THEN "more" ELSE "end"
  BY DEF WalkInv, ViewTypeOK, Return, Give
<1>2. S \in SUBSET Listing /\ IsFiniteSet(S) /\ rows \subseteq S
  BY <1>1, FS_Subset DEF PageOf
<1>3. \A p \in S : p \in rows <=> Rank(p, S) < PageSize
  BY DEF PageOf
<1> HIDE DEF rows
<1>4. ASSUME NEW p \in Listing
      PROVE  /\ returned'[p] \in Nat /\ returned'[p] <= 1
             /\ returned'[p] >= 1 <=> returned[p] >= 1 \/ p \in rows
  <2>1. returned'[p] = returned[p] + (IF p \in rows THEN 1 ELSE 0) /\ returned[p] \in Nat
    BY <1>1
  <2>2. p \in rows => returned[p] = 0
    BY <1>2
  <2>3. returned[p] <= 1
    OBVIOUS
  <2> QED
    BY <2>1, <2>2, <2>3
<1>5. returned' \in [Listing -> Nat]
  BY <1>1
<1>6. ASSUME NEW p \in early', returned'[p] = 0
      PROVE  p \in S /\ p \notin rows /\ Rank(p, S) \in Nat /\ Rank(p, S) >= PageSize
  <2>1. p \in Listing
    BY <1>1
  <2>2. returned[p] = 0 /\ p \notin rows
    BY <1>1, <1>4, <1>6, <2>1
  <2>3. p \in S /\ ~(Rank(p, S) < PageSize)
    BY <1>3, <2>2
  <2>4. Rank(p, S) \in Nat
    BY <1>2, RankGrows
  <2> QED
    BY <2>2, <2>3, <2>4
<1>7. CASE Cardinality(rows) = PageSize
  <2>1. place' = "more"
    BY <1>1, <1>7
  <2>2. token' \in rows /\ \A q \in rows : ~Before(token', q)
    BY <2>1 DEF Return, rows
  <2>3. token' \in Listing /\ token' \in S
    BY <1>2, <2>2
  <2>4. ASSUME NEW p \in Listing, returned'[p] >= 1 PROVE ~Before(token', p)
    <3>1. CASE p \in rows
      BY <2>2, <3>1
    <3>2. CASE p \notin rows
      <4>1. Before(p, token')
        BY <1>4, <2>3, <2>4, <3>2
      <4> QED
        BY <2>3, <4>1, ListingOrder
    <3> QED
      BY <3>1, <3>2
  <2>5. ASSUME NEW p \in early', returned'[p] = 0 PROVE Before(token', p)
    <3>1. p \in S /\ p \notin rows /\ Rank(p, S) \in Nat /\ Rank(p, S) >= PageSize
      BY <1>6, <2>5
    <3>2. Rank(token', S) < PageSize
      BY <1>3, <2>2, <2>3
    <3>3. ~Before(p, token')
      <4> SUFFICES ASSUME Before(p, token') PROVE FALSE
        OBVIOUS
      <4>1. Rank(token', S) \in Nat /\ Rank(p, S) < Rank(token', S)
        BY <1>2, <2>3, <3>1, RankIsMonotone
      <4> QED
        BY <3>1, <3>2, <4>1
    <3>4. p # token' /\ p \in Listing
      BY <1>2, <2>2, <3>1
    <3> QED
      BY <2>3, <3>3, <3>4, ListingOrder
  <2>6. ViewTypeOK'
    BY <1>1, <1>5, <2>1, <2>3 DEF ViewTypeOK
  <2>7. WalkIsComplete'
    BY <1>4, <2>1 DEF WalkIsComplete
  <2> QED
    BY <1>1, <2>1, <2>4, <2>5, <2>6, <2>7 DEF WalkInv
<1>8. CASE Cardinality(rows) # PageSize
  <2>1. place' = "end" /\ token' = token
    <3>1. place' = "end"
      BY <1>1, <1>8
    <3> QED
      BY <3>1 DEF Return
  <2>2. ASSUME NEW p \in early' PROVE returned'[p] >= 1
    <3> SUFFICES ASSUME returned'[p] = 0 PROVE FALSE
      BY <1>1, <1>4
    <3>1. p \in S /\ Rank(p, S) \in Nat /\ Rank(p, S) >= PageSize
      BY <1>6
    <3>2. Cardinality({q \in S : Rank(q, S) \in 0 .. 0 + PageSize - 1}) = PageSize
      <4>1. Rank(p, S) >= 0 + PageSize /\ PageSize \in Nat /\ 0 \in Nat
        BY <3>1
      <4> QED
        BY <1>2, <3>1, <4>1, PageIsFull
    <3>3. {q \in S : Rank(q, S) \in 0 .. 0 + PageSize - 1} = rows
      <4>1. \A q \in S : Rank(q, S) \in Nat
        BY <1>2, RankGrows
      <4>2. \A q \in S : Rank(q, S) \in 0 .. 0 + PageSize - 1 <=> Rank(q, S) < PageSize
        BY <4>1
      <4> QED
        BY <1>2, <1>3, <4>2
    <3> QED
      BY <1>8, <3>2, <3>3
  <2>3. ViewTypeOK'
    BY <1>1, <1>5, <2>1 DEF ViewTypeOK
  <2>4. WalkIsComplete'
    BY <1>4, <2>1, <2>2 DEF WalkIsComplete
  <2> QED
    BY <1>1, <2>1, <2>3, <2>4 DEF WalkInv
<1> QED
  BY <1>7, <1>8
\* A page by number.
LEMMA NumberedPageInv ==
    ASSUME WalkInv, NumberedPage PROVE WalkInv'
<1> USE ViewAssumption
<1> DEFINE rows == Numbered(page)
           low == (page - 1) * PageSize
<1>1. /\ booked' = booked /\ page' = page + 1 /\ token' = token
      /\ IsFiniteSet(booked) /\ booked \in SUBSET Listing
      /\ returned \in [Listing -> Nat] /\ token \in Listing \cup {<<0, 0>>}
      /\ returned' = [p \in Listing |-> returned[p] + (IF p \in rows THEN 1 ELSE 0)]
      /\ place' = IF Cardinality(rows) = PageSize THEN "more" ELSE "end"
      /\ walk' = "number"
  BY DEF WalkInv, ViewTypeOK, NumberedPage, Give, Begin, GoOn
<1>2. /\ page \in Nat \ {0} /\ early' \subseteq booked
      /\ \A p \in early' : returned[p] = 0 => Rank(p, booked) >= low
  <2>1. CASE Begin("number")
    <3>1. page = 1 /\ early' = booked
      BY <2>1 DEF WalkInv, Begin
    <3>2. \A p \in booked : Rank(p, booked) >= 0
      BY <1>1, RankGrows
    <3>3. low = 0
      BY <3>1
    <3> QED
      BY <3>1, <3>2, <3>3
  <2>2. CASE GoOn("number")
    BY <2>2 DEF WalkInv, ViewTypeOK, GoOn
  <2> QED
    BY <2>1, <2>2 DEF NumberedPage
<1>3. low \in Nat /\ page * PageSize = low + PageSize /\ (page' - 1) * PageSize = low + PageSize
  <2>1. page - 1 \in Nat /\ page' - 1 = page
    BY <1>1, <1>2
  <2>2. low \in Nat /\ page * PageSize = low + PageSize
    BY <1>2, <2>1
  <2> QED
    BY <2>1, <2>2
<1>4. rows = {q \in booked : Rank(q, booked) \in low .. low + PageSize - 1}
  BY <1>3 DEF Numbered
<1> HIDE DEF rows, low
<1>5. returned' \in [Listing -> Nat] /\ page' \in Nat \ {0}
  BY <1>1, <1>2
<1>6. ASSUME NEW p \in early', returned'[p] = 0
      PROVE  p \in booked /\ Rank(p, booked) \in Nat /\ Rank(p, booked) >= low + PageSize
  <2>1. p \in Listing /\ p \in booked /\ returned[p] \in Nat
    BY <1>1, <1>2
  <2>2. returned[p] = 0 /\ p \notin rows
    BY <1>1, <1>6, <2>1
  <2>3. Rank(p, booked) \in Nat /\ Rank(p, booked) >= low
    BY <1>1, <1>2, <2>2, RankGrows
  <2> QED
    BY <1>3, <1>4, <2>1, <2>2, <2>3
<1>7. ViewTypeOK'
  BY <1>1, <1>2, <1>5 DEF ViewTypeOK
<1>8. CASE Cardinality(rows) = PageSize
  <2>1. place' = "more"
    BY <1>1, <1>8
  <2>2. \A p \in early' : returned'[p] = 0 => Rank(p, booked') >= (page' - 1) * PageSize
    BY <1>1, <1>3, <1>6
  <2> QED
    BY <1>1, <1>5, <1>7, <2>1, <2>2 DEF WalkInv, WalkIsComplete
<1>9. CASE Cardinality(rows) # PageSize
  <2>1. place' = "end"
    BY <1>1, <1>9
  <2>2. ASSUME NEW p \in early' PROVE returned'[p] >= 1
    <3> SUFFICES ASSUME returned'[p] = 0 PROVE FALSE
      BY <1>1, <1>2, <1>5
    <3>1. p \in booked /\ Rank(p, booked) >= low + PageSize
      BY <1>6
    <3> QED
      BY <1>1, <1>3, <1>4, <1>9, <3>1, PageIsFull
  <2> QED
    BY <1>1, <1>7, <2>1, <2>2 DEF WalkInv, WalkIsComplete
<1> QED
  BY <1>8, <1>9

LEMMA WalkNextInv == WalkInv /\ [ViewNext]_viewVars => WalkInv'
<1> SUFFICES ASSUME WalkInv, [ViewNext]_viewVars PROVE WalkInv'
  OBVIOUS
<1>1. /\ booked \in SUBSET Listing /\ early \subseteq booked /\ IsFiniteSet(booked)
      /\ returned \in [Listing -> Nat]
  BY DEF WalkInv, ViewTypeOK
<1>2. CASE FirstPage
  <2>1. /\ Return(booked) /\ walk' = "token" /\ early' = booked
        /\ \A p \in Listing : returned[p] = 0
    BY <1>2 DEF FirstPage, Begin, WalkInv
  <2> QED
    BY <1>1, <2>1, TokenPageInv
<1>3. CASE NextPage
  <2>1. /\ Return(Rest(token)) /\ walk = "token" /\ walk' = "token" /\ early' = early
        /\ place = "more"
    BY <1>3 DEF NextPage, GoOn
  <2>2. /\ \A p \in Listing : returned[p] \in Nat /\ returned[p] <= 1
        /\ \A p \in Listing : returned[p] >= 1 => ~Before(token, p)
        /\ \A p \in early : returned[p] = 0 => Before(token, p)
    BY <1>1, <2>1 DEF WalkInv, WalkIsComplete
  <2>3. Rest(token) \in SUBSET booked /\ \A p \in booked : p \in Rest(token) <=> Before(token, p)
    BY DEF Rest
  <2>4. \A p \in Rest(token) : returned[p] = 0
    BY <1>1, <2>2, <2>3
  <2>5. ASSUME NEW p \in Listing, NEW q \in Listing, returned[p] >= 1, q \in Rest(token)
        PROVE  Before(p, q)
    <3>1. ~Before(token, p) /\ Before(token, q)
      BY <1>1, <2>2, <2>3, <2>5
    <3>2. p # q
      BY <3>1
    <3>3. token \in Listing \cup {<<0, 0>>}
      BY DEF WalkInv, ViewTypeOK
    <3>4. token \in Nat \X Nat /\ p \in Nat \X Nat /\ q \in Nat \X Nat
      <4>1. \A r \in Listing : r \in Nat \X Nat
        BY ViewAssumption DEF Listing
      <4> QED
        BY <3>3, <4>1
    <3>5. /\ token[1] \in Nat /\ token[2] \in Nat /\ p[1] \in Nat /\ p[2] \in Nat
          /\ q[1] \in Nat /\ q[2] \in Nat
      BY <3>4
    <3> QED
      BY <3>1, <3>5 DEF Before
  <2> QED
    BY <1>1, <2>1, <2>2, <2>3, <2>4, <2>5, TokenPageInv
<1>4. ASSUME NEW q \in Listing, Book(q) PROVE WalkInv'
  <2>1. /\ booked' = booked \cup {q} /\ UNCHANGED <<walk, place, token, page, early, returned>>
    BY <1>4 DEF Book
  <2>2. IsFiniteSet(booked') /\ booked \subseteq booked' /\ booked' \subseteq Listing
    BY <1>1, <2>1, FS_AddElement
  <2>3. \A p \in early : /\ Rank(p, booked) <= Rank(p, booked')
                         /\ Rank(p, booked) \in Nat /\ Rank(p, booked') \in Nat
    BY <2>2, RankGrows
  <2>4. ASSUME place = "more", walk = "number", NEW p \in early, returned[p] = 0
        PROVE  Rank(p, booked') >= (page - 1) * PageSize
    <3>1. Rank(p, booked) >= (page - 1) * PageSize /\ page \in Nat \ {0}
      BY <2>4 DEF WalkInv
    <3>2. (page - 1) * PageSize \in Int
      BY <3>1, ViewAssumption
    <3> QED
      BY <2>3, <3>1, <3>2
  <2>5. ViewTypeOK' /\ WalkIsComplete'
    BY <2>1, <2>2 DEF WalkInv, ViewTypeOK, WalkIsComplete
  <2> QED
    BY <2>1, <2>2, <2>4, <2>5 DEF WalkInv
<1>5. CASE UNCHANGED viewVars
  BY <1>5 DEF viewVars, WalkInv, ViewTypeOK, WalkIsComplete
<1> QED
  BY <1>2, <1>3, <1>4, <1>5, NumberedPageInv DEF ViewNext

\* What a walk has not returned yet lies ahead of it, by token or by page number
\* (get_virtual_portfolio_transactions, list_dashboard_transactions).
THEOREM WalkInvariance == ViewSpec => []WalkInv
<1>1. ViewInit => WalkInv
  BY FS_EmptySet DEF ViewInit, WalkInv, ViewTypeOK, WalkIsComplete
<1> QED
  BY <1>1, WalkNextInv, PTL DEF ViewSpec

\* A walk through a listing misses no row and, by token, repeats none, whatever is
\* booked meanwhile, for any page size (get_virtual_portfolio_transactions,
\* list_dashboard_transactions).
THEOREM WalkIsCompleteAlways == ViewSpec => []WalkIsComplete
<1>1. WalkInv => WalkIsComplete
  BY DEF WalkInv
<1> QED
  BY <1>1, WalkInvariance, PTL
===============================================================================
