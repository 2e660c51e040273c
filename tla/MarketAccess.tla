------------------------------ MODULE MarketAccess ------------------------------
(***************************************************************************)
(* Calls to the broker and to its market data: the access token that       *)
(* AlpacaBrokerClient (market_gateway/alpaca_broker.py) shares among all   *)
(* requests of a process, and the read caches of api_gateway/main.py.      *)
(*                                                                         *)
(* Coroutines interleave at each await.  Several requests may fetch a      *)
(* token at once, and the token a request has got keeps ageing until its   *)
(* call is sent and answered.  The recorded expiry is counted from the     *)
(* moment the answer is read, not from the moment the token was issued.    *)
(***************************************************************************)
EXTENDS Integers

CONSTANTS
    Calls,     \* concurrent requests
    Timeout,   \* 30 s: how long a call may take; httpx allows it to each phase of one
    TokenLife, \* expires_in
    Margin,    \* 60 s: how much earlier the token is replaced
    Ttl        \* 300 s or 60 s: _INSTRUMENT_CACHE_TTL, _MARKET_HISTORY_CACHE_TTL

ASSUME MarketAssumption ==
    /\ Timeout \in Nat /\ TokenLife \in Nat /\ Margin \in Nat /\ Ttl \in Nat
    /\ Margin >= 2 * Timeout
    /\ TokenLife > Margin

VARIABLES
    cached,  \* the token kept: left to live, and until it is replaced
    quotes,  \* the cache entry: age of the data, age of the entry
    call     \* where each request stands, since when, and what it holds

marketVars == <<cached, quotes, call>>

NoQuotes == [data |-> Ttl + Timeout, entry |-> Ttl]
Idle == [at |-> "idle", since |-> 0, left |-> 0]
CallPlaces == {"idle", "ask", "answer", "send", "quote", "data"}
InFlight(c) == call[c].at # "idle"

Put(c, place, left) == call' = [call EXCEPT ![c] = [at |-> place, since |-> 0, left |-> left]]

-------------------------------------------------------------------------------
(* AlpacaBrokerClient.request and market_data_request.                       *)

\* token(): the cached one, unless there is none or it is due.
CallBroker(c) ==
    /\ call[c].at = "idle"
    /\ IF cached.due > 0 THEN Put(c, "send", cached.left) ELSE Put(c, "ask", 0)
    /\ UNCHANGED <<cached, quotes>>

\* The authorisation server issues a token.
IssueToken(c) ==
    /\ call[c].at = "ask"
    /\ call' = [call EXCEPT ![c].at = "answer", ![c].left = TokenLife]
    /\ UNCHANGED <<cached, quotes>>

\* Mutant: the token is kept to the last second.
UsableFor_WholeLife == TokenLife

\* expires_in - 60, counted from now.
UsableFor == TokenLife - Margin

\* Its answer is read, maybe after that of a later request.
ReadToken(c) ==
    /\ call[c].at = "answer"
    /\ cached' = [left |-> call[c].left, due |-> UsableFor]
    /\ Put(c, "send", call[c].left)
    /\ UNCHANGED quotes

-------------------------------------------------------------------------------
(* get_tradable_trading_assets and get_market_histories.                     *)

\* The cache entry is served while it is younger than the TTL, else fetched.
CallQuotes(c) ==
    /\ call[c].at = "idle" /\ quotes.entry >= Ttl
    /\ Put(c, "quote", 0)
    /\ UNCHANGED <<cached, quotes>>

\* The provider reads its data; from here on they age.
ReadQuotes(c) ==
    /\ call[c].at = "quote"
    /\ call' = [call EXCEPT ![c].at = "data", ![c].left = 0]
    /\ UNCHANGED <<cached, quotes>>

StoreQuotes(c) ==
    /\ call[c].at = "data"
    /\ quotes' = [data |-> call[c].left, entry |-> 0]
    /\ Put(c, "idle", 0)
    /\ UNCHANGED cached

-------------------------------------------------------------------------------
\* The call is answered, or any call fails or times out: 502.
EndCall(c) ==
    /\ InFlight(c)
    /\ Put(c, "idle", 0)
    /\ UNCHANGED <<cached, quotes>>

Down(n) == IF n = 0 THEN 0 ELSE n - 1
UpTo(n, max) == IF n < max THEN n + 1 ELSE max

\* Time passes.  Assumed of the broker: it answers in one piece, so that no call
\* stays under way for longer than a timeout, which httpx applies to each phase
\* (connect, write, read) and not to their sum.
MarketTick ==
    /\ \A c \in Calls : InFlight(c) => call[c].since < Timeout
    /\ cached' = [left |-> Down(cached.left), due |-> Down(cached.due)]
    /\ quotes' = [data |-> UpTo(quotes.data, Ttl + Timeout), entry |-> UpTo(quotes.entry, Ttl)]
    /\ call' = [c \in Calls |->
                  IF ~InFlight(c) THEN call[c]
                  ELSE [call[c] EXCEPT
                          !.since = @ + 1,
                          !.left = IF call[c].at = "data" THEN @ + 1 ELSE Down(@)]]

MarketInit ==
    /\ cached = [left |-> 0, due |-> 0]
    /\ quotes = NoQuotes
    /\ call = [c \in Calls |-> Idle]

MarketNext ==
    \/ MarketTick
    \/ \E c \in Calls : \/ CallBroker(c) \/ IssueToken(c) \/ ReadToken(c)
                        \/ CallQuotes(c) \/ ReadQuotes(c) \/ StoreQuotes(c) \/ EndCall(c)

MarketSpec == MarketInit /\ [][MarketNext]_marketVars

-------------------------------------------------------------------------------
(* Properties.                                                               *)

MarketTypeOK ==
    /\ cached \in [left: 0 .. TokenLife, due: 0 .. TokenLife]
    /\ quotes \in [data: 0 .. Ttl + Timeout, entry: 0 .. Ttl]
    /\ call \in [Calls -> [at: CallPlaces, since: 0 .. Timeout, left: Nat]]

\* A call under way carries a token that is still good, although the token was
\* issued, read and taken from the cache at different moments and an older
\* answer may replace a newer token; and what the cache serves is not older
\* than the TTL and the timeout together.  Both on the condition of MarketTick,
\* that a whole call, and not only each phase of it, ends within the timeout.
CallsAreTimely ==
    /\ \A c \in Calls : call[c].at = "send" => call[c].left > 0
    /\ quotes.entry < Ttl => quotes.data <= quotes.entry + Timeout
===============================================================================
