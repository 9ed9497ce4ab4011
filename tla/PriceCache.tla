----------------------------- MODULE PriceCache -----------------------------
(***************************************************************************)
(* PriceService.GetPrice: the quotes of a market, each kept in a map for   *)
(* cacheTTL from the instant it was stored.  A miss fetches outside the    *)
(* lock, so several callers may fetch one symbol at once and store their   *)
(* answers in any order.  A quote is identified by the instant the market  *)
(* gave it.                                                                *)
(***************************************************************************)
EXTENDS Naturals

CONSTANTS Callers,   \* the goroutines that ask for prices
          Symbols,   \* the tickers and the currency pair they ask for
          cacheTTL,
          Timeout,   \* of the HTTP client: no fetch runs longer
          MaxClock   \* bound on the modelled time

ASSUME TimesAreNatural == cacheTTL \in Nat /\ Timeout \in Nat /\ MaxClock \in Nat

VARIABLES now,
          cache,     \* the map: a partial function of the symbols
          call       \* the last or present GetPrice of each caller

cacheVars == <<now, cache, call>>

Call == [pc : {"none", "fetch", "answer", "served", "failed"},
         symbol : Symbols,
         since : Nat,      \* when the fetch in progress began
         quotedAt : Nat]   \* when the market gave the quote answered or served

NoCall == [pc |-> "none", symbol |-> CHOOSE s \in Symbols : TRUE,
           since |-> 0, quotedAt |-> 0]

CacheInit ==
    /\ now = 0
    /\ cache = [s \in {} |-> 0]
    /\ call = [c \in Callers |-> NoCall]

Fetching(c) == call[c].pc \in {"fetch", "answer"}

\* Faulty variant: an expired entry is good for one instant more.
Valid_AtTTL(s) == s \in DOMAIN cache /\ now - cache[s].fetchedAt <= cacheTTL

Valid(s) == s \in DOMAIN cache /\ now - cache[s].fetchedAt < cacheTTL

Hit(c, s) ==
    /\ ~Fetching(c)
    /\ Valid(s)
    /\ call' = [call EXCEPT ![c] = [pc |-> "served", symbol |-> s, since |-> 0,
                                    quotedAt |-> cache[s].quotedAt]]
    /\ UNCHANGED <<now, cache>>

Miss(c, s) ==
    /\ ~Fetching(c)
    /\ ~Valid(s)
    /\ call' = [call EXCEPT ![c] = [pc |-> "fetch", symbol |-> s, since |-> now,
                                    quotedAt |-> 0]]
    /\ UNCHANGED <<now, cache>>

\* Yahoo's side of the fetch: the response carries the quote of this instant.
Quote(c) ==
    /\ call[c].pc = "fetch"
    /\ call' = [call EXCEPT ![c].pc = "answer", ![c].quotedAt = now]
    /\ UNCHANGED <<now, cache>>

\* The response is decoded, the quote stored and returned.
CacheSet(c) ==
    /\ call[c].pc = "answer"
    /\ cache' = [s \in DOMAIN cache \cup {call[c].symbol} |->
                    IF s = call[c].symbol
                    THEN [quotedAt |-> call[c].quotedAt, fetchedAt |-> now]
                    ELSE cache[s]]
    /\ call' = [call EXCEPT ![c].pc = "served", ![c].since = 0]
    /\ UNCHANGED now

\* No connection, a status other than 200, a body that does not decode, no
\* result in it, or the client's timeout: nothing is stored.
FetchFails(c) ==
    /\ Fetching(c)
    /\ call' = [call EXCEPT ![c] = [NoCall EXCEPT !.pc = "failed"]]
    /\ UNCHANGED <<now, cache>>

\* The callers have used what they were served.
Return(callers) ==
    /\ \A c \in callers : ~Fetching(c)
    /\ call' = [c \in Callers |-> IF c \in callers THEN NoCall ELSE call[c]]
    /\ UNCHANGED <<now, cache>>

\* Faulty variant: the client has no timeout.
Tick_Unbounded ==
    /\ now < MaxClock
    /\ now' = now + 1
    /\ UNCHANGED <<cache, call>>

\* Time passes while no fetch has reached the client's timeout.
Tick ==
    /\ now < MaxClock
    /\ \A c \in Callers : Fetching(c) => now < call[c].since + Timeout
    /\ now' = now + 1
    /\ UNCHANGED <<cache, call>>

GetPrice(c, s) == Hit(c, s) \/ Miss(c, s)

Fetch(c) == Quote(c) \/ CacheSet(c) \/ FetchFails(c)

CacheNext ==
    \/ Tick
    \/ \E callers \in SUBSET Callers : Return(callers)
    \/ \E c \in Callers : Fetch(c) \/ \E s \in Symbols : GetPrice(c, s)

CacheSpec == CacheInit /\ [][CacheNext]_cacheVars

\* "TTL-based invalidation" (price.go:20) counts from the store, not from the
\* quote, and a slow fetch may store over a younger answer.  Still no caller is
\* ever served a quote as old as the lifetime of an entry and of a fetch together.
QuotesAreFresh ==
    [][\A c \in Callers :
          call'[c] # call[c] /\ call'[c].pc = "served" =>
              \/ now - call'[c].quotedAt < cacheTTL + Timeout
              \/ now - call'[c].quotedAt <= Timeout]_cacheVars
==============================================================================
