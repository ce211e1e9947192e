----------------------------- MODULE PriceLookup -----------------------------
(***************************************************************************)
(* What one price lookup observes (app/market_prices, models/market_price) *)
(* and what a pair of observations says about a recommendation.  Prices    *)
(* are positive integers, instants are integers, and the provider and the  *)
(* trading date go with the basis: KIS answers "realtime", KRX "close".    *)
(***************************************************************************)
EXTENDS Integers, Sequences, FiniteSets, SequencesExt

CONSTANTS
    Prices,        \* the prices a provider may answer
    LookbackDays,  \* days KRX is asked about, from the observation's back (7)
    Endpoints,     \* KRX markets asked per day, in order (KOSPI, KOSDAQ, KONEX)
    Attempts,      \* calls of one request, the first included (3)
    MaxTime,       \* bound on the observation times
    None           \* no value

ErrorKinds == {"not_configured", "transport", "authentication", "rate_limit", "server",
               "invalid_ticker", "invalid_payload", "not_found"}
Transient == {"transport", "rate_limit", "server"}

ASSUME LookupAssumption ==
    /\ Prices \subseteq Nat \ {0}
    /\ None \notin Prices /\ None \notin ErrorKinds \cup {"realtime", "close"} /\ MaxTime \in Nat
    /\ LookbackDays \in Nat \ {0} /\ Endpoints \in Nat \ {0} /\ Attempts \in Nat \ {0}

Times == 0 .. MaxTime

\* PriceLookupObservation: its validators tie price, basis and error to the status.
Snapshots ==
    {o \in [status : {"available", "unavailable"}, price : Prices \cup {None},
            basis : {"realtime", "close", None}, error : ErrorKinds \cup {None}, at : Times] :
        IF o.status = "available"
        THEN o.price # None /\ o.basis # None /\ o.error = None
        ELSE o.price = None /\ o.basis = None /\ o.error # None}

Available(price, basis, at) ==
    [status |-> "available", price |-> price, basis |-> basis, error |-> None, at |-> at]
Unavailable(error, at) ==
    [status |-> "unavailable", price |-> None, basis |-> None, error |-> error, at |-> at]

Priced(o) == o.status = "available"

\* _classify_external_error, the same in both clients; 0 is an error that names no status.
ClassifyStatus(code) ==
    CASE code \in {401, 403} -> "authentication"
      [] code = 400 -> "invalid_ticker"
      [] code = 404 -> "not_found"
      [] code = 429 -> "rate_limit"
      [] code >= 500 -> "server"
      [] OTHER -> "transport"

----------------------------------------------------------------------------
(* KrxClosingPriceClient *)

\* _KrxEndpointLookupResult: a price, an error, or neither when the rows only name
\* other tickers (parse_krx_closing_price; a row whose price is not a positive
\* number is an invalid payload, _parse_positive_decimal).
EndpointResults == [price : Prices, error : {None}] \cup
                   [price : {None}, error : ErrorKinds \cup {None}]

\* _fetch_endpoint: tries are the results its calls would have, and the request
\* ends with the first one that is not a transient error.
FetchEndpoint(tries) ==
    LET final == {n \in 1 .. Attempts : tries[n].error \notin Transient}
    IN  IF final = {} THEN tries[Attempts]
        ELSE tries[CHOOSE n \in final : \A m \in final : n <= m]

\* The result of a day whose endpoints have the results day: its first price, or
\* else its first error.
DayResult(day) ==
    LET priced == SelectSeq(day, LAMBDA r : r.price # None)
        failed == SelectSeq(day, LAMBDA r : r.error # None)
    IN  IF priced # <<>> THEN priced[1]
        ELSE IF failed # <<>> THEN failed[1] ELSE [price |-> None, error |-> None]

\* fetch: days[d] are the results for the d-th day, from the observation's own
\* back.  Only a day with neither price nor error leads to the day before it.
KrxFetch(days, at) ==
    LET decided == SelectSeq([d \in 1 .. LookbackDays |-> DayResult(days[d])],
                             LAMBDA r : r.price # None \/ r.error # None)
    IN  IF decided = <<>> THEN Unavailable("not_found", at)
        ELSE IF decided[1].price # None THEN Available(decided[1].price, "close", at)
        ELSE Unavailable(decided[1].error, at)

----------------------------------------------------------------------------
(* RecommendationPerformancePolicy *)

\* Decimal.quantize with ROUND_HALF_UP: halves go away from zero.
RoundHalfUp(n, d) ==
    IF n >= 0 THEN (2 * n + d) \div (2 * d) ELSE -((2 * (-n) + d) \div (2 * d))

Comparable(entry, latest) == latest # None /\ Priced(entry) /\ Priced(latest)

\* evaluate, in tenths of a percent.
ReturnOf(action, entry, latest) ==
    IF ~Comparable(entry, latest) THEN None
    ELSE LET gain == latest.price - entry.price
         IN  RoundHalfUp(1000 * (IF action = "buy" THEN gain ELSE -gain), entry.price)

\* median of a sorted sequence of returns, in twentieths of a percent.
TwiceMedian(sorted) ==
    LET n == Len(sorted)
    IN  sorted[(n + 1) \div 2] + sorted[(n + 2) \div 2]

\* summarize: perf is a sequence of [action, return].  Returns are tenths of a percent.
Summary(perf) ==
    LET returns == SelectSeq([i \in DOMAIN perf |-> perf[i].return], LAMBDA r : r # None)
        n == Len(returns)
        actions(a) == Cardinality({i \in DOMAIN perf : perf[i].action = a})
    IN  [confirmed |-> n, unavailable |-> Len(perf) - n,
         buy |-> actions("buy"), sell |-> actions("sell"),
         winRate |-> IF n = 0 THEN None
                     ELSE RoundHalfUp(1000 * Len(SelectSeq(returns, LAMBDA r : r > 0)), n),
         mean |-> IF n = 0 THEN None ELSE RoundHalfUp(FoldSeq(LAMBDA r, s : r + s, 0, returns), n),
         median |-> IF n = 0 THEN None
                    ELSE RoundHalfUp(TwiceMedian(SortSeq(returns, <)), 2)]
=============================================================================
