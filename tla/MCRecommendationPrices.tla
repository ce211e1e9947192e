------------------------ MODULE MCRecommendationPrices ------------------------
(***************************************************************************)
(* RecommendationPrices with a run of the schedule worker that picks the   *)
(* items 1 and 2, summarizes all runs and recovers entries daily, and a    *)
(* history page that loads the run, has it refreshed, and has the entry of *)
(* item 1 recovered meanwhile.                                             *)
(***************************************************************************)
EXTENDS RecommendationPrices

MCProgram ==
    [a \in Actors |->
        CASE a = "worker" -> <<[op |-> "record", scope |-> Items],
                               [op |-> "refresh", scope |-> Items],
                               [op |-> "backfill", scope |-> Items]>>
          [] a = "refresh" -> <<[op |-> "load", scope |-> Items], [op |-> "refresh", scope |-> Items]>>
          [] a = "recover" -> <<[op |-> "backfill", scope |-> {1}], [op |-> "refresh", scope |-> Items]>>]

MCDelivered ==
    [a \in Page |-> IF a = "recover" THEN {1} ELSE Items]

ASSUME StepsCover == LaterStepsCover

Price == CHOOSE p \in Prices : TRUE
Days(results) == [1 .. LookbackDays -> [1 .. Endpoints -> results]]

\* A call to KRX may bring the price, other tickers only, or an error, transient or not.
Closing == [price |-> Price, error |-> None]
NoRow == [price |-> None, error |-> None]
KrxError(kind) == [price |-> None, error |-> kind]
Requests == {FetchEndpoint(tries) : tries \in [1 .. Attempts -> {Closing, NoRow, KrxError(ClassifyStatus(0)), KrxError(ClassifyStatus(401))}]}

MCCaptures(at) == {Available(Price, "realtime", at), Unavailable("transport", at)}
Found == {KrxFetch(days, 0) : days \in Days(Requests \cap {Closing, KrxError("transport")})}
MCCloses(at) == {[o EXCEPT !.at = at] : o \in Found}

\* KrxClosingPriceClient.fetch has the closing price of the latest day that any market
\* has it for, unless a market that failed on a later day may have had it.
ASSUME LatestCloseIsFound ==
    \A days \in Days(Requests) :
        LET knows(d) == \E m \in 1 .. Endpoints : days[d][m] = Closing
            doubts(d) == \E m \in 1 .. Endpoints : days[d][m].error # None
        IN  Priced(KrxFetch(days, 0)) <=>
                \E d \in 1 .. LookbackDays :
                    knows(d) /\ \A later \in 1 .. d - 1 : ~knows(later) /\ ~doubts(later)

\* The figures of a summary count every recommendation once, and mean and median lie
\* within the returns they stand for, however they are rounded.
ASSUME SummariesAreSound ==
    \A n \in 0 .. 3 :
        \A perf \in [1 .. n -> [action : {"buy", "sell"}, return : {None, -7, 0, 2, 5}]] :
            LET s == Summary(perf)
                returns == {perf[i].return : i \in DOMAIN perf} \ {None}
            IN  /\ s.confirmed + s.unavailable = n /\ s.buy + s.sell = n
                /\ s.confirmed > 0 =>
                       /\ s.winRate \in 0 .. 1000
                       /\ \A r \in {s.mean, s.median} :
                             (\E low \in returns : low <= r) /\ (\E high \in returns : r <= high)

\* A price that rises is a gain to who bought and the same loss to who sold.
ASSUME ReturnsMirror ==
    \A from \in 1 .. 9, to \in 1 .. 9 :
        LET of(action) == ReturnOf(action, Available(from, "close", 0), Available(to, "close", 0))
        IN  of("buy") = -of("sell") /\ (of("buy") > 0 <=> to > from)
=============================================================================
