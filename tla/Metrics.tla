-------------------------------- MODULE Metrics --------------------------------
(* src/10_distributed/05_observability: the instrumented handler, any number   *)
(* at a time, and the page of the metrics endpoint, which reads one metric      *)
(* after the other, each under a lock of its own.                               *)
EXTENDS Naturals, FiniteSets, Sequences, FiniteSetsExt

CONSTANTS Handlers,      \* requests of /api being served at the same time
          Bounds,        \* the upper bounds given to NewHistogram, which are sorted
          Durations,     \* how long a request may take
          MaxRequests    \* bound

VARIABLES
    total,      \* http_requests_total
    active,     \* http_active_requests
    buckets,    \* counts of the histogram
    sum, count,
    place,      \* a handler: "idle", "counted", "working", "observed"
    reader,     \* the page's writer: "idle", "counter", "gauge"
    page,       \* what the page says, or has said so far
    took        \* history: how long each request took, in the order of Observe

histogram == <<buckets, sum, count>>
vars == <<total, active, histogram, place, reader, page, took>>

Init == /\ total = 0 /\ active = 0
        /\ buckets = [b \in Bounds |-> 0] /\ sum = 0 /\ count = 0
        /\ place = [h \in Handlers |-> "idle"]
        /\ reader = "idle"
        /\ page = [total |-> 0, active |-> 0, count |-> 0, lines |-> buckets]
        /\ took = <<>>

To(h, next) == place' = [place EXCEPT ![h] = next]

(* reqCounter.Inc, then activeGauge.Inc.                                        *)
CountRequest(h) == /\ place[h] = "idle" /\ total < MaxRequests
                   /\ total' = total + 1
                   /\ To(h, "counted")
                   /\ UNCHANGED <<active, histogram, reader, page, took>>

Begin(h) == /\ place[h] = "counted"
            /\ active' = active + 1
            /\ To(h, "working")
            /\ UNCHANGED <<total, histogram, reader, page, took>>

BugObserve(d) == /\ buckets' = [b \in Bounds |-> buckets[b] + IF d < b THEN 1 ELSE 0]
                 /\ sum' = sum + d /\ count' = count + 1

(* One more in every bucket whose bound it does not exceed.                     *)
Observe(d) == /\ buckets' = [b \in Bounds |-> buckets[b] + IF d <= b THEN 1 ELSE 0]
              /\ sum' = sum + d /\ count' = count + 1

(* The deferred function: Observe, then activeGauge.Dec.                        *)
End(h, d) == /\ place[h] = "working"
             /\ Observe(d)
             /\ took' = Append(took, d)
             /\ To(h, "observed")
             /\ UNCHANGED <<total, active, reader, page>>

Leave(h) == /\ place[h] = "observed"
            /\ active' = active - 1
            /\ To(h, "idle")
            /\ UNCHANGED <<total, histogram, reader, page, took>>

(* Expose: counters, gauges, histograms.  A bucket's line is the sum of the     *)
(* counts up to it.                                                             *)
Line(b) == MapThenSumSet(LAMBDA a : buckets[a], {a \in Bounds : a <= b})

Expose ==
    /\ \/ /\ reader = "idle" /\ reader' = "counter"
          /\ page' = [page EXCEPT !.total = total]
       \/ /\ reader = "counter" /\ reader' = "gauge"
          /\ page' = [page EXCEPT !.active = active]
       \/ /\ reader = "gauge" /\ reader' = "idle"
          /\ page' = [page EXCEPT !.count = count,
                                 !.lines = [b \in Bounds |-> Line(b)]]
    /\ UNCHANGED <<total, active, histogram, place, took>>

Next == \/ \E h \in Handlers :
              \/ CountRequest(h) \/ Begin(h) \/ Leave(h)
              \/ \E d \in Durations : End(h, d)
        \/ Expose

Spec == Init /\ [][Next]_vars
-----------------------------------------------------------------------------
At(places) == Cardinality({h \in Handlers : place[h] \in places})

(* What the requests took, added up one by one.                                 *)
AddedUp == LET upTo[k \in 0..Len(took)] == IF k = 0 THEN 0 ELSE upTo[k - 1] + took[k]
           IN upTo[Len(took)]

(* The three metrics agree whenever somebody looks: the gauge is the number of  *)
(* handlers between their Inc and their Dec, the histogram has every request    *)
(* counted but those still being served, under every bound that it meets.  A    *)
(* page, although its parts are read at different moments, can miss no more     *)
(* observations than there are handlers, and shows at most all of them active.  *)
MetricsAgree ==
    /\ active = At({"working", "observed"})
    /\ count = Len(took) /\ total = count + At({"counted", "working"})
    /\ sum = AddedUp
    /\ \A b \in Bounds : buckets[b] = Cardinality({i \in 1..Len(took) : took[i] <= b})
    /\ page.active <= Cardinality(Handlers)
    /\ reader = "idle" => page.total <= page.count + Cardinality(Handlers)

(* Of the page "in Prometheus text exposition format", made from the "count     *)
(* per bucket": no bucket has more observations than there are.                 *)
BucketsWithinCount == \A b \in Bounds : page.lines[b] <= page.count
=============================================================================
