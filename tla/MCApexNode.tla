---------------------------- MODULE MCApexNode ----------------------------
EXTENDS ApexNode, TLC

\* Two fingerprints.  Keys 2 to 5 crowd at position 3 of the first node, in whose
\* window the partitions meet, 6 and 7 at position 4.  The second model has them all in
\* one position.
MCHash == [k \in Keys |-> 1 + (k % 2)]
Crowded == [k \in Keys |-> CASE k = 1 -> 0 [] k \in 2..5 -> 50 [] OTHER -> 70]
AtOnePlace == [k \in Keys |-> IF k = 1 THEN 0 ELSE 50]
MCCdf == <<Crowded, AtOnePlace, Crowded>>

ins(k) == [op |-> "insert", k |-> k, v |-> 2]
upd(k) == [op |-> "update", k |-> k, v |-> 3]
rem(k) == [op |-> "remove", k |-> k, v |-> 0]
get(k) == [op |-> "search", k |-> k, v |-> 0]
scan(k, n) == [op |-> "scan", k |-> k, v |-> n]
Nobody == [t \in Threads |-> {}]
Scenario(load, calls, quota, crash) ==
  [load |-> load, calls |-> [t \in Threads |-> IF t \in DOMAIN calls THEN calls[t] ELSE {}],
   quota |-> [t \in Threads |-> IF t \in DOMAIN quota THEN quota[t] ELSE 0],
   crashes |-> crash, keep |-> {"none"}, lag |-> {"null"}]

CONSTANTS w1, w2, r1, s1
Five == <<1, 2, 3, 4, 6>>
MCScenarios == {
  Scenario(Five, w1 :> {ins(5), rem(2)} @@ w2 :> {ins(7), rem(3)},
           w1 :> 2 @@ w2 :> 2, 1),
  Scenario(<<1, 2, 3, 4, 5>>, w1 :> {rem(5), ins(5), upd(5)} @@ w2 :> {ins(7), ins(6)},
           w1 :> 2 @@ w2 :> 2, 0),
  Scenario(<<2, 3, 4, 5, 6>>, w1 :> {rem(5), ins(5), upd(5)} @@ w2 :> {ins(7), rem(6)},
           w1 :> 2 @@ w2 :> 2, 1),
  [Scenario(<<2, 3, 4, 5>>, w1 :> {ins(6), ins(7)}, w1 :> 2, 1) EXCEPT !.lag = {}],
  Scenario(<<1, 2, 3, 4, 6, 7>>, w1 :> {ins(5), rem(5)} @@ w2 :> {rem(4), ins(6), upd(2)},
           w1 :> 2 @@ w2 :> 2, 1),
  Scenario(<<1, 2, 3, 4, 6, 7>>, w1 :> {ins(5), rem(4)} @@ r1 :> {get(3), get(4), get(5)},
           w1 :> 2 @@ r1 :> 1, 0),
  Scenario(Five, w1 :> {ins(5), rem(3), upd(2)} @@ s1 :> {scan(1, 3), scan(2, 7), scan(5, 2)},
           w1 :> 2 @@ s1 :> 1, 0) }

\* Five keys side by side, then two far to the right of them: the first model spreads
\* the five, the one trained anew by the resize puts them all into one position.
MCOutlierCdf == <<[k \in Keys |-> IF k <= 5 THEN 20 * (k - 1) ELSE 99],
                  [k \in Keys |-> IF k <= 5 THEN 10 ELSE 30 * k - 120]>>
MCOutliers == { Scenario(<<1, 2, 3, 4, 5>>, w1 :> {ins(6), ins(7)}, w1 :> 2, 1) }

\* All keys in one position: the loaded node has a chain of blocks, which the resize frees
\* and the next insert finds again with what they had in next_.
MCOnePlace == [g \in 1..3 |-> [k \in Keys |-> 50]]
MCReuse ==
  {[Scenario(<<1, 2, 3, 4, 5>>, w1 :> {ins(6), ins(7), ins(8), rem(5)}, w1 :> 4, 1) EXCEPT !.lag = {}]}
===========================================================================
