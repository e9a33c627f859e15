---------------------------- MODULE OfferMatching ----------------------------
(***************************************************************************)
(* Which offers a request gets, and in which order: evaluateMatch,         *)
(* rankTrips and pairItineraries of packages/booking/src/matching.ts, and  *)
(* the steps of packages/provider-sdk/src/normalize.ts an adapter takes    *)
(* before (dedupeTrips, applyLocalFilters, sortTrips).                     *)
(*                                                                         *)
(* Times are minutes, of which a day has DayLength, in provider-local      *)
(* time; the score is computed on exact fractions and rounded as the code  *)
(* rounds.  A seat label is the number in it.                              *)
(***************************************************************************)
EXTENDS Decisions, Sequences, FiniteSets, SequencesExt

CONSTANTS
  Catalogue,    \* offers a provider may return
  Requests,     \* what users ask for
  Sizes,        \* how many offers come together
  NoPrice, NoWindowAsked

DayLength == 24 * 60
Dearest   == 1000000   \* Number.MAX_SAFE_INTEGER, above every price here

OfferQuestions ==
  {q \in [kind : {"offers"}, request : Requests, offers : SUBSET Catalogue] :
     IsFiniteSet(q.offers) /\ Cardinality(q.offers) \in Sizes}

Capped(request) == request.ceiling # NoPrice
CostOf(trip)    == IF trip.price = NoPrice THEN Dearest ELSE trip.price

ASSUME OffersAssumption ==
  /\ NoPrice \notin Nat
  /\ Catalogue \subseteq
       [id : Nat, train : Nat, class : STRING, departs : Nat, arrives : Nat,
        price : Nat \cup {NoPrice}, seats : Nat, labels : Seq(Nat), leg : STRING]
  /\ Requests \subseteq
       [mode : STRING, passengers : Nat, minAvailability : Nat, class : STRING,
        seat : STRING, ceiling : Nat \cup {NoPrice},
        window : [from : Nat, to : Nat] \cup {NoWindowAsked},
        preferred : SUBSET Nat, threshold : Nat]

\* The last tie-break is the id: a provider gives offers that cost the same and
\* leave together different ids.  (Others rank in the order they came in.)
ASSUME IdsTellApart ==
  \A t, u \in Catalogue :
    t.id = u.id /\ t.departs = u.departs /\ CostOf(t) = CostOf(u) => t = u
-----------------------------------------------------------------------------
(* evaluateMatch *)

SeatSatisfies(preference, labels) ==
  LET numeric == SelectSeq(labels, LAMBDA n : n > 0) IN
    CASE preference = "LOWER_BERTH" -> \E n \in ToSet(numeric) : n % 2 = 1
      [] preference = "UPPER_BERTH" -> \E n \in ToSet(numeric) : n % 2 = 0
      [] preference = "SAME_COMPARTMENT" ->
           \E i \in 1 .. Len(numeric) - 1 : numeric[i + 1] = numeric[i] + 1
      [] preference \in {"WINDOW", "AISLE", "MIDDLE"} -> FALSE
      [] OTHER -> TRUE

InWindow(window, minute) ==
  IF window.from <= window.to THEN window.from <= minute /\ minute <= window.to
  ELSE window.from <= minute \/ minute <= window.to

HardRejections(request, trip) ==
  {r \in {"insufficient_seats", "below_min_availability", "class_mismatch",
          "over_max_price", "price_unknown_with_ceiling"} :
     \/ r = "insufficient_seats" /\ trip.seats < request.passengers
     \/ r = "below_min_availability" /\ trip.seats < request.minAvailability
     \/ r = "class_mismatch" /\ request.class # "ANY" /\ trip.class # request.class
     \/ r = "over_max_price" /\ Capped(request) /\ trip.price # NoPrice
                             /\ trip.price > request.ceiling
     \/ r = "price_unknown_with_ceiling" /\ Capped(request) /\ trip.price = NoPrice}

\* A ceiling of zero is no ceiling here, though it is one above.
PriceScore(request, trip) ==
  IF trip.price = NoPrice THEN 0
  ELSE IF Capped(request) /\ request.ceiling # 0
  THEN RoundDiv(35 * (2 * request.ceiling - Least(trip.price, request.ceiling)),
                2 * request.ceiling)
  ELSE RoundDiv(35 * 7, 10)

AvailabilityScore(request, trip) ==
  LET target == 3 * Greatest(request.passengers, 1) IN
    RoundDiv(20 * Least(trip.seats, target), target)

OutsideWindow(request, trip) ==
  request.window # NoWindowAsked /\ ~InWindow(request.window, trip.departs % DayLength)

WindowScore(request, trip) ==
  LET minute   == trip.departs % DayLength
      distance == Least(Magnitude(minute - request.window.from),
                        Magnitude(minute - request.window.to)) IN
    IF request.window = NoWindowAsked THEN RoundDiv(25 * 6, 10)
    ELSE IF ~OutsideWindow(request, trip) THEN 25
    ELSE RoundDiv(25 * (6 * 60 - Least(6 * 60, distance)), 6 * 60)

TrainMissed(request, trip) ==
  request.preferred # {} /\ trip.id \notin request.preferred
                         /\ trip.train \notin request.preferred

SeatMissed(request, trip) ==
  /\ request.seat # "ANY" /\ trip.labels # <<>>
  /\ ~SeatSatisfies(request.seat, trip.labels)

PreferenceScore(asked, missed) == IF missed THEN 0 ELSE IF asked THEN 10 ELSE 5

Deductions(request, trip) ==
  {d \in {"outside_window", "train_not_preferred", "seat_unavailable"} :
     \/ d = "outside_window" /\ OutsideWindow(request, trip)
     \/ d = "train_not_preferred" /\ TrainMissed(request, trip)
     \/ d = "seat_unavailable" /\ SeatMissed(request, trip)}

Rejections(request, trip) ==
  HardRejections(request, trip)
    \cup (IF request.mode = "STRICT" THEN Deductions(request, trip) ELSE {})

Score(request, trip) ==
  PriceScore(request, trip) + AvailabilityScore(request, trip) + WindowScore(request, trip)
    + PreferenceScore(request.preferred # {}, TrainMissed(request, trip))
    + PreferenceScore(request.seat # "ANY" /\ trip.labels # <<>>, SeatMissed(request, trip))

Matched(request, trip) ==
  Rejections(request, trip) = {} /\ Score(request, trip) >= request.threshold
-----------------------------------------------------------------------------
(* The order of the offers *)

\* Array.prototype.filter and sort: the entries of seq at the chosen positions,
\* the one at i ahead of the one at j when <<i, j>> \in ahead.  Entries neither of
\* which is ahead stay in their order.
Prior(chosen, ahead, i) ==
  {j \in chosen : <<j, i>> \in ahead \/ (j < i /\ <<i, j>> \notin ahead)}

Arranged(seq, chosen, ahead) ==
  [k \in 1 .. Cardinality(chosen) |->
     seq[CHOOSE i \in chosen : Cardinality(Prior(chosen, ahead, i)) = k - 1]]

\* Mutant: no tie-break.
RanksAheadTied(request, t, u) ==
  \/ Score(request, t) > Score(request, u)
  \/ /\ Score(request, t) = Score(request, u)
     /\ CostOf(t) < CostOf(u) \/ (CostOf(t) = CostOf(u) /\ t.departs < u.departs)

\* The comparator of rankTrips; ids are compared as numbers here.
RanksAhead(request, t, u) ==
  \/ Score(request, t) > Score(request, u)
  \/ /\ Score(request, t) = Score(request, u)
     /\ \/ CostOf(t) < CostOf(u)
        \/ CostOf(t) = CostOf(u) /\ t.departs < u.departs
        \/ CostOf(t) = CostOf(u) /\ t.departs = u.departs /\ t.id < u.id

Ranked(request, trips) ==
  Arranged(trips, {i \in DOMAIN trips : Matched(request, trips[i])},
    {p \in (DOMAIN trips) \X (DOMAIN trips) :
       RanksAhead(request, trips[p[1]], trips[p[2]])})

\* Mutant: any return trip will do.
InboundAny(ranked, out) == {i \in DOMAIN ranked : ranked[i].leg = "RETURN"}

Inbound(ranked, out) ==
  {i \in DOMAIN ranked : ranked[i].leg = "RETURN" /\ ranked[i].departs > out.departs}

BestInbound(request, ranked, out) ==
  Arranged(ranked, Inbound(ranked, out),
    {p \in (DOMAIN ranked) \X (DOMAIN ranked) :
       Score(request, ranked[p[1]]) > Score(request, ranked[p[2]])})[1]

\* For each outbound leg the best return leg after it, if there is one.
Pairs(request, ranked) ==
  LET outbound == {i \in DOMAIN ranked :
                     ranked[i].leg = "OUTBOUND" /\ Inbound(ranked, ranked[i]) # {}}
      pairs == [i \in outbound |->
        LET inbound == BestInbound(request, ranked, ranked[i]) IN
          [outbound |-> ranked[i], inbound |-> inbound,
           score |-> RoundDiv(Score(request, ranked[i]) + Score(request, inbound), 2)]]
  IN Arranged(pairs, outbound,
       {p \in outbound \X outbound : pairs[p[1]].score > pairs[p[2]].score})
-----------------------------------------------------------------------------
(* normalize.ts *)

\* The leg and what tripFingerprint hashes.
OfferKey(t) == <<t.leg, t.id, t.class, t.departs, t.arrives, t.price, t.seats>>

BetterOffer(t, u) ==
  t.seats > u.seats \/ (t.seats = u.seats /\ CostOf(t) < CostOf(u))

Deduped(trips) ==
  LET Same(i) == {j \in DOMAIN trips : OfferKey(trips[j]) = OfferKey(trips[i])}
      Kept(i) == CHOOSE j \in Same(i) : \A k \in Same(i) \ {j} :
                   BetterOffer(trips[j], trips[k])
                     \/ (j < k /\ ~BetterOffer(trips[k], trips[j]))
  IN Arranged([i \in DOMAIN trips |-> trips[Kept(i)]],
       {i \in DOMAIN trips : \A j \in Same(i) : i <= j}, {})

SortsAhead(t, u) ==
  \/ t.departs < u.departs
  \/ t.departs = u.departs /\ CostOf(t) < CostOf(u)
  \/ t.departs = u.departs /\ CostOf(t) = CostOf(u) /\ t.id < u.id

TripsSorted(trips) ==
  Arranged(trips, DOMAIN trips,
    {p \in (DOMAIN trips) \X (DOMAIN trips) : SortsAhead(trips[p[1]], trips[p[2]])})

\* minAvailability is always sent; the price is left to providers that filter.
LocallyFiltered(trips, request, priceFilteringSupported) ==
  Arranged(trips,
    {i \in DOMAIN trips :
       /\ trips[i].seats >= request.minAvailability
       /\ ~priceFilteringSupported /\ Capped(request) /\ trips[i].price # NoPrice
            => trips[i].price <= request.ceiling}, {})
-----------------------------------------------------------------------------
OfferQuestion == question.kind = "offers"

Orders(S) == {s \in [1 .. Cardinality(S) -> S] : \A i, j \in DOMAIN s : i # j => s[i] # s[j]}

\* Why was this offer chosen?  Not because of the order the provider listed its
\* offers in, nor because it listed one twice, nor of what an adapter filtered
\* or sorted first.
RankingIsStable ==
  OfferQuestion =>
    LET request  == question.request
        ranking  == Ranked(request, SetToSeq(question.offers)) IN
      \A trips \in Orders(question.offers) :
        /\ Ranked(request, trips) = ranking
        /\ \A i \in DOMAIN trips : Ranked(request, Deduped(Append(trips, trips[i]))) = ranking
        /\ \A b \in BOOLEAN :
             Ranked(request, TripsSorted(LocallyFiltered(trips, request, b))) = ranking

\* The better offer wins: one that costs no more and has as many seats left,
\* and is the same otherwise, never scores less; FLEXIBLE offers what STRICT
\* does, at the same score; and a return trip leaves after the outbound one.
BetterOfferWins ==
  OfferQuestion =>
    LET request == question.request
        ranked  == Ranked(request, SetToSeq(question.offers)) IN
      /\ \A t \in question.offers : \A price \in 0 .. (IF t.price = NoPrice THEN 0 ELSE t.price) :
           \A seats \in t.seats .. t.seats + 4 :
             Score(request, [t EXCEPT !.price = price, !.seats = seats]) >= Score(request, t)
      /\ \A t \in question.offers : Matched([request EXCEPT !.mode = "STRICT"], t) =>
           /\ Matched([request EXCEPT !.mode = "FLEXIBLE"], t)
           /\ Score(request, t) \in 0 .. 100
      /\ \A i \in DOMAIN Pairs(request, ranked) :
           LET pair == Pairs(request, ranked)[i] IN
             /\ pair.inbound.departs > pair.outbound.departs
             /\ \A t \in ToSet(ranked) :
                  t.leg = "RETURN" /\ t.departs > pair.outbound.departs
                    => Score(request, t) <= Score(request, pair.inbound)
=============================================================================
