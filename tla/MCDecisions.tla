----------------------------- MODULE MCDecisions -----------------------------
(***************************************************************************)
(* The pure functions, asked every question of a small set, one question   *)
(* to a behaviour.                                                         *)
(***************************************************************************)
EXTENDS ConfigGuard, MonitoringRules, OfferMatching, AccessRules, LocalTime, MoneyRules

\* No operation, one (compliance.spec.ts), and those of the target provider.
MCBlockings ==
  {{}, {"REFUND"},
   {"START_RESERVATION", "SUBMIT_PASSENGERS", "HOLD", "CONFIRM", "AUTO_BOOK", "CANCEL",
    "REFUND", "LOGIN"}}

\* Two trains in the morning, an unpriced one, one after midnight, and two
\* returns, the first of which leaves before that one.
Trip(id, class, departs, price, seats, labels, leg) ==
  [id |-> id, train |-> 10 + id, class |-> class, departs |-> departs, arrives |-> departs + 300,
   price |-> price, seats |-> seats, labels |-> labels, leg |-> leg]

MCCatalogue ==
  {Trip(1, "SECOND", 480, 80, 3, <<11, 12>>, "OUTBOUND"),
   Trip(2, "SECOND", 480, 80, 3, <<12, 14>>, "OUTBOUND"),
   Trip(3, "FIRST", 1500, 120, 9, <<>>, "OUTBOUND"),
   Trip(4, "SECOND", 1460, 100, 1, <<7>>, "RETURN"),
   Trip(5, "SECOND", 2100, 60, 6, <<2, 0>>, "RETURN"),
   Trip(6, "SECOND", 700, NoPrice, 4, <<>>, "OUTBOUND")}

AnyRequest ==
  [mode : {"STRICT", "FLEXIBLE"}, passengers : {1, 2}, minAvailability : {1},
   class : {"ANY", "SECOND"}, seat : {"ANY", "LOWER_BERTH", "SAME_COMPARTMENT", "WINDOW"},
   ceiling : {NoPrice, 0, 100},
   window : {NoWindowAsked, [from |-> 420, to |-> 540], [from |-> 1320, to |-> 60]},
   preferred : {{}, {1}, {13}}, threshold : {50}]

\* Preferences and limits are tried one against another, not all together.
MCRequests ==
  {r \in AnyRequest : \/ r.passengers = 2 /\ r.class = "ANY" /\ r.preferred # {13}
                            /\ r.seat \in {"ANY", "SAME_COMPARTMENT"}
                      \/ r.window = NoWindowAsked /\ r.ceiling # 0 /\ r.passengers = 1}

MCRowTenant == [r \in Rows |-> IF r = 1 THEN "here" ELSE "there"]

\* One alternative or two, each over one row.
MCConditions ==
  LET alternatives == [tests : {{}, {"own"}, {"other"}, {"any"}}, rows : {{1}, {2}}]
  IN  {<<x>> : x \in alternatives} \cup {<<x, y>> : x, y \in alternatives}

MCInstants   == -4 .. 6
MCOffsets    == {-2, -1, 1, 2}
MCAmounts    == -15 .. 15 \cup {-1234, 1205}
MCNumerators == -2 .. 5

Topics == {"gates", "config", "monitor", "offers", "access", "clock", "money"}

MCInit == question \in [kind : {"none"}, topic : Topics]

Ask(topic, questions) ==
  /\ question.kind = "none" /\ question.topic = topic
  /\ question' \in questions

MCNext ==
  \/ Ask("gates", Signals)
  \/ Ask("config", Environments)
  \/ Ask("monitor", Monitors)
  \/ Ask("offers", OfferQuestions)
  \/ Ask("access", AccessQuestions)
  \/ Ask("clock", ClockQuestions)
  \/ Ask("money", MoneyQuestions)

MCSpec == MCInit /\ [][MCNext]_question
=============================================================================
