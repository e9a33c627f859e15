---------------------------- MODULE MCProxyPool -----------------------------
(* Instances of ProxyPool for TLC. *)
EXTENDS ProxyPool, TLC

CONSTANTS w1, w2

\* Points of health: two bad samples of traffic bring a proxy below the floor.
Points == [s \in Source |-> 50]
NoPoints == [s \in Source |-> 0]

\* Workers differ in nothing but their names.
Alike == Permutations(Workers)

\* "denied" is a 403 or 407, which a probe reports too.
Say(source, ok, signals) ==
  [source |-> source, ok |-> ok, rateLimited |-> "429" \in signals,
   blockPage |-> "block" \in signals, captcha |-> "captcha" \in signals,
   authish |-> "denied" \in signals]

GoodCall   == Say("TRAFFIC", TRUE, {})
LostCall   == Say("TRAFFIC", FALSE, {})
Limited    == Say("TRAFFIC", FALSE, {"429"})
Challenged == Say("TRAFFIC", FALSE, {"captcha"})
Denied     == Say("TRAFFIC", FALSE, {"denied"})

GoodProbe  == Say("PROBE", TRUE, {})
DeniedProbe == Say("PROBE", FALSE, {"denied"})
LimitedProbe == Say("PROBE", FALSE, {"429"})

LimitedOnly      == {Limited}
AnyTraffic       == {GoodCall, LostCall, Limited, Challenged, Denied}
NoSample         == {}
GoodProbes       == {GoodProbe}
AnyProbe         == {GoodProbe, DeniedProbe, LimitedProbe}
=============================================================================
