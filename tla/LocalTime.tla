------------------------------ MODULE LocalTime ------------------------------
(***************************************************************************)
(* Wall clocks and instants: zonedDateTimeToUtc and zoneOffsetMinutes of   *)
(* packages/shared/src/time.ts.  Both are minutes.  A zone keeps standard  *)
(* time but for a season of summer time; the offsets are any integers, so  *)
(* zones east and west of Greenwich, forward and backward changes and a    *)
(* season without a change are all among them.                             *)
(***************************************************************************)
EXTENDS Decisions

CONSTANTS Instants, Offsets

ASSUME TimeAssumption == Instants \subseteq Int /\ Offsets \subseteq Int

Zones == [standard : Offsets, summer : Offsets, from : Instants, until : Instants]

ClockQuestions == [kind : {"clock"}, zone : Zones, local : Instants]

\* What Intl.DateTimeFormat knows of the zone.
ZoneOffset(zone, instant) ==
  IF zone.from <= instant /\ instant < zone.until THEN zone.summer ELSE zone.standard

WallClock(zone, instant) == instant + ZoneOffset(zone, instant)

\* The two passes.
FirstGuess(zone, local)  == local - ZoneOffset(zone, local)

\* Mutant: one pass.
ZonedToUtcOnce(zone, local) == FirstGuess(zone, local)

ZonedToUtc(zone, local)  == local - ZoneOffset(zone, FirstGuess(zone, local))
-----------------------------------------------------------------------------
\* The local times that are: those the clock leaves out in spring are not.
Shown(zone, local) ==
  \E offset \in {zone.standard, zone.summer} : WallClock(zone, local - offset) = local

\* time.ts:158: the two passes are right across changes of the clock.  If any
\* instant shows the local time, the one they return does.
WallClockRoundTrip ==
  question.kind = "clock" /\ Shown(question.zone, question.local) =>
    WallClock(question.zone, ZonedToUtc(question.zone, question.local)) = question.local
=============================================================================
