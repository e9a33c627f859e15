---------------------------- MODULE MCProxyScenes ---------------------------
(***************************************************************************)
(* Two scenes over one proxy, a behaviour plays one of them:               *)
(*   race     two workers, the prober and the administrator meet at every  *)
(*            await; the samples are few                                   *)
(*   health   one worker and the prober, which may be restarted, report    *)
(*            every kind of sample; the administrator only creates the row *)
(***************************************************************************)
EXTENDS MCProxyPool

VARIABLE scene

RaceStep(w) ==
  \/ Select(w) \/ Claim(w) \/ ClaimFails(w) \/ ReportRead(w, Limited)
  \/ ReportWrite(w) \/ CheckStatus(w) \/ Close(w) \/ Crash(w)

RaceProbe ==
  \/ BeginPass \/ Resolve \/ ProbeWrite
  \/ ProbeRead(GoodProbe) \/ ProbeRead(Unreachable)

IsAlone(w) == \A v \in Workers \ {w} : worker[v] = StartedWorker

MCInit == Init /\ scene \in {"race", "health"}

MCNext ==
  \/ /\ scene = "race"
     /\ \/ \E w \in Workers : RaceStep(w)
        \/ RaceProbe
        \/ \E p \in Administered : AdminStep(p)
        \/ Tick
     /\ UNCHANGED scene
  \/ /\ scene = "health"
     /\ \/ \E w \in Workers : WorkerStep(w) /\ IsAlone(w)
        \/ ProberStep \/ RestartScheduler
        \/ \E p \in Administered : Create(p)
        \/ Tick
     /\ UNCHANGED scene

MCSpec == MCInit /\ [][MCNext]_<<vars, scene>>
=============================================================================
