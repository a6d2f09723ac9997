------------------------------- MODULE MCRuntime -------------------------------
(***************************************************************************)
(* Small instances of the machinery every feature runs on: the named       *)
(* locks and their refinement of FifoMutex, the CAPTCHA expiry sweep (more *)
(* sessions than slots), and boot, teardown and the curfew.  A behaviour   *)
(* is of one of them, chosen at its start; the others stand still.         *)
(***************************************************************************)
EXTENDS NamedLocks, CaptchaSweep, Lifecycle

CONSTANTS c1, c2, c3, c4, n1, n2, s1, s2, s3, w1, w2, g1, g2

VARIABLE scene

runtimeVars == <<lockVars, sweepVars, vars, scene>>

MCCalls == {c1, c2, c3, c4}

(* Boot and teardown in every overlap with the curfew of one group; or the *)
(* curfew of two, with teardowns that find no boot under way.              *)
LifecycleRuns == scene \in {"overlap", "curfew"}

LifecycleScene ==
    \/ scene = "overlap" /\ want'[g2] = "off"
    \/ scene = "curfew" /\ (state' = "stopping" => boot = NoBoot)

RuntimeInit ==
    /\ scene \in {"locks", "sweep", "overlap", "curfew"}
    /\ scene # "locks" => name = [c \in Calls |-> n1]
    /\ scene # "sweep" => status = [s \in Sessions |-> "fresh"]
    /\ Init /\ SweepInit /\ LifecycleInit
    /\ scene # "curfew" => want[g2] = "off"
    /\ ~LifecycleRuns => want[g1] = "off"

RuntimeNext ==
    \/ scene = "locks" /\ Next /\ UNCHANGED <<sweepVars, vars, scene>>
    \/ scene = "sweep" /\ SweepNext /\ UNCHANGED <<lockVars, vars, scene>>
    \/ LifecycleNext /\ LifecycleScene /\ UNCHANGED <<lockVars, sweepVars, scene>>

(* SweepFairness and LifecycleFairness, each in its scene. *)
RuntimeFairness ==
    /\ WF_sweepVars(scene = "sweep" /\ ExpireAllStale)
    /\ \A w \in Workers :
          /\ WF_sweepVars(scene = "sweep" /\ (Take(w) \/ Return(w)))
          /\ WF_sweepVars(scene = "sweep" /\ Timeout(w))
    /\ WF_vars(LifecycleRuns /\ Progress)
    /\ WF_vars(LifecycleRuns /\ ScheduleTick /\ UNCHANGED <<state, boot, cleanup, resourceVars>>)

RuntimeSpec == RuntimeInit /\ [][RuntimeNext]_runtimeVars /\ RuntimeFairness
=============================================================================
