------------------------------- MODULE MCJobs -------------------------------
(***************************************************************************)
(* The background jobs and what they stand on, for TLC: components that    *)
(* share no state in the model.  A behaviour is one of one of them, its    *)
(* focus; the others stand still, so that the state spaces add up and do   *)
(* not multiply.  Fairness is asked of the component in focus only.        *)
(***************************************************************************)
EXTENDS PeriodicCurator, WeeklyDigest, Profiles, Instincts, HealthMonitor, LlmGateway,
        IdleWindows, Chunking

VARIABLE focus

jobVars ==
    <<focus, curatorVars, digestVars, profileVars, instinctVars, healthVars,
      gatewayVars, asked, cut>>

Parts == {"curator", "digest", "profile", "instincts", "health", "gateway",
          "windows", "chunking"}

\* Where a component has several initial states, one of them will do for the
\* behaviours that are not about it.
OneStart ==
    /\ focus = "curator" \/ hot = FALSE
    /\ focus = "health" \/ open = TRUE
    /\ focus = "windows" \/ asked = [start |-> 0, end |-> 0, now |-> 0]
    /\ focus = "chunking" \/ cut = [length |-> 0, size |-> 1, overlap |-> 0]

JobsInit ==
    /\ focus \in Parts
    /\ OneStart
    /\ CuratorInit
    /\ DigestInit
    /\ ProfilesInit
    /\ InstinctsInit
    /\ HealthInit
    /\ GatewayInit
    /\ WindowsInit
    /\ ChunkingInit

JobsNext ==
    /\ UNCHANGED focus
    /\ \/ /\ focus = "curator" /\ CuratorNext
          /\ UNCHANGED <<digestVars, profileVars, instinctVars, healthVars,
                         gatewayVars, asked, cut>>
       \/ /\ focus = "digest" /\ DigestNext
          /\ UNCHANGED <<curatorVars, profileVars, instinctVars, healthVars,
                         gatewayVars, asked, cut>>
       \/ /\ focus = "profile" /\ ProfilesNext
          /\ UNCHANGED <<curatorVars, digestVars, instinctVars, healthVars,
                         gatewayVars, asked, cut>>
       \/ /\ focus = "instincts" /\ InstinctsNext
          /\ UNCHANGED <<curatorVars, digestVars, profileVars, healthVars,
                         gatewayVars, asked, cut>>
       \/ /\ focus = "health" /\ HealthNext
          /\ UNCHANGED <<curatorVars, digestVars, profileVars, instinctVars,
                         gatewayVars, asked, cut>>
       \/ /\ focus = "gateway" /\ GatewayNext
          /\ UNCHANGED <<curatorVars, digestVars, profileVars, instinctVars,
                         healthVars, asked, cut>>
       \/ /\ focus = "windows" /\ WindowsNext
          /\ UNCHANGED <<curatorVars, digestVars, profileVars, instinctVars,
                         healthVars, gatewayVars, cut>>
       \/ /\ focus = "chunking" /\ ChunkingNext
          /\ UNCHANGED <<curatorVars, digestVars, profileVars, instinctVars,
                         healthVars, gatewayVars, asked>>

\* CuratorFairness and that of GatewaySpec, for behaviours about them.
JobsFairness ==
    /\ WF_curatorVars(focus = "curator" /\ TimePasses)
    /\ WF_curatorVars(focus = "curator" /\ WakeToStop)
    /\ WF_curatorVars(focus = "curator" /\ WakeToRunNow)
    /\ WF_curatorVars(focus = "curator" /\ WakeToTick)
    /\ WF_curatorVars(focus = "curator" /\ JobEnds)
    /\ \A w \in Workers : WF_gatewayVars(focus = "gateway" /\ WorkerSteps(w))

JobsSpec == JobsInit /\ [][JobsNext]_jobVars /\ JobsFairness

\* The component in focus keeps the types of its variables; the others do not move.
JobsTypeOK ==
    /\ focus \in Parts
    /\ focus = "curator" => CuratorTypeOK
    /\ focus = "digest" => DigestTypeOK
    /\ focus = "profile" => ProfilesTypeOK
    /\ focus = "instincts" => InstinctsTypeOK
    /\ focus = "health" => HealthTypeOK
    /\ focus = "gateway" => GatewayTypeOK
    /\ focus = "windows" => asked \in Questions
    /\ focus = "chunking" => cut \in Cuts

\* Heat is watched; load, swap and backlog are trackers of the same kind.
MCKinds == <<"temp">>
=============================================================================
