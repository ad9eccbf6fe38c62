-------------------------- MODULE MCSupplyEvidence --------------------------
(***************************************************************************)
(* The evidence of builds, dependencies, incidents and what is exposed:  *)
(* seven components that share no state.  A behaviour is one of one of     *)
(* them, its focus, while the others stay as they are, so that the state   *)
(* spaces add up and do not multiply.                                      *)
(***************************************************************************)
EXTENDS EvidencePipeline, ReleaseCooldown, CredentialExposure, IncidentImpact,
        ExceptionRegister, ArtifactRefresh, AttackSurface

VARIABLE focus

Init ==
    /\ focus \in {"pipeline", "cooldown", "credential", "impact", "register", "refresh",
                  "surface"}
    /\ PipelineInit /\ CooldownInit /\ CredentialInit
    /\ ImpactInit /\ RegisterInit /\ RefreshInit /\ SurfaceInit
    \* one initial state of the components that are not looked at
    /\ focus # "pipeline" => bundles[CHOOSE r \in Roles : TRUE] = NoFile
    /\ focus # "refresh" => running = [e \in Environments |-> "old"]
    /\ focus # "credential" => credentialClass = "reusable-bearer"
    /\ focus # "surface" => exposure = [n \in Hostnames |-> "absent"]

Pipeline ==
    /\ focus = "pipeline" /\ PipelineNext
    /\ UNCHANGED <<focus, cooldownVars, credentialVars, impactVars, registerVars, refreshVars,
                   surfaceVars>>
Cooldown ==
    /\ focus = "cooldown" /\ CooldownNext
    /\ UNCHANGED <<focus, pipelineVars, credentialVars, impactVars, registerVars, refreshVars,
                   surfaceVars>>
Credential ==
    /\ focus = "credential" /\ CredentialNext
    /\ UNCHANGED <<focus, pipelineVars, cooldownVars, impactVars, registerVars, refreshVars,
                   surfaceVars>>
Impact ==
    /\ focus = "impact" /\ ImpactNext
    /\ UNCHANGED <<focus, pipelineVars, cooldownVars, credentialVars, registerVars, refreshVars,
                   surfaceVars>>
Register ==
    /\ focus = "register" /\ RegisterNext
    /\ UNCHANGED <<focus, pipelineVars, cooldownVars, credentialVars, impactVars, refreshVars,
                   surfaceVars>>
Refresh ==
    /\ focus = "refresh" /\ RefreshNext
    /\ UNCHANGED <<focus, pipelineVars, cooldownVars, credentialVars, impactVars, registerVars,
                   surfaceVars>>
Surface ==
    /\ focus = "surface" /\ SurfaceNext
    /\ UNCHANGED <<focus, pipelineVars, cooldownVars, credentialVars, impactVars, registerVars,
                   refreshVars>>

Next == Pipeline \/ Cooldown \/ Credential \/ Impact \/ Register \/ Refresh \/ Surface

vars == <<focus, pipelineVars, cooldownVars, credentialVars, impactVars, registerVars,
          refreshVars, surfaceVars>>
Spec == Init /\ [][Next]_vars
=============================================================================
