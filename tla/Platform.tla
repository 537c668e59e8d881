------------------------------ MODULE Platform -----------------------------
(***************************************************************************)
(* Tenant admission and outbound webhooks: two services of the platform    *)
(* that share no table, no memory and no call.  A behaviour exercises one  *)
(* of them, chosen at the start, while the other rests in its initial      *)
(* state: interleaving the two could show nothing that each alone does not. *)
(***************************************************************************)
EXTENDS TenantAdmission, WebhookDelivery

VARIABLE inUse    \* the service this behaviour exercises

platformVars == <<admissionVars, webhookVars, inUse>>

PlatformInit ==
  /\ inUse \in {"admission", "webhooks"}
  /\ AdmissionInit
  /\ WebhookInit

PlatformNext ==
  \/ inUse = "admission" /\ AdmissionNext /\ UNCHANGED <<webhookVars, inUse>>
  \/ inUse = "webhooks" /\ WebhookNext /\ UNCHANGED <<admissionVars, inUse>>

\* In its initial state no action of a service that is owed fairness is enabled,
\* so the one at rest is not obliged to move.
PlatformSpec ==
  /\ PlatformInit
  /\ [][PlatformNext]_platformVars
  /\ AdmissionFairness
  /\ WebhookFairness

PlatformTypeOK == AdmissionTypeOK /\ WebhookTypeOK

=============================================================================
