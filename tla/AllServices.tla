----------------------------- MODULE AllServices -----------------------------
(***************************************************************************)
(* The services around the community side by side.  They share no state:   *)
(* the provider tables, the calls to the models, what is shown of what was *)
(* written, the room of the live ticker, the agent pages, what a visit is  *)
(* told and let do, new personas, and generated pages.                     *)
(***************************************************************************)
EXTENDS Providers, Calls, Readings, ActivityPump, AgentAdmin, Visits, Personas, Websites

\* The types of the parts together.
ServicesTypeOK ==
  /\ ProvidersTypeOK
  /\ RoutingTypeOK /\ LlmTypeOK /\ StreamTypeOK /\ ImageTypeOK
  /\ SettingsTypeOK /\ FeedTypeOK /\ LogTypeOK /\ MemoryTypeOK
  /\ PumpTypeOK
  /\ AdminTypeOK
  /\ ProfilesTypeOK /\ PlanTypeOK /\ LoopTypeOK
  /\ AccountsTypeOK /\ MatrixTypeOK
  /\ WebsitesTypeOK
==============================================================================
