------------------------- MODULE AllServices_proofs --------------------------
(***************************************************************************)
(* What is proved of all services together, from what is proved of each.   *)
(***************************************************************************)
EXTENDS AllServices, Services_proofs, Visits_proofs, Readings_proofs

\* Every behaviour of the services.
ServicesSpecs ==
  /\ ProvidersSpec
  /\ RoutingSpec /\ LlmSpec /\ StreamSpec /\ ImageSpec
  /\ SettingsSpec /\ FeedSpec /\ LogSpec /\ MemorySpec
  /\ PumpSpec
  /\ AdminSpec
  /\ ProfilesSpec /\ PlanSpec /\ LoopSpec
  /\ AccountsSpec /\ MatrixSpec
  /\ WebsitesSpec

\* In whatever order the steps of the services come, the state of each keeps its types:
\* tables refer to rows that are there, counts stay within their bounds, and every
\* thread is at a place that it has.
THEOREM ServicesTypes == ServicesSpecs => []ServicesTypeOK
<1>1. ServicesSpecs =>
        /\ []ProvidersTypeOK
        /\ []RoutingTypeOK /\ []LlmTypeOK /\ []StreamTypeOK /\ []ImageTypeOK
  BY ProvidersStaySound, RoutesStaySound, LedgersStayHonest, StreamsStaySound,
     ImagesStayAccounted, PTL DEF ServicesSpecs
<1>2. ServicesSpecs => []SettingsTypeOK /\ []FeedTypeOK /\ []LogTypeOK /\ []MemoryTypeOK
  BY CacheTypes, FeedWhole, LogsStayInOrder, MemoryStaysSound, PTL DEF ServicesSpecs
<1>3. ServicesSpecs => []PumpTypeOK /\ []AdminTypeOK /\ []WebsitesTypeOK
  BY PumpTypes, AdminTypes, WebsitesStaySound, PTL DEF ServicesSpecs
<1>4. ServicesSpecs => []ProfilesTypeOK /\ []PlanTypeOK /\ []LoopTypeOK
  BY ProfilesStaySound, VisitsStayOnPlan, LoopStaysSound, PTL DEF ServicesSpecs
<1>5. ServicesSpecs => []AccountsTypeOK /\ []MatrixTypeOK
  BY AccountsStaySound, MatrixStaysSound, PTL DEF ServicesSpecs
<1> QED
  BY <1>1, <1>2, <1>3, <1>4, <1>5, PTL DEF ServicesTypeOK
==============================================================================
