---------------------------- MODULE Visits_proofs ----------------------------
(***************************************************************************)
(* Proofs about one visit, for any number of versions, editors, agents and *)
(* tool calls: what it is planned to do and the posts it makes (VisitPlan),*)
(* the prompt profile it is pinned to, cloned, migrated and undone         *)
(* (VisitProfiles), and the turns it takes (VisitLoop).                    *)
(*                                                                         *)
(* PlanInv says what a visit under way was planned and offered, and what a *)
(* post under way was let through as; ProfileInv says that each revision's *)
(* trail leads back to what was pinned before it, for a downgrade may meet *)
(* it at any revision; LoopInv says which calls of the latest answer have  *)
(* their results, and what turns and strikes have been counted from.       *)
(***************************************************************************)
EXTENDS Visits, NaturalsInduction, WellFoundedInduction, FiniteSetTheorems,
        TLAPS

-----------------------------------------------------------------------------
(* Plans: the inductive invariant *)

Intents == {"browse", "post", "image", "website", "backstage"}
VisitRequests == {"any", "browse", "post"} \cup Reserved
Policies == {"off", "optional", "only"}
Settings == [tier : {"lurker", "regular"}, image : Policies, website : Policies]
Plans ==
  [intent : Intents, source : {"lurker", "requested", "degraded", "unread", "sampled"},
   kind : {"none", "comment", "text_post", "media_post"},
   target : Communities \cup {Backstage, Nowhere}]
VisitRecords ==
  [intent : Intents, source : {"lurker", "requested", "degraded", "unread", "sampled"},
   kind : {"none", "comment", "text_post", "media_post"},
   target : Communities \cup {Backstage, Nowhere},
   offered : SUBSET (PostTools \cup {"create_comment"}),
   tier : {"lurker", "regular"}, request : VisitRequests, changed : BOOLEAN, cleared : BOOLEAN]
PostCalls == [tool : PostTools, place : Communities \cup {Backstage}, config : Settings]
PostsMade ==
  [tool : PostTools, place : Communities \cup {Backstage}, config : Settings,
   latest : {"none", "self", "other"}, cleared : BOOLEAN]

\* PlanFits, of what a visit sets out to do, is told and is offered.
PlanSuits(intent, source, kind, told, offered, tier, request) ==
  /\ tier = "lurker" => offered = {} /\ kind = "none"
  /\ intent # "browse" =>
       /\ told # {} /\ told = offered \cap PostTools
       /\ kind = "text_post" <=> "create_post" \in told
  /\ intent \in Reserved => offered = {ToolFor(intent)}
  /\ intent \notin {request, "browse"} /\ request # "any" => source = "degraded"
  /\ intent = "browse" /\ request \notin {"any", "browse"} =>
       source \in {"degraded", "unread", "lurker"}
PlanHolds(v) == PlanSuits(v.intent, v.source, v.kind, Told(v), v.offered, v.tier, v.request)

\* What a post tool was let do: by its configuration, within the offer unless the agent
\* was changed, on target.
Allowed(post) ==
  /\ post.tool \in Effective(post.config, visit.intent)
  /\ ~ visit.changed => post.tool \in visit.offered
  /\ visit.target \in {Nowhere, post.place}

PlanInv ==
  /\ agentConfig \in Settings
  /\ open \subseteq Communities \cup {Backstage} /\ threads \in Seq({"self", "other"})
  /\ visit \in {NoVisit} \cup VisitRecords
  /\ posting \in {NoPost} \cup PostCalls
  /\ published \in {NoPost} \cup PostsMade
  /\ visit # NoVisit =>
       /\ PlanHolds(visit)
       /\ ~ visit.changed => visit.offered = ToolsFor(agentConfig, visit.intent)
  /\ visit = NoVisit => posting = NoPost /\ published = NoPost
  /\ posting # NoPost =>
       /\ Allowed(posting)
       /\ posting.place = Backstage /\ ~ visit.cleared => LatestThread # "self"
  /\ published # NoPost =>
       /\ Allowed(published)
       /\ published.place = Backstage /\ ~ published.cleared => published.latest # "self"

-----------------------------------------------------------------------------
(* Plans: resolving one *)

LEMMA PlanAssumed ==
  /\ \A c \in AgentConfigs : c \in Settings
  /\ Backstage \notin Communities /\ Nowhere \notin Communities /\ Backstage # Nowhere
  /\ \A m \in Mixes : m \in [post : 0..2, image : 0..2, website : 0..2, backstage : 0..2]
BY VisitPlanAssumption DEF Settings, Policies, Backstage, Nowhere

\* What a configuration offers, and of it what is asked of a visit.
LEMMA OfferedTools ==
  ASSUME NEW config \in Settings
  PROVE  /\ Static(config) \in
              {{}, {"create_post"}, {"create_image_post"}, {"create_website"},
               {"create_post", "create_image_post"}, {"create_post", "create_website"},
               {"create_post", "create_image_post", "create_website"}}
         /\ Static(config) # {} => Instructed(Static(config)) = Static(config)
<1>1. config.image \in Policies /\ config.website \in Policies
  BY DEF Settings
<1>2. Static(config) \in
              {{}, {"create_post"}, {"create_image_post"}, {"create_website"},
               {"create_post", "create_image_post"}, {"create_post", "create_website"},
               {"create_post", "create_image_post", "create_website"}}
  BY <1>1 DEF Static, OfferedPostTools, Policies
<1>3. Static(config) # {} => Instructed(Static(config)) = Static(config)
  BY <1>2 DEF Instructed
<1> QED  BY <1>2, <1>3

\* A reserved intent with a post to make has one tool.
LEMMA ReservedTool ==
  ASSUME NEW config \in Settings, NEW intent \in Reserved,
         Instructed(Effective(config, intent)) # {}
  PROVE  /\ Effective(config, intent) = {ToolFor(intent)}
         /\ Instructed({ToolFor(intent)}) = {ToolFor(intent)}
         /\ ToolFor(intent) \in PostTools
<1>1. Effective(config, intent) = Static(config) \cap {ToolFor(intent)}
  BY DEF Effective
<1>2. Instructed({}) = {}
  BY DEF Instructed
<1>3. ToolFor(intent) \in PostTools
  BY DEF ToolFor, Reserved, PostTools
<1>4. Effective(config, intent) = {ToolFor(intent)}
  BY <1>1, <1>2
<1>5. Instructed({ToolFor(intent)}) = {ToolFor(intent)}
  BY <1>3 DEF Instructed, PostTools
<1> QED  BY <1>3, <1>4, <1>5

\* The kinds a draw may come up with.
LEMMA SampledIntents ==
  ASSUME NEW mix \in Mixes
  PROVE  Sampled(mix) \subseteq Intents
BY DEF Sampled, Intents

\* What a visit resolves to: looking around, for a reason, or a post it can make.
LEMMA Resolutions ==
  ASSUME agentConfig \in Settings, NEW request \in VisitRequests, NEW unread \in BOOLEAN,
         NEW mix \in Mixes, NEW plan \in Resolved(request, unread, mix)
  PROVE  \/ agentConfig.tier = "lurker" /\ plan \in Browse("lurker", "none")
         \/ /\ agentConfig.tier # "lurker"
            /\ \E source \in {"requested", "degraded", "unread", "sampled"} :
                 /\ plan \in Browse(source, "comment")
                 /\ request \notin {"any", "browse"} => source \in {"degraded", "unread"}
         \/ /\ agentConfig.tier # "lurker"
            /\ \E intent \in Intents \ {"browse"}, source \in {"requested", "degraded", "sampled"} :
                 /\ CanPost(intent) /\ plan \in Post(intent, source)
                 /\ intent # request /\ request # "any" => source = "degraded"
<1> DEFINE asked == IF Eligible(request) THEN request ELSE "post"
           source == IF Eligible(request) THEN "requested" ELSE "degraded"
<1>1. CASE agentConfig.tier = "lurker"
  BY <1>1 DEF Resolved
<1> SUFFICES ASSUME agentConfig.tier # "lurker"
             PROVE  \/ \E s \in {"requested", "degraded", "unread", "sampled"} :
                         /\ plan \in Browse(s, "comment")
                         /\ request \notin {"any", "browse"} => s \in {"degraded", "unread"}
                    \/ \E intent \in Intents \ {"browse"}, s \in {"requested", "degraded", "sampled"} :
                         /\ CanPost(intent) /\ plan \in Post(intent, s)
                         /\ intent # request /\ request # "any" => s = "degraded"
  BY <1>1
<1>2. CASE unread /\ asked \in {"image", "website"} /\ CanPost(asked)
  <2>1. plan \in Post(asked, "requested")
    BY <1>2 DEF Resolved
  <2>2. asked = request /\ asked \in Intents \ {"browse"}
    BY <1>2 DEF Intents
  <2> QED  BY <1>2, <2>1, <2>2
<1>3. CASE unread /\ ~ (asked \in {"image", "website"} /\ CanPost(asked))
  <2>1. plan \in Browse("unread", "comment")
    BY <1>3 DEF Resolved
  <2> QED  BY <2>1
<1>4. ASSUME NEW intent \in Intents, NEW s \in {"requested", "degraded", "sampled"},
             plan \in Tuned(intent, s),
             intent # request /\ request # "any" => s = "degraded",
             intent # "browse" \/ request \in {"any", "browse"},
             s = "sampled" => request = "any"
      PROVE  \/ \E t \in {"requested", "degraded", "unread", "sampled"} :
                  /\ plan \in Browse(t, "comment")
                  /\ request \notin {"any", "browse"} => t \in {"degraded", "unread"}
             \/ \E i \in Intents \ {"browse"}, t \in {"requested", "degraded", "sampled"} :
                  /\ CanPost(i) /\ plan \in Post(i, t)
                  /\ i # request /\ request # "any" => t = "degraded"
  <2>1. CASE intent # "browse" /\ CanPost(intent)
    BY <1>4, <2>1 DEF Tuned
  <2>2. CASE ~ (intent # "browse" /\ CanPost(intent))
    <3> DEFINE t == IF intent # "browse" /\ s = "requested" THEN "degraded" ELSE s
    <3>1. plan \in Browse(t, "comment")
      BY <1>4, <2>2 DEF Tuned
    <3>2. t \in {"requested", "degraded", "unread", "sampled"}
      BY <1>4
    <3>3. request \notin {"any", "browse"} => t \in {"degraded", "unread"}
      BY <1>4
    <3> HIDE DEF t
    <3> QED  BY <3>1, <3>2, <3>3
  <2> QED  BY <2>1, <2>2
<1>5. CASE ~ unread /\ request # "any"
  <2>1. plan \in Tuned(asked, source)
    BY <1>5 DEF Resolved
  <2>2. asked \in Intents /\ source \in {"requested", "degraded", "sampled"}
    BY <1>5 DEF VisitRequests, Reserved, Intents
  <2>3. /\ asked # request /\ request # "any" => source = "degraded"
        /\ asked # "browse" \/ request \in {"any", "browse"}
        /\ source # "sampled"
    OBVIOUS
  <2> HIDE DEF asked, source
  <2> QED  BY <1>4, <2>1, <2>2, <2>3
<1>6. CASE ~ unread /\ request = "any"
  <2>1. PICK intent \in Sampled(mix) : plan \in Tuned(intent, "sampled")
    BY <1>6 DEF Resolved
  <2>2. intent \in Intents
    BY SampledIntents
  <2> QED  BY <1>4, <1>6, <2>1, <2>2
<1> QED  BY <1>2, <1>3, <1>5, <1>6

\* A visit that is prepared fits.
LEMMA PreparedFits ==
  ASSUME agentConfig \in Settings, open \subseteq Communities \cup {Backstage},
         NEW request \in VisitRequests, NEW unread \in BOOLEAN,
         NEW mix \in Mixes, NEW plan \in Resolved(request, unread, mix), NEW v,
         v = [intent |-> plan.intent, source |-> plan.source, kind |-> plan.kind,
              target |-> plan.target, offered |-> ToolsFor(agentConfig, plan.intent),
              tier |-> agentConfig.tier, request |-> request,
              changed |-> FALSE, cleared |-> FALSE]
  PROVE  v \in VisitRecords /\ PlanHolds(v)
<1> DEFINE offered == ToolsFor(agentConfig, plan.intent)
<1>1. agentConfig.tier \in {"lurker", "regular"}
  BY DEF Settings
<1>2. offered \subseteq PostTools \cup {"create_comment"}
  BY OfferedTools DEF ToolsFor, Effective, PostTools
<1>3. ASSUME plan \in Plans,
             PlanSuits(plan.intent, plan.source, plan.kind, Told(v), offered,
                   agentConfig.tier, request)
      PROVE  v \in VisitRecords /\ PlanHolds(v)
  <2> HIDE DEF offered
  <2>0. v = [intent |-> plan.intent, source |-> plan.source, kind |-> plan.kind,
              target |-> plan.target, offered |-> offered,
              tier |-> agentConfig.tier, request |-> request,
              changed |-> FALSE, cleared |-> FALSE]
    BY DEF offered
  <2>1. v \in VisitRecords
    <3>1. /\ plan.intent \in Intents
          /\ plan.source \in {"lurker", "requested", "degraded", "unread", "sampled"}
          /\ plan.kind \in {"none", "comment", "text_post", "media_post"}
          /\ plan.target \in Communities \cup {Backstage, Nowhere}
      BY <1>3 DEF Plans
    <3>2. offered \in SUBSET (PostTools \cup {"create_comment"})
      BY <1>2
    <3> QED  BY <1>1, <2>0, <3>1, <3>2 DEF VisitRecords
  <2>2. PlanHolds(v)
    <3>1. v.intent = plan.intent /\ v.source = plan.source /\ v.kind = plan.kind
          /\ v.offered = offered /\ v.tier = agentConfig.tier /\ v.request = request
      BY <2>0
    <3> QED  BY <1>3, <3>1 DEF PlanHolds
  <2> QED  BY <2>1, <2>2
<1>4. CASE agentConfig.tier = "lurker" /\ plan \in Browse("lurker", "none")
  <2>1. plan = [intent |-> "browse", source |-> "lurker", kind |-> "none", target |-> Nowhere]
    BY <1>4 DEF Browse
  <2>2. offered = {}
    BY <1>4 DEF ToolsFor
  <2>3. plan \in Plans
    BY <2>1 DEF Plans, Intents
  <2>4. PlanSuits(plan.intent, plan.source, plan.kind, Told(v), offered, agentConfig.tier, request)
    BY <2>1, <2>2 DEF PlanSuits, Reserved
  <2> HIDE DEF offered
  <2> QED  BY <1>3, <2>3, <2>4
<1>5. ASSUME agentConfig.tier # "lurker",
             NEW source \in {"requested", "degraded", "unread", "sampled"},
             plan \in Browse(source, "comment"),
             request \notin {"any", "browse"} => source \in {"degraded", "unread"}
      PROVE  v \in VisitRecords /\ PlanHolds(v)
  <2>1. plan = [intent |-> "browse", source |-> source, kind |-> "comment", target |-> Nowhere]
    BY <1>5 DEF Browse
  <2>2. plan \in Plans
    BY <1>5, <2>1 DEF Plans, Intents
  <2> HIDE DEF offered
  <2>3. PlanSuits(plan.intent, plan.source, plan.kind, Told(v), offered, agentConfig.tier, request)
    BY <1>5, <2>1 DEF PlanSuits, Reserved
  <2> QED  BY <1>3, <2>2, <2>3
<1>6. ASSUME agentConfig.tier # "lurker",
             NEW intent \in Intents \ {"browse"},
             NEW source \in {"requested", "degraded", "sampled"},
             CanPost(intent), plan \in Post(intent, source),
             intent # request /\ request # "any" => source = "degraded"
      PROVE  v \in VisitRecords /\ PlanHolds(v)
  <2> DEFINE tools == Effective(agentConfig, intent)
  <2>1. PICK t \in IF intent = "backstage" THEN {Backstage} ELSE Destinations :
          plan = [intent |-> intent, source |-> source, kind |-> Kind(intent), target |-> t]
    BY <1>6 DEF Post
  <2>2. t \in Communities \cup {Backstage, Nowhere}
    BY <2>1 DEF Destinations
  <2>3. Kind(intent) \in {"text_post", "media_post"}
        /\ (Kind(intent) = "text_post") = ("create_post" \in tools)
    BY DEF Kind
  <2>4. plan \in Plans
    BY <1>6, <2>1, <2>2, <2>3 DEF Plans
  <2>5. /\ tools # {} /\ tools \subseteq PostTools /\ Instructed(tools) = tools
        /\ offered \cap PostTools = tools
        /\ intent \in Reserved => offered = {ToolFor(intent)} /\ tools = {ToolFor(intent)}
    <3>0. offered = tools \cup (IF intent \in Reserved THEN {} ELSE {"create_comment"})
      BY <1>6, <2>1 DEF ToolsFor
    <3>1. CASE intent \in Reserved
      <4>1. Instructed(tools) # {}
        BY <1>6 DEF CanPost
      <4>2. /\ tools = {ToolFor(intent)} /\ Instructed({ToolFor(intent)}) = {ToolFor(intent)}
            /\ ToolFor(intent) \in PostTools
        BY <3>1, <4>1, ReservedTool
      <4> HIDE DEF tools, offered
      <4> QED  BY <3>0, <3>1, <4>2
    <3>2. CASE intent \notin Reserved
      <4>1. tools = Static(agentConfig)
        BY <3>2 DEF Effective
      <4>2. Instructed({}) = {}
        BY DEF Instructed
      <4>3. Static(agentConfig) # {} /\ Instructed(Static(agentConfig)) = Static(agentConfig)
        BY <1>6, <4>1, <4>2, OfferedTools DEF CanPost
      <4>4. Static(agentConfig) \subseteq PostTools
        BY OfferedTools DEF PostTools
      <4>5. "create_comment" \notin PostTools
        BY DEF PostTools
      <4> HIDE DEF tools, offered
      <4> QED  BY <3>0, <3>2, <4>1, <4>3, <4>4, <4>5
    <3> QED  BY <3>1, <3>2
  <2>6. Told(v) = tools
    <3>1. v.intent = intent /\ v.source = source /\ v.offered = offered
      BY <2>1
    <3>2. CASE intent = "backstage"
      <4>1. Told(v) = {"create_post"}
        BY <1>6, <3>1, <3>2 DEF Told
      <4>2. ToolFor(intent) = "create_post" /\ intent \in Reserved
        BY <3>2 DEF ToolFor, Reserved
      <4> QED  BY <2>5, <4>1, <4>2
    <3>3. CASE intent # "backstage"
      <4>1. Told(v) = Instructed(v.offered \cap PostTools)
        BY <1>6, <3>1, <3>3 DEF Told
      <4> HIDE DEF tools, offered
      <4> QED  BY <2>5, <3>1, <4>1
    <3> QED  BY <3>2, <3>3
  <2> HIDE DEF tools, offered
  <2>7. PlanSuits(plan.intent, plan.source, plan.kind, Told(v), offered, agentConfig.tier, request)
    <3>1. plan.intent = intent /\ plan.source = source /\ plan.kind = Kind(intent)
      BY <2>1
    <3> QED  BY <1>6, <2>3, <2>5, <2>6, <3>1 DEF PlanSuits
  <2> QED  BY <1>3, <2>4, <2>7
<1>7. \/ agentConfig.tier = "lurker" /\ plan \in Browse("lurker", "none")
      \/ /\ agentConfig.tier # "lurker"
         /\ \E source \in {"requested", "degraded", "unread", "sampled"} :
              /\ plan \in Browse(source, "comment")
              /\ request \notin {"any", "browse"} => source \in {"degraded", "unread"}
      \/ /\ agentConfig.tier # "lurker"
         /\ \E intent \in Intents \ {"browse"}, source \in {"requested", "degraded", "sampled"} :
              /\ CanPost(intent) /\ plan \in Post(intent, source)
              /\ intent # request /\ request # "any" => source = "degraded"
  BY Resolutions
<1> HIDE DEF offered
<1> QED  BY <1>4, <1>5, <1>6, <1>7

-----------------------------------------------------------------------------
(* Plans: the steps *)

\* The newest thread, and what it is after one is opened.
LEMMA LatestThreads ==
  ASSUME threads \in Seq({"self", "other"})
  PROVE  /\ LatestThread \in {"none", "self", "other"}
         /\ \A by \in {"self", "other"} :
              /\ Append(threads, by) \in Seq({"self", "other"})
              /\ threads' = Append(threads, by) => LatestThread' = by
         /\ threads # << >> => Front(threads) \in Seq({"self", "other"})
<1>1. LatestThread \in {"none", "self", "other"}
  BY DEF LatestThread, Last
<1>2. ASSUME NEW by \in {"self", "other"}
      PROVE  /\ Append(threads, by) \in Seq({"self", "other"})
             /\ threads' = Append(threads, by) => LatestThread' = by
  <2>1. Append(threads, by) # << >> /\ Append(threads, by)[Len(Append(threads, by))] = by
    OBVIOUS
  <2> QED  BY <2>1 DEF LatestThread, Last
<1>3. threads # << >> => Front(threads) \in Seq({"self", "other"})
  BY DEF Front
<1> QED  BY <1>1, <1>2, <1>3

LEMMA NoVisitIsNone == \A v \in VisitRecords : v # NoVisit
BY DEF VisitRecords, NoVisit, Intents

LEMMA NoPostIsNone == NoPost \notin PostCalls /\ NoPost \notin PostsMade
<1>1. \A p \in PostCalls \cup PostsMade : p.tool \in PostTools
  BY DEF PostCalls, PostsMade
<1> QED  BY <1>1 DEF NoPost, PostTools

LEMMA PrepareStep ==
  ASSUME PlanInv, NEW request \in VisitRequests, NEW unread \in BOOLEAN, NEW mix \in Mixes,
         PrepareVisit(request, unread, mix)
  PROVE  PlanInv'
<1>1. PICK plan \in Resolved(request, unread, mix) :
        visit' = [intent |-> plan.intent, source |-> plan.source, kind |-> plan.kind,
                  target |-> plan.target, offered |-> ToolsFor(agentConfig, plan.intent),
                  tier |-> agentConfig.tier, request |-> request,
                  changed |-> FALSE, cleared |-> FALSE]
  BY DEF PrepareVisit
<1>2. visit' \in VisitRecords /\ PlanHolds(visit')
  BY <1>1, PreparedFits DEF PlanInv
<1>3. visit'.offered = ToolsFor(agentConfig, visit'.intent)
  BY <1>1
<1>4. posting = NoPost /\ published = NoPost /\ visit' # NoVisit
  BY <1>2, NoVisitIsNone DEF PlanInv, PrepareVisit
<1>5. UNCHANGED <<agentConfig, open, threads, posting, published>>
  BY DEF PrepareVisit
<1> QED  BY <1>2, <1>3, <1>4, <1>5 DEF PlanInv

LEMMA CallStep ==
  ASSUME PlanInv, NEW tool \in PostTools, NEW place \in Communities \cup {Backstage},
         CallPostTool(tool, place)
  PROVE  PlanInv'
<1>1. visit \in VisitRecords /\ visit # NoVisit /\ published = NoPost
  BY DEF PlanInv, CallPostTool
<1>2. /\ visit' = [visit EXCEPT !.cleared = FALSE]
      /\ posting' = [tool |-> tool, place |-> place, config |-> agentConfig]
      /\ UNCHANGED <<agentConfig, open, threads, published>>
  BY DEF CallPostTool
<1>3. /\ visit'.intent = visit.intent /\ visit'.source = visit.source /\ visit'.kind = visit.kind
      /\ visit'.target = visit.target /\ visit'.offered = visit.offered
      /\ visit'.tier = visit.tier /\ visit'.request = visit.request
      /\ visit'.changed = visit.changed /\ visit'.cleared = FALSE /\ visit' \in VisitRecords
  BY <1>1, <1>2 DEF VisitRecords
<1>4. PlanHolds(visit) /\ (~ visit.changed => visit.offered = ToolsFor(agentConfig, visit.intent))
  BY <1>1 DEF PlanInv
<1>5. PlanHolds(visit')
  BY <1>3, <1>4 DEF PlanHolds, Told
<1>6. posting' \in PostCalls /\ posting' # NoPost
  BY <1>2, NoPostIsNone DEF PlanInv, PostCalls
<1>7. Allowed(posting)'
  <2>1. agentConfig.tier # "lurker" /\ tool \in Effective(agentConfig, visit.intent)
    BY DEF CallPostTool, Authorized
  <2>2. tool \in ToolsFor(agentConfig, visit.intent)
    BY <2>1 DEF ToolsFor
  <2>3. visit.target \in {Nowhere, place}
    BY DEF CallPostTool, OnTarget
  <2> QED  BY <1>2, <1>3, <1>4, <2>1, <2>2, <2>3 DEF Allowed
<1>8. posting'.place = Backstage => LatestThread' # "self"
  <2>1. LatestThread' = LatestThread
    BY <1>2 DEF LatestThread
  <2> QED  BY <1>2, <2>1 DEF CallPostTool, Rotates
<1>9. visit' # NoVisit
  BY <1>3, NoVisitIsNone
<1> QED  BY <1>1, <1>2, <1>3, <1>4, <1>5, <1>6, <1>7, <1>8, <1>9 DEF PlanInv

LEMMA PublishStep == ASSUME PlanInv, Publish PROVE PlanInv'
<1>1. /\ posting \in PostCalls /\ posting # NoPost /\ visit # NoVisit /\ visit \in VisitRecords
      /\ posting' = NoPost /\ UNCHANGED <<agentConfig, open, visit>>
  BY DEF PlanInv, Publish
<1>2. Allowed(posting) /\ (posting.place = Backstage /\ ~ visit.cleared => LatestThread # "self")
  BY <1>1 DEF PlanInv
<1>3. PlanHolds(visit)' /\ (~ visit.changed => visit.offered = ToolsFor(agentConfig, visit.intent))'
  BY <1>1 DEF PlanInv, PlanHolds, Told
<1>4. threads' \in Seq({"self", "other"})
  BY LatestThreads DEF PlanInv, Publish
<1>5. CASE posting.place \in open
  <2>1. published' = [tool |-> posting.tool, place |-> posting.place, config |-> posting.config,
                      latest |-> LatestThread, cleared |-> visit.cleared]
    BY <1>5 DEF Publish
  <2>2. published' \in PostsMade
    <3>1. LatestThread \in {"none", "self", "other"} /\ visit.cleared \in BOOLEAN
      BY <1>1, LatestThreads DEF PlanInv, VisitRecords
    <3> QED  BY <1>1, <2>1, <3>1 DEF PostCalls, PostsMade
  <2>3. Allowed(published)'
    BY <1>1, <1>2, <2>1 DEF Allowed
  <2>4. published'.place = Backstage /\ ~ published'.cleared => published'.latest # "self"
    BY <1>2, <2>1
  <2> QED  BY <1>1, <1>3, <1>4, <2>2, <2>3, <2>4 DEF PlanInv
<1>6. CASE posting.place \notin open
  <2>1. UNCHANGED <<published, threads>>
    BY <1>6 DEF Publish
  <2>2. published # NoPost => Allowed(published)'
    BY <1>1, <2>1 DEF PlanInv, Allowed
  <2> QED  BY <1>1, <1>3, <1>4, <2>1, <2>2 DEF PlanInv
<1> QED  BY <1>5, <1>6

LEMMA OverStep == ASSUME PlanInv, GenerationFails \/ FinishVisit PROVE PlanInv'
<1>1. CASE GenerationFails
  <2>1. posting' = NoPost /\ UNCHANGED <<agentConfig, open, threads, visit, published>>
    BY <1>1 DEF GenerationFails
  <2> QED  BY <2>1 DEF PlanInv, PlanHolds, Told, Allowed
<1>2. CASE FinishVisit
  <2>1. /\ visit' = NoVisit /\ published' = NoPost /\ posting' = NoPost
        /\ UNCHANGED <<agentConfig, open, threads>>
    BY <1>2 DEF FinishVisit
  <2> QED  BY <2>1 DEF PlanInv
<1> QED  BY <1>1, <1>2

\* What others do to a visit: it learns at most that it was changed, or cleared behind.
Disturbed ==
  \/ visit' = visit
  \/ visit # NoVisit /\ visit' = [visit EXCEPT !.changed = TRUE]
  \/ visit # NoVisit /\ visit' = [visit EXCEPT !.cleared = TRUE]

LEMMA DisturbedFits ==
  ASSUME PlanInv, Disturbed, visit # NoVisit
  PROVE  /\ visit' \in VisitRecords /\ visit' # NoVisit /\ PlanHolds(visit')
         /\ visit'.intent = visit.intent /\ visit'.offered = visit.offered
         /\ visit'.target = visit.target
         /\ ~ visit'.changed => ~ visit.changed
         /\ ~ visit'.cleared => ~ visit.cleared
         /\ \A p : Allowed(p) => Allowed(p)'
<1>1. visit \in VisitRecords /\ PlanHolds(visit)
  BY DEF PlanInv
<1>2. /\ visit' \in VisitRecords
      /\ visit'.intent = visit.intent /\ visit'.offered = visit.offered
      /\ visit'.target = visit.target /\ visit'.source = visit.source
      /\ visit'.kind = visit.kind /\ visit'.tier = visit.tier /\ visit'.request = visit.request
      /\ ~ visit'.changed => ~ visit.changed
      /\ ~ visit'.cleared => ~ visit.cleared
  <2>1. CASE visit' = visit
    BY <1>1, <2>1
  <2>2. CASE visit' = [visit EXCEPT !.changed = TRUE]
    BY <1>1, <2>2 DEF VisitRecords
  <2>3. CASE visit' = [visit EXCEPT !.cleared = TRUE]
    BY <1>1, <2>3 DEF VisitRecords
  <2> QED  BY <2>1, <2>2, <2>3 DEF Disturbed
<1>3. PlanHolds(visit')
  BY <1>1, <1>2 DEF PlanHolds, Told
<1>4. ASSUME NEW p, Allowed(p) PROVE Allowed(p)'
  BY <1>2, <1>4 DEF Allowed
<1> QED  BY <1>2, <1>3, <1>4, NoVisitIsNone

LEMMA OthersSteps ==
  ASSUME PlanInv,
         \/ \E config \in AgentConfigs : Reconfigure(config)
         \/ \E place \in Communities \cup {Backstage} :
              CreateSubdeaddit(place) \/ DeleteSubdeaddit(place)
         \/ OthersThread
         \/ DeleteThread
  PROVE  PlanInv'
<1>1. UNCHANGED <<posting, published>>
  BY DEF Reconfigure, CreateSubdeaddit, DeleteSubdeaddit, OthersThread, DeleteThread, Meddle
<1>2. Disturbed
  BY DEF Reconfigure, CreateSubdeaddit, DeleteSubdeaddit, OthersThread, DeleteThread, Disturbed
<1>3. agentConfig' \in Settings
  BY PlanAssumed DEF PlanInv, Reconfigure, CreateSubdeaddit, DeleteSubdeaddit, OthersThread,
     DeleteThread
<1>4. open' \subseteq Communities \cup {Backstage}
  BY DEF PlanInv, Reconfigure, CreateSubdeaddit, DeleteSubdeaddit, OthersThread, DeleteThread
<1>5. threads' \in Seq({"self", "other"})
  <2>1. << >> \in Seq({"self", "other"})
    OBVIOUS
  <2> QED
    BY <2>1, LatestThreads
    DEF PlanInv, Reconfigure, CreateSubdeaddit, DeleteSubdeaddit, OthersThread, DeleteThread
<1>6. visit # NoVisit /\ agentConfig' # agentConfig => visit'.changed
  <2>1. visit # NoVisit => visit \in VisitRecords
    BY DEF PlanInv
  <2> QED
    BY <2>1
    DEF VisitRecords, Reconfigure, CreateSubdeaddit, DeleteSubdeaddit, OthersThread, DeleteThread
<1>7. visit # NoVisit /\ LatestThread # "self" =>
        visit'.cleared \/ (LatestThread' # "self")
  <2> SUFFICES ASSUME visit # NoVisit, LatestThread # "self"
               PROVE  visit'.cleared \/ (LatestThread' # "self")
    OBVIOUS
  <2>1. visit \in VisitRecords
    BY DEF PlanInv
  <2>2. CASE threads' = threads
    BY <2>2 DEF LatestThread
  <2>3. CASE OthersThread
    <3>1. LatestThread' = "other"
      BY <2>3, LatestThreads DEF OthersThread, PlanInv
    <3> QED  BY <3>1
  <2>4. CASE visit' = [visit EXCEPT !.cleared = TRUE]
    BY <2>1, <2>4 DEF VisitRecords
  <2> QED
    BY <2>2, <2>3, <2>4 DEF Reconfigure, CreateSubdeaddit, DeleteSubdeaddit, DeleteThread
<1>8. CASE visit = NoVisit
  <2>1. visit' = visit
    BY <1>2, <1>8 DEF Disturbed
  <2> QED  BY <1>1, <1>3, <1>4, <1>5, <1>8, <2>1 DEF PlanInv
<1>9. CASE visit # NoVisit
  <2>1. ~ visit'.changed => visit'.offered = ToolsFor(agentConfig', visit'.intent)
    BY <1>2, <1>6, <1>9, DisturbedFits DEF PlanInv
  <2>2. posting' # NoPost =>
          /\ Allowed(posting)'
          /\ posting'.place = Backstage /\ ~ visit'.cleared => LatestThread' # "self"
    BY <1>1, <1>2, <1>7, <1>9, DisturbedFits DEF PlanInv
  <2>3. published' # NoPost =>
          /\ Allowed(published)'
          /\ published'.place = Backstage /\ ~ published'.cleared => published'.latest # "self"
    BY <1>1, <1>2, <1>9, DisturbedFits DEF PlanInv
  <2>4. visit' \in VisitRecords /\ visit' # NoVisit /\ PlanHolds(visit')
    BY <1>2, <1>9, DisturbedFits
  <2> QED  BY <1>1, <1>3, <1>4, <1>5, <2>1, <2>2, <2>3, <2>4 DEF PlanInv
<1> QED  BY <1>8, <1>9

LEMMA PlanStep == PlanInv /\ [PlanNext]_planVars => PlanInv'
<1> SUFFICES ASSUME PlanInv, [PlanNext]_planVars PROVE PlanInv'
  OBVIOUS
<1>1. ASSUME NEW request \in {"any", "browse", "post"} \cup Reserved, NEW unread \in BOOLEAN,
             NEW mix \in Mixes, PrepareVisit(request, unread, mix)
      PROVE  PlanInv'
  BY <1>1, PrepareStep DEF VisitRequests
<1>2. ASSUME NEW tool \in PostTools, NEW place \in Communities \cup {Backstage},
             CallPostTool(tool, place)
      PROVE  PlanInv'
  BY <1>2, CallStep
<1>3. CASE UNCHANGED planVars
  BY <1>3 DEF planVars, PlanInv, PlanHolds, Told, Allowed, LatestThread
<1> QED
  BY <1>1, <1>2, <1>3, PublishStep, OverStep, OthersSteps DEF PlanNext

LEMMA PlanStart == PlanInit => PlanInv
<1> SUFFICES ASSUME PlanInit PROVE PlanInv
  OBVIOUS
<1>1. threads \in Seq({"self", "other"})
  <2>1. << >> \in Seq({"self", "other"}) /\ <<"other">> \in Seq({"self", "other"})
        /\ <<"self">> \in Seq({"self", "other"})
    OBVIOUS
  <2>2. threads \in {<< >>, <<"other">>, <<"self">>}
    BY DEF PlanInit
  <2> QED  BY <2>1, <2>2
<1>2. agentConfig \in Settings /\ open \subseteq Communities \cup {Backstage}
  BY PlanAssumed DEF PlanInit
<1>3. visit = NoVisit /\ posting = NoPost /\ published = NoPost
  BY DEF PlanInit
<1> QED  BY <1>1, <1>2, <1>3 DEF PlanInv

\* An agent is only ever configured in one of the ways there are.
LEMMA Configured ==
  ASSUME agentConfig \in AgentConfigs, [PlanNext]_planVars
  PROVE  agentConfig' \in AgentConfigs
BY DEF PlanNext, planVars, PrepareVisit, CallPostTool, Publish, GenerationFails, FinishVisit,
       Reconfigure, CreateSubdeaddit, DeleteSubdeaddit, OthersThread, DeleteThread

LEMMA PlanTyped ==
  ASSUME PlanInv, agentConfig \in AgentConfigs
  PROVE  PlanTypeOK
BY DEF PlanInv, PlanTypeOK, NoPost, PostCalls, PostsMade

\* prepare_agent_visit, execute: whatever the administrator and others change under a
\* visit, its plan agrees with itself, what it publishes was offered and allowed and
\* stands where the plan said, and backstage threads of one persona do not follow each
\* other.
THEOREM VisitsStayOnPlan == PlanSpec => [](PlanTypeOK /\ VisitsKeepToPlan)
<1>1. PlanInv => VisitsKeepToPlan
  <2> SUFFICES ASSUME PlanInv PROVE VisitsKeepToPlan
    OBVIOUS
  <2>1. PlanFits
    <3> SUFFICES ASSUME visit # NoVisit PROVE PlanHolds(visit) => PlanFits
      BY DEF PlanInv, PlanFits
    <3>1. ((visit.kind = "text_post") = ("create_post" \in Told(visit)))
           <=> (visit.kind = "text_post" <=> "create_post" \in Told(visit))
      OBVIOUS
    <3> QED  BY <3>1 DEF PlanHolds, PlanSuits, PlanFits
  <2>2. WithinOffer
    <3> SUFFICES ASSUME published # NoPost PROVE WithinOffer
      BY DEF WithinOffer
    <3>1. Allowed(published) /\ visit # NoVisit
      BY DEF PlanInv
    <3>2. published.tool \in Static(published.config)
          /\ (visit.intent \in Reserved => published.tool = ToolFor(visit.intent))
      BY <3>1 DEF Allowed, Effective
    <3> QED  BY <3>1, <3>2 DEF Allowed, WithinOffer
  <2>3. BackstageRotates
    BY DEF PlanInv, BackstageRotates
  <2> QED  BY <2>1, <2>2, <2>3 DEF VisitsKeepToPlan
<1>2. PlanInit => agentConfig \in AgentConfigs
  BY DEF PlanInit
<1>3. agentConfig \in AgentConfigs /\ [PlanNext]_planVars => (agentConfig \in AgentConfigs)'
  BY Configured
<1>4. PlanInv /\ agentConfig \in AgentConfigs => PlanTypeOK
  BY PlanTyped
<1> QED  BY <1>1, <1>2, <1>3, <1>4, PlanStart, PlanStep, PTL DEF PlanSpec

-----------------------------------------------------------------------------
(* Profiles: numbers of versions *)

\* A set of natural numbers has a least one.
LEMMA LeastNat ==
  ASSUME NEW S \in SUBSET Nat, S # {}
  PROVE  \E n \in S : \A m \in S : n <= m
<1> DEFINE R == {ss \in Nat \X Nat : ss[1] < ss[2]}
<1>1. IsWellFoundedOn(R, Nat)
  BY NatLessThanWellFounded DEF OpToRel
<1> HIDE DEF R
<1>2. PICK n \in S : \A m \in S : ~ (<<m, n>> \in R)
  BY <1>1, WFMin
<1>3. \A m \in S : ~ (m < n)
  BY <1>2 DEF R
<1> QED  BY <1>3

\* The library's Max and Min are what they should be for finite sets.
LEMMA Greatest ==
  ASSUME NEW S \in SUBSET Int, IsFiniteSet(S), S # {}
  PROVE  Max(S) \in S /\ \A y \in S : y <= Max(S)
<1> DEFINE Above(x) == {y \in S : y > x}
           Counts == {Cardinality(Above(x)) : x \in S}
<1>1. \A x \in S : IsFiniteSet(Above(x)) /\ Cardinality(Above(x)) \in Nat
  BY FS_Subset, FS_CardinalityType
<1>2. Counts \in SUBSET Nat /\ Counts # {}
  BY <1>1
<1>3. PICK x \in S : \A y \in S : Cardinality(Above(x)) <= Cardinality(Above(y))
  <2>1. PICK n \in Counts : \A m \in Counts : n <= m
    <3> HIDE DEF Counts
    <3> QED  BY <1>2, LeastNat
  <2> QED  BY <2>1
<1>4. ASSUME NEW y \in S, y > x PROVE FALSE
  <2>0. x \in Int /\ y \in Int /\ \A z \in S : z > y => z > x
    BY <1>3, <1>4
  <2>1. Above(y) \in SUBSET Above(x) /\ y \in Above(x) /\ y \notin Above(y)
    <3>1. \A z : z \in Above(y) => z \in Above(x)
      BY <2>0
    <3>2. y \in Above(x)
      BY <1>4
    <3>3. y \notin Above(y)
      BY <2>0
    <3> HIDE DEF Above
    <3> QED  BY <3>1, <3>2, <3>3
  <2>2. Cardinality(Above(y)) <= Cardinality(Above(x)) /\ Cardinality(Above(y)) # Cardinality(Above(x))
    <3> HIDE DEF Above
    <3> QED  BY <1>1, <2>1, FS_Subset
  <2> HIDE DEF Above
  <2> QED  BY <1>1, <1>3, <2>2
<1>5. \E z \in S : \A y \in S : z >= y
  <2>1. \A y \in S : x >= y
    BY <1>4, S \in SUBSET Int
  <2> QED  BY <2>1
<1>6. Max(S) \in S /\ \A y \in S : Max(S) >= y
  BY <1>5 DEF Max
<1> QED  BY <1>6, S \in SUBSET Int

\* Among finitely many numbers each has a place of its own, from 1 up.
LEMMA PlacesDiffer ==
  ASSUME NEW S \in SUBSET Nat, IsFiniteSet(S)
  PROVE  LET place(v) == Cardinality({w \in S : w <= v})
         IN  /\ \A v \in S : place(v) \in 1..Cardinality(S)
             /\ \A v, w \in S : place(v) = place(w) => v = w
<1> DEFINE upto(v) == {w \in S : w <= v}
<1>1. \A v : upto(v) \in SUBSET S /\ IsFiniteSet(upto(v)) /\ Cardinality(upto(v)) \in Nat
             /\ Cardinality(upto(v)) <= Cardinality(S)
  BY FS_Subset, FS_CardinalityType
<1>2. \A v \in S : v \in upto(v)
  OBVIOUS
<1>3. \A v \in S : Cardinality(upto(v)) # 0
  <2> HIDE DEF upto
  <2> QED  BY <1>1, <1>2, FS_EmptySet
<1>4. ASSUME NEW v \in S, NEW w \in S, Cardinality(upto(v)) = Cardinality(upto(w)), v < w
      PROVE  FALSE
  <2>0. \A u \in S : u \in Nat
    OBVIOUS
  <2>1. upto(v) \in SUBSET upto(w) /\ w \notin upto(v)
    <3>1. \A u : u \in upto(v) => u \in upto(w)
      BY <1>4, <2>0
    <3>2. w \notin upto(v)
      BY <1>4, <2>0
    <3> HIDE DEF upto
    <3> QED  BY <3>1, <3>2
  <2> HIDE DEF upto
  <2>2. upto(w) = upto(v)
    BY <1>1, <1>4, <2>1, FS_Subset
  <2> QED  BY <1>2, <2>1, <2>2
<1>5. \A v, w \in S : Cardinality(upto(v)) = Cardinality(upto(w)) => v = w
  <2> SUFFICES ASSUME NEW v \in S, NEW w \in S, Cardinality(upto(v)) = Cardinality(upto(w)), v # w
               PROVE  FALSE
    OBVIOUS
  <2>1. v < w \/ w < v
    OBVIOUS
  <2> HIDE DEF upto
  <2> QED  BY <1>4, <2>1
<1>6. Cardinality(S) \in Nat
  BY FS_CardinalityType
<1>7. \A v \in S : Cardinality(upto(v)) \in 1..Cardinality(S)
  <2> HIDE DEF upto
  <2> QED  BY <1>1, <1>3, <1>6
<1> QED  BY <1>5, <1>7

-----------------------------------------------------------------------------
(* Profiles: the inductive invariant *)

Origins == [revision : {0} \cup 4..LastRevision, source : Nat]
Creations == [does : {"create"}, number : Nat \ {0}, body : Bodies]
Pinnings == [does : {"pin"}, target : Targets, number : Nat \ {0}]

ProfileTypes ==
  /\ revision \in 0..LastRevision
  /\ settings \in {"absent", "default", "own"} /\ system \in [Targets -> Legacy \cup {0}]
  /\ IsFiniteSet(Versions) /\ Versions \in SUBSET (Nat \ {0})
  /\ bodies \in [Versions -> Bodies] /\ origin \in [Versions -> Origins]
  /\ pinned \in [Targets -> Versions \cup {0}]
  /\ edit \in [Editors -> {NoEdit} \cup Creations \cup Pinnings]
  /\ trail \in [1..LastRevision -> [Targets -> Nat]]

\* The clones there are were made by revisions now applied, of versions that are older.
ClonesKnown ==
  \A w \in Versions :
    /\ origin[w].revision <= revision
    /\ origin[w].revision # 0 =>
         LET source == origin[w].source IN
         /\ source \in Versions /\ origin[source].revision < origin[w].revision
         /\ origin[w].revision >= 6 => bodies[source].once

\* Which versions have the form that parse_visit_profile takes.
BodiesMigrated ==
  /\ revision >= 2 => \A v \in Versions : bodies[v].scale = "percent"
  /\ revision >= 3 => \A v \in Versions : bodies[v].backstage
  /\ revision >= 5 => \A t \in Targets : pinned[t] # 0 => bodies[pinned[t]].once

\* What a request has read holds until it commits: no revision is undone beside it.
EditsHold ==
  \A e \in Editors :
    /\ edit[e] # NoEdit => revision = LastRevision
    /\ edit[e].does = "create" => Parses(edit[e].body)
    /\ edit[e].does = "pin" => edit[e].number \in Versions /\ Parses(bodies[edit[e].number])

\* Each revision, undone, takes the pins that came after it back to those before it.
Back(j, p) == IF p \in Versions /\ origin[p].revision = j THEN origin[p].source ELSE p
PinsAfter(j) == IF j = revision THEN pinned ELSE trail[j + 1]
TrailLeads ==
  \A j \in 1..revision : trail[j] # Unpinned =>
    \A t \in Targets : trail[j][t] = Back(j, PinsAfter(j)[t])
TrailAhead ==
  revision < LastRevision /\ trail[revision + 1] # Unpinned => pinned = trail[revision + 1]

ProfileInv ==
  ProfileTypes /\ ClonesKnown /\ BodiesMigrated /\ EditsHold /\ TrailLeads /\ TrailAhead

LEMMA ProfilesAssumed ==
  /\ "global" \in Targets /\ IsFiniteSet(Targets) /\ Authored \in SUBSET Bodies
  /\ \A v \in Legacy : v \in Nat /\ v # 0
BY VisitProfilesAssumption

\* A pin that is none leads back to none, so a trail that is not cut goes on to the
\* pins of today.
LEMMA TrailGoesOn ==
  ASSUME ProfileTypes, TrailLeads, NEW j \in 1..revision, trail[j] # Unpinned
  PROVE  PinsAfter(j) # Unpinned
<1> SUFFICES ASSUME PinsAfter(j) = Unpinned PROVE FALSE
  OBVIOUS
<1>1. \A t \in Targets : trail[j][t] = 0
  <2> SUFFICES ASSUME NEW t \in Targets PROVE trail[j][t] = 0
    OBVIOUS
  <2>1. PinsAfter(j)[t] = 0
    BY DEF Unpinned
  <2>2. 0 \notin Versions
    BY DEF ProfileTypes
  <2>3. Back(j, 0) = 0
    BY <2>2 DEF Back
  <2> QED  BY <2>1, <2>3 DEF TrailLeads
<1>2. trail[j] \in [Targets -> Nat]
  BY DEF ProfileTypes, LastRevision
<1> QED  BY <1>1, <1>2 DEF Unpinned

\* The latest revision undone, the pins stand where they stood before it.
LEMMA TrailUndone ==
  ASSUME ProfileTypes, TrailLeads, revision > 0, NEW back \in [Targets -> Nat],
         \A t \in Targets : back[t] = Back(revision, pinned[t])
  PROVE  /\ trail[revision] # Unpinned => back = trail[revision]
         /\ \A j \in 1..(revision - 1) : trail[j] # Unpinned =>
              \A t \in Targets :
                trail[j][t] = Back(j, IF j = revision - 1 THEN back[t] ELSE trail[j + 1][t])
<1>0. revision \in 1..LastRevision
  BY DEF ProfileTypes, LastRevision
<1>1. trail[revision] # Unpinned => back = trail[revision]
  <2> SUFFICES ASSUME trail[revision] # Unpinned PROVE back = trail[revision]
    OBVIOUS
  <2>1. \A t \in Targets : trail[revision][t] = back[t]
    BY <1>0 DEF TrailLeads, PinsAfter
  <2>2. trail[revision] \in [Targets -> Nat]
    BY <1>0 DEF ProfileTypes
  <2> QED  BY <2>1, <2>2
<1>2. ASSUME NEW j \in 1..(revision - 1), trail[j] # Unpinned, NEW t \in Targets
      PROVE  trail[j][t] = Back(j, IF j = revision - 1 THEN back[t] ELSE trail[j + 1][t])
  <2>1. j \in 1..revision /\ j # revision /\ j + 1 \in 1..LastRevision
    BY <1>0 DEF LastRevision
  <2>2. trail[j][t] = Back(j, trail[j + 1][t])
    BY <1>2, <2>1 DEF TrailLeads, PinsAfter
  <2>3. CASE j = revision - 1
    <3>1. j + 1 = revision
      BY <1>0, <2>3 DEF LastRevision
    <3>2. trail[revision] # Unpinned
      BY <1>2, <2>1, <3>1, TrailGoesOn DEF PinsAfter
    <3> QED  BY <1>1, <2>2, <2>3, <3>1, <3>2
  <2> QED  BY <2>2, <2>3
<1> QED  BY <1>1, <1>2

LEMMA TopBounds ==
  ASSUME ProfileTypes
  PROVE  Top \in Nat /\ \A v \in Versions : v <= Top
<1> DEFINE S == Versions \cup {0}
<1>1. S \in SUBSET Int /\ S \in SUBSET Nat /\ S # {}
  BY DEF ProfileTypes
<1>2. IsFiniteSet(S)
  BY FS_AddElement DEF ProfileTypes
<1>3. Max(S) \in S /\ \A y \in S : y <= Max(S)
  <2> HIDE DEF S
  <2> QED  BY <1>1, <1>2, Greatest
<1> QED  BY <1>1, <1>3 DEF Top

\* What the four canonical forms change of a body, and what they leave.
LEMMA CanonicalKeeps ==
  ASSUME NEW k \in 4..LastRevision, NEW body \in Bodies
  PROVE  /\ Canonical(k, body) \in Bodies
         /\ Canonical(k, body).scale = body.scale
         /\ Canonical(k, body).backstage = body.backstage
         /\ body.once => Canonical(k, body).once
         /\ k = 5 => Canonical(k, body).once
<1>0. k = 4 \/ k = 5 \/ k = 6 \/ k = 7
  BY DEF LastRevision
<1>1. CASE k = 4
  <2>1. Canonical(k, body) = [body EXCEPT !.comment = IF body.comment = "legacy" THEN "four" ELSE body.comment]
    BY <1>1 DEF Canonical
  <2> QED  BY <1>1, <2>1 DEF Bodies
<1>2. CASE k = 5
  <2>1. Canonical(k, body) = [body EXCEPT !.once = TRUE]
    BY <1>2 DEF Canonical
  <2> QED  BY <1>2, <2>1 DEF Bodies
<1>3. CASE k = 6
  <2>1. Canonical(k, body) = [body EXCEPT !.comment = IF body.comment = "four" THEN "five" ELSE body.comment]
    BY <1>3 DEF Canonical
  <2> QED  BY <1>3, <2>1 DEF Bodies
<1>4. CASE k = 7
  <2>1. Canonical(k, body) = [body EXCEPT !.mix = IF body.mix = "old" THEN "new" ELSE body.mix]
    BY <1>4 DEF Canonical
  <2> QED  BY <1>4, <2>1 DEF Bodies
<1> QED  BY <1>0, <1>1, <1>2, <1>3, <1>4

-----------------------------------------------------------------------------
(* Profiles: the migrations that clone *)

\* No clone of a revision is there when it is applied, so every version to be cloned gets
\* a number of its own above those there are.
LEMMA CloneAdds ==
  ASSUME ProfileTypes, ClonesKnown, NEW k \in 4..LastRevision, Clone(k)
  PROVE  /\ Sources(k) \in SUBSET Versions
         /\ \E number \in [Sources(k) -> Nat \ (Versions \cup {0})] :
              /\ \A v, w \in Sources(k) : number[v] = number[w] => v = w
              /\ Versions' = Versions \cup {number[v] : v \in Sources(k)}
              /\ bodies' = [w \in Versions' |-> bodies'[w]] /\ origin' = [w \in Versions' |-> origin'[w]]
              /\ \A w \in Versions : bodies'[w] = bodies[w] /\ origin'[w] = origin[w]
              /\ \A v \in Sources(k) :
                   /\ bodies'[number[v]] = Canonical(k, bodies[v])
                   /\ origin'[number[v]] = [revision |-> k, source |-> v]
              /\ pinned' = [t \in Targets |-> IF pinned[t] \in Sources(k) THEN number[pinned[t]]
                                              ELSE pinned[t]]
<1> DEFINE S == Sources(k)
           place(v) == Cardinality({w \in S : w <= v})
           number == [v \in S |-> Top + place(v)]
<1>1. S \in SUBSET Versions /\ S \in SUBSET Nat /\ IsFiniteSet(S)
  <2>1. S \in SUBSET Versions
    BY DEF Sources, ProfileTypes
  <2> QED  BY <2>1, FS_Subset DEF ProfileTypes
<1>2. \A v : CloneOf(k, v) = {}
  <2>1. revision = k - 1
    BY DEF Clone
  <2>2. \A w \in Versions : origin[w].revision \in Nat /\ origin[w].revision <= revision
    BY DEF ProfileTypes, ClonesKnown, Origins, LastRevision
  <2>3. \A w \in Versions : origin[w].revision # k
    BY <2>1, <2>2 DEF LastRevision
  <2> QED  BY <2>3 DEF CloneOf
<1>3. {v \in S : CloneOf(k, v) = {}} = S
  BY <1>2
<1>4. Top \in Nat /\ \A v \in Versions : v <= Top
  BY TopBounds
<1>5. /\ \A v \in S : place(v) \in Nat \ {0}
      /\ \A v, w \in S : place(v) = place(w) => v = w
  <2>1. Cardinality(S) \in Nat
    BY <1>1, FS_CardinalityType
  <2>2. /\ \A v \in S : place(v) \in 1..Cardinality(S)
        /\ \A v, w \in S : place(v) = place(w) => v = w
    <3> HIDE DEF S
    <3> QED  BY <1>1, PlacesDiffer
  <2> HIDE DEF place, S
  <2> QED  BY <2>1, <2>2
<1>6. \A v \in S : number[v] = Top + place(v) /\ number[v] \in Nat \ (Versions \cup {0})
  <2> SUFFICES ASSUME NEW v \in S PROVE Top + place(v) \in Nat \ (Versions \cup {0})
    OBVIOUS
  <2>1. Versions \in SUBSET Nat
    BY DEF ProfileTypes
  <2> HIDE DEF place, S
  <2>2. Top + place(v) > Top /\ Top + place(v) \in Nat /\ Top + place(v) # 0
    BY <1>4, <1>5
  <2> QED  BY <1>4, <2>1, <2>2
<1>7. \A v, w \in S : number[v] = number[w] => v = w
  <2> SUFFICES ASSUME NEW v \in S, NEW w \in S, Top + place(v) = Top + place(w) PROVE v = w
    OBVIOUS
  <2> HIDE DEF place, S
  <2> QED  BY <1>4, <1>5
<1> DEFINE added == [w \in {number[v] : v \in S} |-> CHOOSE v \in S : number[v] = w]
<1>8. /\ bodies' = [w \in Versions \cup DOMAIN added |->
                      IF w \in Versions THEN bodies[w] ELSE Canonical(k, bodies[added[w]])]
      /\ origin' = [w \in Versions \cup DOMAIN added |->
                      IF w \in Versions THEN origin[w]
                      ELSE [revision |-> k, source |-> added[w]]]
      /\ pinned' = [t \in Targets |-> IF pinned[t] \in S THEN number[pinned[t]] ELSE pinned[t]]
  <2> DEFINE fresh == {v \in S : CloneOf(k, v) = {}}
             given(v) == IF v \in fresh THEN Top + Cardinality({w \in fresh : w <= v})
                         ELSE CHOOSE w \in CloneOf(k, v) : TRUE
             others == [w \in {given(v) : v \in fresh} |-> CHOOSE v \in fresh : given(v) = w]
  <2>1. /\ bodies' = [w \in Versions \cup DOMAIN others |->
                      IF w \in Versions THEN bodies[w] ELSE Canonical(k, bodies[others[w]])]
        /\ origin' = [w \in Versions \cup DOMAIN others |->
                      IF w \in Versions THEN origin[w]
                      ELSE [revision |-> k, source |-> others[w]]]
        /\ pinned' = [t \in Targets |-> IF pinned[t] \in S THEN given(pinned[t]) ELSE pinned[t]]
    BY DEF Clone, Follows
  <2>2. fresh = S
    BY <1>3
  <2>3. \A v \in S : given(v) = number[v]
    BY <2>2
  <2> HIDE DEF given, fresh, number, S
  <2>4. others = added
    BY <2>2, <2>3
  <2> HIDE DEF others, added
  <2> QED  BY <2>1, <2>3, <2>4
<1>9. \A v \in S : number[v] \in DOMAIN added /\ added[number[v]] = v /\ number[v] \notin Versions
  <2> HIDE DEF number, S
  <2> QED  BY <1>6, <1>7
<1>10. DOMAIN added = {number[v] : v \in S}
  OBVIOUS
<1>11. number \in [S -> Nat \ (Versions \cup {0})]
  <2> HIDE DEF place, S
  <2> QED  BY <1>6
<1>12. /\ Versions' = Versions \cup {number[v] : v \in S}
       /\ bodies' = [w \in Versions' |-> bodies'[w]] /\ origin' = [w \in Versions' |-> origin'[w]]
       /\ \A w \in Versions : bodies'[w] = bodies[w] /\ origin'[w] = origin[w]
       /\ \A v \in S :
            /\ bodies'[number[v]] = Canonical(k, bodies[v])
            /\ origin'[number[v]] = [revision |-> k, source |-> v]
  <2> HIDE DEF number, S, added
  <2>1. Versions' = Versions \cup DOMAIN added
    BY <1>8 DEF Versions
  <2> QED  BY <1>8, <1>9, <1>10, <2>1
<1> HIDE DEF number
<1> QED  BY <1>1, <1>7, <1>8, <1>11, <1>12

LEMMA RecordedKeeps ==
  ASSUME ProfileTypes, NEW k \in 1..LastRevision, NEW pins \in [Targets -> Nat]
  PROVE  /\ Recorded(k, pins) \in [1..LastRevision -> [Targets -> Nat]]
         /\ \A j \in 1..LastRevision :
              /\ j < k => Recorded(k, pins)[j] = trail[j]
              /\ j = k => Recorded(k, pins)[j] = pins
              /\ j > k => Recorded(k, pins)[j] = Unpinned
<1>1. Unpinned \in [Targets -> Nat]
  BY DEF Unpinned
<1>2. k \in Int /\ \A j \in 1..LastRevision : j \in Int
  BY DEF LastRevision
<1>3. \A j \in 1..LastRevision :
        Recorded(k, pins)[j] = IF j < k THEN trail[j] ELSE IF j = k THEN pins ELSE Unpinned
  BY DEF Recorded
<1>4. trail \in [1..LastRevision -> [Targets -> Nat]]
  BY DEF ProfileTypes
<1>5. \A j \in 1..LastRevision : Recorded(k, pins)[j] \in [Targets -> Nat]
  BY <1>1, <1>3, <1>4
<1> QED  BY <1>2, <1>3, <1>5 DEF Recorded

LEMMA PinsAreNumbers ==
  ASSUME ProfileTypes
  PROVE  pinned \in [Targets -> Nat] /\ 0 \notin Versions /\ revision \in Nat
<1>1. Versions \in SUBSET (Nat \ {0}) /\ pinned \in [Targets -> Versions \cup {0}]
      /\ revision \in 0..LastRevision
  BY DEF ProfileTypes
<1>2. revision \in Nat
  BY <1>1 DEF LastRevision
<1>3. \A v \in Versions : v \in Nat
  BY <1>1
<1>4. \A t \in Targets : pinned[t] \in Nat
  <2> SUFFICES ASSUME NEW t \in Targets PROVE pinned[t] \in Nat
    OBVIOUS
  <2>1. pinned[t] \in Versions \/ pinned[t] = 0
    BY <1>1
  <2> QED  BY <1>3, <2>1
<1> QED  BY <1>1, <1>2, <1>4

\* Applying a revision puts the pins of before it on the trail: it leads on as long as the
\* revision, undone, leads back.
LEMMA TrailExtended ==
  ASSUME ProfileTypes, TrailLeads, NEW k \in 1..LastRevision, revision = k - 1, revision' = k,
         trail' = Recorded(k, pinned), pinned' \in [Targets -> Nat],
         \A t \in Targets : pinned[t] = Back(k, pinned[t])',
         \A j \in 1..(k - 1), p \in Nat : Back(j, p)' = Back(j, p)
  PROVE  TrailLeads' /\ TrailAhead'
<1>0. k \in 1..7 /\ LastRevision = 7
  BY DEF LastRevision
<1>1. /\ \A j \in 1..LastRevision :
            /\ j < k => trail'[j] = trail[j]
            /\ j = k => trail'[j] = pinned
            /\ j > k => trail'[j] = Unpinned
  BY RecordedKeeps, PinsAreNumbers
<1>2. ASSUME NEW j \in 1..k, trail'[j] # Unpinned, NEW t \in Targets
      PROVE  trail'[j][t] = Back(j, PinsAfter(j)[t])'
  <2>1. CASE j = k
    <3>1. PinsAfter(j)' = pinned'
      BY <2>1 DEF PinsAfter
    <3>2. trail'[j] = pinned
      BY <1>0, <1>1, <2>1
    <3>3. pinned[t] = Back(k, pinned[t])'
      OBVIOUS
    <3> QED  BY <2>1, <3>1, <3>2, <3>3 DEF Back
  <2>2. CASE j # k
    <3>1. j \in 1..revision /\ j \in 1..(k - 1) /\ j < k /\ j \in 1..LastRevision /\ j + 1 \in 1..LastRevision
      BY <1>0, <2>2
    <3>2. trail'[j] = trail[j] /\ trail'[j][t] = Back(j, PinsAfter(j)[t])
      BY <1>1, <1>2, <3>1 DEF TrailLeads
    <3>3. PinsAfter(j)' = trail'[j + 1]
      BY <2>2 DEF PinsAfter
    <3>4. trail'[j + 1] = PinsAfter(j)
      <4>1. CASE j = k - 1
        BY <1>0, <1>1, <3>1, <4>1 DEF PinsAfter
      <4>2. CASE j # k - 1
        <5>1. j + 1 < k /\ j # revision
          BY <1>0, <3>1, <4>2
        <5> QED  BY <1>1, <3>1, <5>1 DEF PinsAfter
      <4> QED  BY <4>1, <4>2
    <3>5. PinsAfter(j)[t] \in Nat
      <4>1. pinned \in [Targets -> Nat] /\ trail \in [1..LastRevision -> [Targets -> Nat]]
        BY PinsAreNumbers DEF ProfileTypes
      <4> QED  BY <3>1, <4>1 DEF PinsAfter
    <3>6. Back(j, PinsAfter(j)[t])' = Back(j, PinsAfter(j)[t])
      <4>1. PinsAfter(j)'[t] = PinsAfter(j)[t]
        BY <3>3, <3>4
      <4>2. Back(j, PinsAfter(j)[t])' = IF PinsAfter(j)'[t] \in Versions' /\ origin'[PinsAfter(j)'[t]].revision = j
                                    THEN origin'[PinsAfter(j)'[t]].source ELSE PinsAfter(j)'[t]
        BY DEF Back
      <4>3. \A p \in Nat : (IF p \in Versions' /\ origin'[p].revision = j THEN origin'[p].source ELSE p)
                              = Back(j, p)
        BY <3>1 DEF Back
      <4> QED  BY <3>5, <4>1, <4>2, <4>3
    <3> QED  BY <3>2, <3>6
  <2> QED  BY <2>1, <2>2
<1>3. TrailLeads'
  BY <1>2 DEF TrailLeads, Unpinned
<1>4. TrailAhead'
  <2>1. k < LastRevision => k + 1 \in 1..LastRevision /\ k + 1 > k
    BY <1>0
  <2> QED  BY <1>1, <2>1 DEF TrailAhead, Unpinned
<1> QED  BY <1>3, <1>4

\* Undoing one takes the pins back, and the trail with them.
LEMMA TrailShortened ==
  ASSUME ProfileTypes, TrailLeads, NEW k \in 1..LastRevision, revision = k, revision' = k - 1,
         pinned' \in [Targets -> Nat], \A j \in 1..(k - 1) : trail'[j] = trail[j],
         trail'[k] \in {trail[k], pinned'},
         \A t \in Targets : pinned'[t] = Back(k, pinned[t]),
         \A j \in 1..(k - 1), p \in Nat : Back(j, p)' = Back(j, p)
  PROVE  TrailLeads' /\ TrailAhead'
<1>0. k \in 1..7 /\ LastRevision = 7
  BY DEF LastRevision
<1>1. /\ trail[k] # Unpinned => pinned' = trail[k]
      /\ \A j \in 1..(k - 1) : trail[j] # Unpinned =>
           \A t \in Targets :
             trail[j][t] = Back(j, IF j = k - 1 THEN pinned'[t] ELSE trail[j + 1][t])
  BY <1>0, TrailUndone
<1>2. ASSUME NEW j \in 1..(k - 1), trail'[j] # Unpinned, NEW t \in Targets
      PROVE  trail'[j][t] = Back(j, PinsAfter(j)[t])'
  <2>0. j # k - 1 => j + 1 \in 1..(k - 1)
    BY <1>0
  <2>1. PinsAfter(j)'[t] = IF j = k - 1 THEN pinned'[t] ELSE trail[j + 1][t]
    BY <2>0 DEF PinsAfter
  <2>2. j + 1 \in 1..LastRevision
    BY <1>0
  <2>3. PinsAfter(j)'[t] \in Nat
    <3>1. trail \in [1..LastRevision -> [Targets -> Nat]]
      BY DEF ProfileTypes
    <3>2. pinned'[t] \in Nat /\ trail[j + 1][t] \in Nat
      BY <2>2, <3>1
    <3> QED  BY <2>1, <3>2
  <2>4. Back(j, PinsAfter(j)[t])' = IF PinsAfter(j)'[t] \in Versions' /\ origin'[PinsAfter(j)'[t]].revision = j
                                THEN origin'[PinsAfter(j)'[t]].source ELSE PinsAfter(j)'[t]
    BY DEF Back
  <2>5. \A p \in Nat : (IF p \in Versions' /\ origin'[p].revision = j THEN origin'[p].source ELSE p)
                          = Back(j, p)
    BY DEF Back
  <2>6. trail[j][t] = Back(j, PinsAfter(j)'[t])
    BY <1>1, <1>2, <2>1
  <2> QED  BY <2>3, <2>4, <2>5, <2>6
<1>3. TrailLeads'
  BY <1>2 DEF TrailLeads, Unpinned
<1>4. TrailAhead'
  <2>1. revision' + 1 = k
    BY <1>0
  <2> QED  BY <1>1, <2>1 DEF TrailAhead, Unpinned
<1> QED  BY <1>3, <1>4

LEMMA CloneStep ==
  ASSUME ProfileInv, NEW k \in 4..LastRevision, Clone(k)
  PROVE  ProfileInv'
<1>0. k \in 4..7 /\ k \in 1..LastRevision /\ LastRevision = 7
  BY DEF LastRevision
<1>1. /\ revision = k - 1 /\ revision' = k /\ trail' = Recorded(k, pinned)
      /\ settings' = settings /\ system' = system /\ edit' = edit
      /\ \A e \in Editors : edit[e] = NoEdit
  BY <1>0 DEF Clone, Migrates
<1>2. ProfileTypes /\ ClonesKnown /\ BodiesMigrated /\ EditsHold /\ TrailLeads
  BY DEF ProfileInv
<1>3. /\ IsFiniteSet(Versions) /\ Versions \in SUBSET (Nat \ {0})
      /\ bodies \in [Versions -> Bodies] /\ origin \in [Versions -> Origins]
      /\ pinned \in [Targets -> Versions \cup {0}]
      /\ pinned \in [Targets -> Nat] /\ 0 \notin Versions
  BY <1>2, PinsAreNumbers DEF ProfileTypes
<1> DEFINE S == Sources(k)
<1>4. S \in SUBSET Versions
  BY <1>2, CloneAdds
<1>5. PICK number \in [S -> Nat \ (Versions \cup {0})] :
        /\ \A v, w \in S : number[v] = number[w] => v = w
        /\ Versions' = Versions \cup {number[v] : v \in S}
        /\ bodies' = [w \in Versions' |-> bodies'[w]] /\ origin' = [w \in Versions' |-> origin'[w]]
        /\ \A w \in Versions : bodies'[w] = bodies[w] /\ origin'[w] = origin[w]
        /\ \A v \in S :
             /\ bodies'[number[v]] = Canonical(k, bodies[v])
             /\ origin'[number[v]] = [revision |-> k, source |-> v]
        /\ pinned' = [t \in Targets |-> IF pinned[t] \in S THEN number[pinned[t]] ELSE pinned[t]]
  BY <1>2, CloneAdds
<1>6. \A t \in Targets : pinned[t] # 0 /\ pinned[t] \notin S => Canonical(k, bodies[pinned[t]]) = bodies[pinned[t]]
  BY DEF Sources
<1> HIDE DEF S
<1>7. \A v \in S : v \in Versions /\ v \in Nat /\ number[v] \in Nat /\ number[v] # 0
                   /\ number[v] \notin Versions /\ number[v] \in Versions'
  BY <1>3, <1>4, <1>5
<1>8. \A w \in Versions' : w \in Versions \/ \E v \in S : w = number[v]
  BY <1>5
<1>9. \A w \in Versions : w \in Versions' /\ w \in Nat /\ w # 0
  BY <1>3, <1>5
<1>10. \A t \in Targets :
         \/ pinned[t] \in S /\ pinned'[t] = number[pinned[t]]
         \/ pinned[t] \notin S /\ pinned'[t] = pinned[t]
  BY <1>5
<1>11. ProfileTypes'
  <2>1. revision' \in 0..LastRevision
    BY <1>0, <1>1
  <2>2. settings' \in {"absent", "default", "own"} /\ system' \in [Targets -> Legacy \cup {0}]
        /\ edit' \in [Editors -> {NoEdit} \cup Creations \cup Pinnings]
    BY <1>1, <1>2 DEF ProfileTypes
  <2>3. IsFiniteSet(Versions')
    <3> DEFINE T == {number[v] : v \in S}
    <3>1. IsFiniteSet(S)
      BY <1>3, <1>4, FS_Subset
    <3>2. number \in Surjection(S, T)
      BY DEF Surjection
    <3>3. IsFiniteSet(T)
      BY <3>1, <3>2, FS_Surjection
    <3> QED  BY <1>3, <1>5, <3>3, FS_Union
  <2>4. Versions' \in SUBSET (Nat \ {0})
    <3>1. \A w \in Versions' : w \in Nat \ {0}
      BY <1>7, <1>8, <1>9
    <3> QED  BY <3>1
  <2>5. bodies' \in [Versions' -> Bodies]
    <3>1. ASSUME NEW w \in Versions' PROVE bodies'[w] \in Bodies
      <4>1. CASE w \in Versions
        BY <1>3, <1>5, <4>1
      <4>2. CASE \E v \in S : w = number[v]
        <5>1. PICK v \in S : w = number[v]
          BY <4>2
        <5>2. v \in Versions /\ bodies[v] \in Bodies /\ bodies'[w] = Canonical(k, bodies[v])
          BY <1>3, <1>5, <1>7, <5>1
        <5> QED  BY <5>2, CanonicalKeeps
      <4> QED  BY <1>8, <4>1, <4>2
    <3> QED  BY <1>5, <3>1
  <2>6. origin' \in [Versions' -> Origins]
    <3>1. ASSUME NEW w \in Versions' PROVE origin'[w] \in Origins
      <4>1. CASE w \in Versions
        BY <1>3, <1>5, <4>1
      <4>2. CASE \E v \in S : w = number[v]
        <5>1. PICK v \in S : w = number[v]
          BY <4>2
        <5>2. origin'[w] = [revision |-> k, source |-> v]
          BY <1>5, <5>1
        <5> QED  BY <1>7, <5>2 DEF Origins
      <4> QED  BY <1>8, <4>1, <4>2
    <3> QED  BY <1>5, <3>1
  <2>7. pinned' \in [Targets -> Versions' \cup {0}]
    <3>1. \A t \in Targets : pinned'[t] \in Versions' \cup {0}
      BY <1>3, <1>7, <1>9, <1>10
    <3> QED  BY <1>5, <3>1
  <2>8. trail' \in [1..LastRevision -> [Targets -> Nat]]
    BY <1>0, <1>1, <1>2, <1>3, RecordedKeeps
  <2> QED  BY <2>1, <2>2, <2>3, <2>4, <2>5, <2>6, <2>7, <2>8 DEF ProfileTypes
<1>12. \A w \in Versions : origin[w].revision \in Nat /\ origin[w].revision < k
  BY <1>0, <1>1, <1>2, <1>3 DEF ClonesKnown, Origins
<1>13. ClonesKnown'
  <2> SUFFICES ASSUME NEW w \in Versions'
               PROVE  /\ origin'[w].revision <= revision'
                      /\ origin'[w].revision # 0 =>
                           /\ origin'[w].source \in Versions'
                           /\ origin'[origin'[w].source].revision < origin'[w].revision
                           /\ origin'[w].revision >= 6 => bodies'[origin'[w].source].once
    BY DEF ClonesKnown
  <2>1. CASE w \in Versions
    <3>1. origin'[w] = origin[w]
      BY <1>5, <2>1
    <3>2. origin[w].revision # 0 => 
            /\ origin[w].source \in Versions /\ origin[origin[w].source].revision < origin[w].revision
            /\ origin[w].revision >= 6 => bodies[origin[w].source].once
      BY <1>2, <2>1 DEF ClonesKnown
    <3>3. origin[w].revision <= k
      BY <1>0, <1>12, <2>1
    <3> QED  BY <1>1, <1>5, <1>9, <3>1, <3>2, <3>3
  <2>2. CASE \E v \in S : w = number[v]
    <3>1. PICK v \in S : w = number[v]
      BY <2>2
    <3>2. origin'[w] = [revision |-> k, source |-> v] /\ v \in Versions /\ v \in Versions'
      BY <1>5, <1>7, <1>9, <3>1
    <3>3. origin'[v].revision < k /\ bodies'[v] = bodies[v]
      BY <1>5, <1>12, <3>2
    <3>4. k >= 6 => bodies[v].once
      <4>1. \E t \in Targets : v = pinned[t] /\ pinned[t] # 0
        BY DEF S, Sources
      <4>2. k >= 6 => revision >= 5
        BY <1>0, <1>1
      <4> QED  BY <1>2, <4>1, <4>2 DEF BodiesMigrated
    <3> QED  BY <1>0, <1>1, <3>2, <3>3, <3>4
  <2> QED  BY <1>8, <2>1, <2>2
<1>14. BodiesMigrated'
  <2>1. ASSUME NEW w \in Versions' PROVE bodies'[w].scale = "percent" /\ bodies'[w].backstage
    <3>1. \A v \in Versions : bodies[v] \in Bodies /\ bodies[v].scale = "percent" /\ bodies[v].backstage
      BY <1>0, <1>1, <1>2, <1>3 DEF BodiesMigrated
    <3>2. CASE w \in Versions
      BY <1>5, <3>1, <3>2
    <3>3. CASE \E v \in S : w = number[v]
      <4>1. PICK v \in S : w = number[v]
        BY <3>3
      <4>2. bodies'[w] = Canonical(k, bodies[v])
        BY <1>5, <4>1
      <4>3. bodies[v] \in Bodies /\ bodies[v].scale = "percent" /\ bodies[v].backstage
        BY <1>7, <3>1, <4>1
      <4> QED  BY <4>2, <4>3, CanonicalKeeps
    <3> QED  BY <1>8, <3>2, <3>3
  <2>2. ASSUME revision' >= 5, NEW t \in Targets, pinned'[t] # 0 PROVE bodies'[pinned'[t]].once
    <3>1. pinned[t] \in Versions /\ bodies[pinned[t]] \in Bodies
      BY <1>3, <1>7, <1>10, <2>2
    <3>2. Canonical(k, bodies[pinned[t]]).once
      <4>1. k = 5 \/ revision >= 5
        BY <1>0, <1>1, <2>2
      <4>2. CASE k = 5
        BY <3>1, <4>2, CanonicalKeeps
      <4>3. CASE revision >= 5
        <5>1. bodies[pinned[t]].once
          BY <1>2, <1>3, <3>1, <4>3 DEF BodiesMigrated
        <5> QED  BY <3>1, <5>1, CanonicalKeeps
      <4> QED  BY <4>1, <4>2, <4>3
    <3>3. bodies'[pinned'[t]] = Canonical(k, bodies[pinned[t]])
      BY <1>3, <1>5, <1>6, <1>10, <3>1
    <3> QED  BY <3>2, <3>3
  <2> QED  BY <2>1, <2>2 DEF BodiesMigrated
<1>15. EditsHold'
  <2>1. NoEdit.does = "nothing"
    BY DEF NoEdit
  <2> QED  BY <1>1, <2>1 DEF EditsHold, NoEdit
<1>16. TrailLeads' /\ TrailAhead'
  <2>1. \A t \in Targets : pinned[t] = Back(k, pinned[t])'
    <3> SUFFICES ASSUME NEW t \in Targets
                 PROVE  pinned[t] = IF pinned'[t] \in Versions' /\ origin'[pinned'[t]].revision = k
                                    THEN origin'[pinned'[t]].source ELSE pinned'[t]
      BY DEF Back
    <3>1. CASE pinned[t] \in S /\ pinned'[t] = number[pinned[t]]
      <4>1. pinned'[t] \in Versions' /\ origin'[pinned'[t]] = [revision |-> k, source |-> pinned[t]]
        BY <1>5, <1>7, <3>1
      <4> QED  BY <4>1
    <3>2. CASE pinned[t] \notin S /\ pinned'[t] = pinned[t]
      <4>1. CASE pinned[t] \in Versions
        <5>1. origin'[pinned[t]].revision # k
          BY <1>0, <1>5, <1>12, <4>1
        <5> QED  BY <3>2, <5>1
      <4>2. CASE pinned[t] = 0
        <5>1. 0 \notin Versions'
          BY <1>3, <1>7, <1>8
        <5> QED  BY <3>2, <4>2, <5>1
      <4> QED  BY <1>3, <4>1, <4>2
    <3> QED  BY <1>10, <3>1, <3>2
  <2>2. ASSUME NEW j \in 1..(k - 1), NEW p \in Nat PROVE Back(j, p)' = Back(j, p)
    <3>1. CASE p \in Versions
      BY <1>5, <1>9, <3>1 DEF Back
    <3>2. CASE p \notin Versions
      <4>1. ASSUME p \in Versions' PROVE origin'[p].revision = k
        <5>1. PICK v \in S : p = number[v]
          BY <1>8, <3>2, <4>1
        <5>2. origin'[p] = [revision |-> k, source |-> v]
          BY <1>5, <5>1
        <5> QED  BY <5>2
      <4>2. j # k
        BY <1>0
      <4> QED  BY <3>2, <4>1, <4>2 DEF Back
    <3> QED  BY <3>1, <3>2
  <2>3. pinned' \in [Targets -> Nat]
    <3>1. \A t \in Targets : pinned'[t] \in Nat
      BY <1>3, <1>7, <1>10
    <3> QED  BY <1>5, <3>1
  <2> QED  BY <1>0, <1>1, <1>2, <2>1, <2>2, <2>3, TrailExtended
<1> QED  BY <1>11, <1>13, <1>14, <1>15, <1>16 DEF ProfileInv

\* The clones of the latest revision are nobody's source: undone, they go and their
\* sources stay.
LEMMA UndoCloneStep ==
  ASSUME ProfileInv, NEW k \in 4..LastRevision, UndoClone(k)
  PROVE  ProfileInv'
<1>0. k \in 4..7 /\ k \in 1..LastRevision /\ LastRevision = 7
  BY DEF LastRevision
<1>1. /\ revision = k /\ revision' = k - 1 /\ trail' = trail
      /\ settings' = settings /\ system' = system /\ edit' = edit
      /\ \A e \in Editors : edit[e] = NoEdit
      /\ bodies' = [v \in Versions \ Clones(k) |-> bodies[v]]
      /\ origin' = [v \in Versions \ Clones(k) |-> origin[v]]
      /\ pinned' = [t \in Targets |-> Returns(t, k)]
  BY <1>0 DEF UndoClone, Migrates
<1>2. ProfileTypes /\ ClonesKnown /\ BodiesMigrated /\ EditsHold /\ TrailLeads
  BY DEF ProfileInv
<1>3. /\ IsFiniteSet(Versions) /\ Versions \in SUBSET (Nat \ {0})
      /\ bodies \in [Versions -> Bodies] /\ origin \in [Versions -> Origins]
      /\ pinned \in [Targets -> Versions \cup {0}]
      /\ pinned \in [Targets -> Nat] /\ 0 \notin Versions
  BY <1>2, PinsAreNumbers DEF ProfileTypes
<1>4. Versions' = Versions \ Clones(k)
  BY <1>1 DEF Versions
<1>5. /\ bodies' = [v \in Versions' |-> bodies[v]] /\ origin' = [v \in Versions' |-> origin[v]]
      /\ \A v \in Versions' : v \in Versions /\ origin[v].revision # k
                              /\ bodies'[v] = bodies[v] /\ origin'[v] = origin[v]
  BY <1>1, <1>4 DEF Clones
<1>6. \A v \in Versions : origin[v].revision # k => v \in Versions'
  BY <1>4 DEF Clones
<1>7. \A w \in Versions : origin[w].revision \in Nat /\ origin[w].revision <= k
  BY <1>0, <1>1, <1>2, <1>3 DEF ClonesKnown, Origins
<1>8. \A w \in Versions : origin[w].revision # 0 =>
         /\ origin[w].source \in Versions /\ origin[origin[w].source].revision < origin[w].revision
         /\ origin[w].revision >= 6 => bodies[origin[w].source].once
  BY <1>2 DEF ClonesKnown
<1>9. \A w \in Versions : origin[w].revision # 0 => origin[w].source \in Versions'
  BY <1>6, <1>7, <1>8
<1>10. \A t \in Targets :
         \/ /\ pinned[t] \in Versions /\ origin[pinned[t]].revision = k
            /\ pinned'[t] = origin[pinned[t]].source /\ pinned'[t] \in Versions'
         \/ pinned[t] \in Versions' /\ pinned'[t] = pinned[t]
         \/ pinned[t] = 0 /\ pinned'[t] = 0
  BY <1>0, <1>1, <1>3, <1>6, <1>9 DEF Returns, Clones
<1>11. ProfileTypes'
  <2>1. revision' \in 0..LastRevision
    BY <1>0, <1>1
  <2>2. settings' \in {"absent", "default", "own"} /\ system' \in [Targets -> Legacy \cup {0}]
        /\ edit' \in [Editors -> {NoEdit} \cup Creations \cup Pinnings]
        /\ trail' \in [1..LastRevision -> [Targets -> Nat]]
    BY <1>1, <1>2 DEF ProfileTypes
  <2>3. IsFiniteSet(Versions') /\ Versions' \in SUBSET (Nat \ {0})
    <3>1. Versions' \in SUBSET Versions
      BY <1>4
    <3> QED  BY <1>3, <3>1, FS_Subset
  <2>4. bodies' \in [Versions' -> Bodies] /\ origin' \in [Versions' -> Origins]
    BY <1>3, <1>5
  <2>5. pinned' \in [Targets -> Versions' \cup {0}]
    <3>1. \A t \in Targets : pinned'[t] \in Versions' \cup {0}
      BY <1>10
    <3> QED  BY <1>1, <3>1
  <2> QED  BY <2>1, <2>2, <2>3, <2>4, <2>5 DEF ProfileTypes
<1>13. ClonesKnown'
  <2> SUFFICES ASSUME NEW w \in Versions'
               PROVE  /\ origin'[w].revision <= revision'
                      /\ origin'[w].revision # 0 =>
                           /\ origin'[w].source \in Versions'
                           /\ origin'[origin'[w].source].revision < origin'[w].revision
                           /\ origin'[w].revision >= 6 => bodies'[origin'[w].source].once
    BY DEF ClonesKnown
  <2>1. origin[w].revision <= k - 1
    BY <1>0, <1>5, <1>7
  <2> QED  BY <1>1, <1>5, <1>8, <1>9, <2>1
<1>14. BodiesMigrated'
  <2>1. /\ revision' >= 2 => revision >= 2
        /\ revision' >= 3 => revision >= 3
        /\ revision' >= 5 => revision >= 5 /\ k >= 6
    BY <1>0, <1>1
  <2>2. revision' >= 2 => \A v \in Versions' : bodies'[v].scale = "percent"
    BY <1>2, <1>5, <2>1 DEF BodiesMigrated
  <2>3. revision' >= 3 => \A v \in Versions' : bodies'[v].backstage
    BY <1>2, <1>5, <2>1 DEF BodiesMigrated
  <2>4. ASSUME revision' >= 5, NEW t \in Targets, pinned'[t] # 0 PROVE bodies'[pinned'[t]].once
    <3>1. CASE /\ pinned[t] \in Versions /\ origin[pinned[t]].revision = k
               /\ pinned'[t] = origin[pinned[t]].source /\ pinned'[t] \in Versions'
      BY <1>0, <1>5, <1>8, <2>1, <2>4, <3>1
    <3>2. CASE pinned[t] \in Versions' /\ pinned'[t] = pinned[t]
      BY <1>2, <1>5, <2>1, <2>4, <3>2 DEF BodiesMigrated
    <3> QED  BY <1>10, <2>4, <3>1, <3>2
  <2> QED  BY <2>2, <2>3, <2>4 DEF BodiesMigrated
<1>15. EditsHold'
  BY <1>1 DEF EditsHold, NoEdit
<1>16. TrailLeads' /\ TrailAhead'
  <2>1. \A t \in Targets : pinned'[t] = Back(k, pinned[t])
    BY <1>3, <1>5, <1>10 DEF Back
  <2>2. ASSUME NEW j \in 1..(k - 1), NEW p \in Nat PROVE Back(j, p)' = Back(j, p)
    <3>1. j # k
      BY <1>0
    <3>2. p \in Versions /\ p \notin Versions' => origin[p].revision = k
      BY <1>6
    <3> QED  BY <1>5, <3>1, <3>2 DEF Back
  <2>3. pinned' \in [Targets -> Nat]
    <3>0. \A v \in Versions' : v \in Nat
      BY <1>3, <1>5
    <3>1. \A t \in Targets : pinned'[t] \in Nat
      BY <1>10, <3>0
    <3> QED  BY <1>1, <3>1
  <2> QED  BY <1>0, <1>1, <1>2, <2>1, <2>2, <2>3, TrailShortened
<1> QED  BY <1>11, <1>13, <1>14, <1>15, <1>16 DEF ProfileInv

-----------------------------------------------------------------------------
(* Profiles: the first three revisions, up and down *)

\* As long as no revision clones, there are no clones and nothing leads back elsewhere.
LEMMA NoClonesYet ==
  ASSUME ProfileTypes, ClonesKnown, revision <= 3
  PROVE  /\ \A w \in Versions : origin[w].revision = 0
         /\ \A j \in 1..LastRevision, p \in Nat : Back(j, p) = p
<1>1. \A w \in Versions : origin[w] \in Origins /\ origin[w].revision <= revision
  BY DEF ProfileTypes, ClonesKnown
<1>2. revision \in Nat
  BY PinsAreNumbers
<1>3. ASSUME NEW w \in Versions PROVE origin[w].revision = 0
  <2>1. origin[w].revision = 0 \/ origin[w].revision \in 4..LastRevision
    BY <1>1 DEF Origins
  <2>2. CASE origin[w].revision \in 4..LastRevision
    <3>1. origin[w].revision >= 4 /\ origin[w].revision \in Int
      BY <2>2 DEF LastRevision
    <3> QED  BY <1>1, <1>2, <3>1
  <2> QED  BY <2>1, <2>2
<1>4. \A j \in 1..LastRevision : j # 0
  BY DEF LastRevision
<1> QED  BY <1>3, <1>4 DEF Back

\* A revision that rewrites every version where it stands, applied or undone.
LEMMA RewriteStep ==
  ASSUME ProfileInv, NEW k \in 1..3, NEW rewritten \in [Versions -> Bodies],
         \/ revision = k - 1 /\ revision' = k /\ trail' = Recorded(k, pinned)
         \/ revision = k /\ revision' = k - 1 /\ trail' \in {trail, Recorded(k, pinned)},
         bodies' = rewritten, pinned' = pinned, origin' = origin, system' = system,
         settings' = settings, edit' = edit, \A e \in Editors : edit[e] = NoEdit,
         revision' >= 2 => \A v \in Versions : rewritten[v].scale = "percent",
         revision' >= 3 => \A v \in Versions : rewritten[v].backstage
  PROVE  ProfileInv'
<1>0. k \in 1..LastRevision /\ LastRevision = 7 /\ revision' \in 0..3 /\ revision <= 3
  BY DEF LastRevision
<1>1. ProfileTypes /\ ClonesKnown /\ TrailLeads
  BY DEF ProfileInv
<1>2. Versions' = Versions
  BY DEF Versions
<1>3. ProfileTypes'
  <2>1. pinned \in [Targets -> Nat]
    BY <1>1, PinsAreNumbers
  <2>2. trail' \in [1..LastRevision -> [Targets -> Nat]]
    BY <1>0, <1>1, <2>1, RecordedKeeps DEF ProfileTypes
  <2>3. revision' \in 0..LastRevision
    BY <1>0
  <2> QED  BY <1>1, <1>2, <2>2, <2>3 DEF ProfileTypes
<1>4. \A w \in Versions : origin[w].revision = 0
  BY <1>0, <1>1, NoClonesYet
<1>5. ClonesKnown'
  BY <1>0, <1>2, <1>4 DEF ClonesKnown
<1>6. BodiesMigrated'
  <2>1. ~ (revision' >= 5)
    BY <1>0
  <2> QED  BY <1>2, <2>1 DEF BodiesMigrated
<1>7. EditsHold'
  BY DEF EditsHold, NoEdit
<1>8. TrailLeads' /\ TrailAhead'
  <2>1. pinned \in [Targets -> Nat] /\ pinned' \in [Targets -> Nat]
    BY <1>1, PinsAreNumbers
  <2>2. \A j \in 1..LastRevision, p \in Nat : Back(j, p) = p
    BY <1>0, <1>1, NoClonesYet
  <2>3. \A j \in 1..LastRevision, p \in Nat : Back(j, p)' = Back(j, p)
    BY <1>2 DEF Back
  <2>4. \A j \in 1..(k - 1) : j \in 1..LastRevision
    BY <1>0
  <2>5. CASE revision = k - 1 /\ revision' = k /\ trail' = Recorded(k, pinned)
    <3>1. \A t \in Targets : pinned[t] = Back(k, pinned[t])'
      <4>1. \A t \in Targets : Back(k, pinned[t])' = Back(k, pinned[t])
        BY <1>2 DEF Back
      <4> QED  BY <1>0, <2>1, <2>2, <4>1
    <3>2. \A j \in 1..(k - 1), p \in Nat : Back(j, p)' = Back(j, p)
      BY <2>3, <2>4
    <3>3. revision = k - 1 /\ revision' = k
      BY <2>5
    <3>4. trail' = Recorded(k, pinned)
      BY <2>5
    <3> QED  BY <1>0, <1>1, <2>1, <3>1, <3>2, <3>3, <3>4, TrailExtended
  <2>6. CASE revision = k /\ revision' = k - 1
    <3>1. \A t \in Targets : pinned'[t] = Back(k, pinned[t])
      BY <1>0, <2>1, <2>2
    <3>2. \A j \in 1..(k - 1), p \in Nat : Back(j, p)' = Back(j, p)
      BY <2>3, <2>4
    <3>3. revision = k /\ revision' = k - 1
      BY <2>6
    <3>4. /\ \A j \in 1..(k - 1) : trail'[j] = trail[j]
          /\ trail'[k] \in {trail[k], pinned'}
      <4>1. CASE trail' = trail
        BY <4>1
      <4>2. CASE trail' = Recorded(k, pinned)
        <5>1. \A j \in 1..(k - 1) : j \in 1..LastRevision /\ j < k
          BY <1>0
        <5> QED  BY <1>0, <1>1, <2>1, <4>2, <5>1, RecordedKeeps
      <4> QED  BY <4>1, <4>2
    <3> QED  BY <1>0, <1>1, <2>1, <3>1, <3>2, <3>3, <3>4, TrailShortened
  <2> QED  BY <2>5, <2>6
<1> QED  BY <1>3, <1>5, <1>6, <1>7, <1>8 DEF ProfileInv

LEMMA FirstRevisionsStep ==
  ASSUME ProfileInv,
         \/ revision = 1 /\ Rewrite(2, 1, [v \in Versions |-> Rescaled(bodies[v])])
         \/ revision = 2 /\ Rewrite(3, 1, [v \in Versions |-> WithBackstage(bodies[v])])
         \/ UndoPersist
         \/ revision = 2 /\ Rewrite(2, -1, bodies)
         \/ revision = 3 /\ Rewrite(3, -1, [v \in Versions |-> WithoutBackstage(bodies[v])])
  PROVE  ProfileInv'
<1>1. bodies \in [Versions -> Bodies] /\ revision \in Nat
  <2>1. ProfileTypes
    BY DEF ProfileInv
  <2> QED  BY <2>1, PinsAreNumbers DEF ProfileTypes
<1>2. CASE revision = 1 /\ Rewrite(2, 1, [v \in Versions |-> Rescaled(bodies[v])])
  <2> DEFINE rewritten == [v \in Versions |-> Rescaled(bodies[v])]
  <2>1. rewritten \in [Versions -> Bodies] /\ \A v \in Versions : rewritten[v].scale = "percent"
    BY <1>1 DEF Rescaled, Bodies
  <2>2. /\ revision' = 2 /\ trail' = Recorded(2, pinned) /\ bodies' = rewritten
        /\ UNCHANGED <<settings, system, origin, pinned, edit>> /\ \A e \in Editors : edit[e] = NoEdit
    BY <1>2 DEF Rewrite, Migrates
  <2> HIDE DEF rewritten
  <2>3. 2 \in 1..3 /\ revision = 2 - 1
    BY <1>2
  <2>4. ~ (revision' >= 3)
    BY <2>2
  <2> QED  BY <2>1, <2>2, <2>3, <2>4, RewriteStep
<1>3. CASE revision = 2 /\ Rewrite(3, 1, [v \in Versions |-> WithBackstage(bodies[v])])
  <2> DEFINE rewritten == [v \in Versions |-> WithBackstage(bodies[v])]
  <2>1. rewritten \in [Versions -> Bodies] /\ \A v \in Versions : rewritten[v].backstage
                                              /\ rewritten[v].scale = bodies[v].scale
    BY <1>1 DEF WithBackstage, Bodies
  <2>2. /\ revision' = 3 /\ trail' = Recorded(3, pinned) /\ bodies' = rewritten
        /\ UNCHANGED <<settings, system, origin, pinned, edit>> /\ \A e \in Editors : edit[e] = NoEdit
    BY <1>3 DEF Rewrite, Migrates
  <2>3. \A v \in Versions : bodies[v].scale = "percent"
    BY <1>3 DEF ProfileInv, BodiesMigrated
  <2> HIDE DEF rewritten
  <2>4. 3 \in 1..3 /\ revision = 3 - 1
    BY <1>3
  <2> QED  BY <2>1, <2>2, <2>3, <2>4, RewriteStep
<1>4. CASE UndoPersist
  <2>1. /\ revision = 1 /\ revision' = 0 /\ trail' = trail /\ bodies' = bodies
        /\ UNCHANGED <<settings, system, origin, pinned, edit>> /\ \A e \in Editors : edit[e] = NoEdit
    BY <1>4 DEF UndoPersist, Migrates
  <2>2. 1 \in 1..3 /\ revision' = 1 - 1 /\ ~ (revision' >= 2) /\ ~ (revision' >= 3)
    BY <2>1
  <2> QED  BY <1>1, <2>1, <2>2, RewriteStep
<1>5. CASE revision = 2 /\ Rewrite(2, -1, bodies)
  <2>1. /\ revision' = 1 /\ trail' = Recorded(2, pinned) /\ bodies' = bodies
        /\ UNCHANGED <<settings, system, origin, pinned, edit>> /\ \A e \in Editors : edit[e] = NoEdit
    BY <1>5 DEF Rewrite, Migrates
  <2>2. 2 \in 1..3 /\ revision' = 2 - 1 /\ ~ (revision' >= 2) /\ ~ (revision' >= 3)
    BY <2>1
  <2> QED  BY <1>1, <1>5, <2>1, <2>2, RewriteStep
<1>6. CASE revision = 3 /\ Rewrite(3, -1, [v \in Versions |-> WithoutBackstage(bodies[v])])
  <2> DEFINE rewritten == [v \in Versions |-> WithoutBackstage(bodies[v])]
  <2>1. rewritten \in [Versions -> Bodies] /\ \A v \in Versions : rewritten[v].scale = bodies[v].scale
    BY <1>1 DEF WithoutBackstage, Bodies
  <2>2. /\ revision' = 2 /\ trail' = Recorded(3, pinned) /\ bodies' = rewritten
        /\ UNCHANGED <<settings, system, origin, pinned, edit>> /\ \A e \in Editors : edit[e] = NoEdit
    BY <1>6 DEF Rewrite, Migrates
  <2>3. \A v \in Versions : bodies[v].scale = "percent"
    BY <1>6 DEF ProfileInv, BodiesMigrated
  <2> HIDE DEF rewritten
  <2>4. 3 \in 1..3 /\ revision' = 3 - 1 /\ ~ (revision' >= 3)
    BY <2>2
  <2> QED  BY <1>6, <2>1, <2>2, <2>3, <2>4, RewriteStep
<1> QED  BY <1>2, <1>3, <1>4, <1>5, <1>6

-----------------------------------------------------------------------------
(* Profiles: the first revision, the requests and the theorem *)

\* The versions that d4f9 adds are there for every pin that it moves.
LEMMA PersistStep ==
  ASSUME ProfileInv, Persist
  PROVE  ProfileInv'
<1> DEFINE first == IF Versions = {} THEN 1 ELSE Top
           legacy == {system[t] : t \in Targets} \ {0}
           place(v) == Cardinality({w \in legacy : w <= v})
           last == first + Cardinality(legacy)
           final == IF settings = "absent" THEN last ELSE last + 1
           moved == [t \in Targets |-> IF system[t] = 0 THEN pinned[t] ELSE first + place(system[t])]
           plain(v) == Converted(IF v > last /\ settings = "own" THEN "own" ELSE "old")
<1>0. LastRevision = 7 /\ 1 \in 1..LastRevision
  BY DEF LastRevision
<1>1. /\ revision = 0 /\ revision' = 1 /\ trail' = Recorded(1, pinned')
      /\ settings' = "absent" /\ system' = Unpinned /\ edit' = edit
      /\ \A e \in Editors : edit[e] = NoEdit
  BY DEF Persist, Migrates
<1>2. /\ bodies' = [v \in Versions \cup first..final |-> IF v \in Versions THEN bodies[v] ELSE plain(v)]
      /\ origin' = [v \in Versions \cup first..final |-> IF v \in Versions THEN origin[v] ELSE ByHand]
      /\ pinned' = IF settings = "absent" THEN moved ELSE [moved EXCEPT !["global"] = final]
  BY DEF Persist
<1>3. ProfileTypes /\ ClonesKnown /\ BodiesMigrated /\ EditsHold /\ TrailLeads
  BY DEF ProfileInv
<1>4. /\ IsFiniteSet(Versions) /\ Versions \in SUBSET (Nat \ {0})
      /\ bodies \in [Versions -> Bodies] /\ origin \in [Versions -> Origins]
      /\ pinned \in [Targets -> Versions \cup {0}] /\ system \in [Targets -> Legacy \cup {0}]
      /\ pinned \in [Targets -> Nat] /\ 0 \notin Versions
  BY <1>3, PinsAreNumbers DEF ProfileTypes
<1>5. first \in Nat \ {0}
  <2>1. CASE Versions = {}
    BY <2>1
  <2>2. CASE Versions # {}
    <3>1. PICK v \in Versions : TRUE
      BY <2>2
    <3>2. Top \in Nat /\ v <= Top /\ v \in Nat /\ v # 0
      BY <1>3, <1>4, <3>1, TopBounds
    <3> QED  BY <2>2, <3>2
  <2> QED  BY <2>1, <2>2
<1>6. /\ IsFiniteSet(legacy) /\ legacy \in SUBSET Nat /\ Cardinality(legacy) \in Nat
  <2> DEFINE given == {system[t] : t \in Targets}
  <2>1. system \in Surjection(Targets, given)
    BY <1>4 DEF Surjection
  <2>2. IsFiniteSet(given)
    BY <2>1, ProfilesAssumed, FS_Surjection
  <2>3. IsFiniteSet(legacy)
    BY <2>2, FS_Difference
  <2>4. legacy \in SUBSET Nat
    BY <1>4, ProfilesAssumed
  <2> HIDE DEF legacy
  <2> QED  BY <2>3, <2>4, FS_CardinalityType
<1>7. /\ \A v \in legacy : place(v) \in 1..Cardinality(legacy)
  <2> HIDE DEF legacy
  <2> QED  BY <1>6, PlacesDiffer
<1>8. last \in Nat /\ final \in Nat /\ first <= last /\ last <= final
  <2> HIDE DEF legacy, first
  <2> QED  BY <1>5, <1>6
<1>9. \A v \in legacy : first + place(v) \in first..final
  <2> SUFFICES ASSUME NEW v \in legacy PROVE first + place(v) \in first..final
    OBVIOUS
  <2>1. place(v) \in 1..Cardinality(legacy)
    BY <1>7
  <2>2. last = first + Cardinality(legacy)
    OBVIOUS
  <2> HIDE DEF legacy, first, place, last, final
  <2> QED  BY <1>5, <1>6, <1>8, <2>1, <2>2
<1>10. \A t \in Targets : system[t] # 0 => system[t] \in legacy
  OBVIOUS
<1>11. Versions' = Versions \cup first..final
  BY <1>2 DEF Versions
<1>12. \A t \in Targets : moved[t] \in Versions' \cup {0}
  <2> SUFFICES ASSUME NEW t \in Targets PROVE moved[t] \in Versions' \cup {0}
    OBVIOUS
  <2>1. CASE system[t] = 0
    <3>1. moved[t] = pinned[t]
      BY <2>1
    <3> HIDE DEF moved, first, final
    <3> QED  BY <1>4, <1>11, <3>1
  <2>2. CASE system[t] # 0
    <3>1. moved[t] = first + place(system[t])
      BY <2>2
    <3>2. system[t] \in legacy
      BY <1>10, <2>2
    <3> HIDE DEF moved, first, final, place, legacy
    <3> QED  BY <1>9, <1>11, <3>1, <3>2
  <2> QED  BY <2>1, <2>2
<1>13. final \in first..final
  <2> HIDE DEF first, last, final
  <2> QED  BY <1>5, <1>8
<1>14. pinned' \in [Targets -> Versions' \cup {0}]
  <2>1. moved \in [Targets -> Versions' \cup {0}]
    BY <1>12
  <2>2. final \in Versions' \cup {0}
    BY <1>11, <1>13
  <2> HIDE DEF moved, final
  <2> QED  BY <1>2, <2>1, <2>2
<1>15. \A v \in Versions' : v \in Nat \ {0}
  <2> HIDE DEF first, final
  <2> QED  BY <1>4, <1>5, <1>11
<1>16. IsFiniteSet(Versions')
  <2>1. IsFiniteSet(first..final)
    <3> HIDE DEF first, final
    <3> QED  BY <1>5, <1>8, FS_Interval
  <2> HIDE DEF first, final
  <2> QED  BY <1>4, <1>11, <2>1, FS_Union
<1>17. \A v : plain(v) \in Bodies
  BY DEF Converted, Bodies
<1>18. bodies' \in [Versions' -> Bodies] /\ origin' \in [Versions' -> Origins]
       /\ \A v \in Versions' : origin'[v].revision = 0
  <2>1. ByHand \in Origins /\ ByHand.revision = 0
    BY DEF ByHand, Origins
  <2>2. \A w \in Versions : origin[w].revision = 0
    BY <1>1, <1>3, NoClonesYet
  <2> HIDE DEF first, final, plain
  <2> QED  BY <1>2, <1>4, <1>11, <1>17, <2>1, <2>2
<1>19. pinned' \in [Targets -> Nat]
  <2> HIDE DEF first, final
  <2>1. \A v \in Versions' : v \in Nat
    BY <1>15
  <2>2. \A t \in Targets : pinned'[t] \in Nat
    <3> SUFFICES ASSUME NEW t \in Targets PROVE pinned'[t] \in Nat
      OBVIOUS
    <3>1. pinned'[t] \in Versions' \/ pinned'[t] = 0
      BY <1>14
    <3> QED  BY <2>1, <3>1
  <2> QED  BY <1>14, <2>2
<1> HIDE DEF first, final, last, moved, plain, legacy, place
<1>20. /\ trail' \in [1..LastRevision -> [Targets -> Nat]] /\ trail'[1] = pinned'
       /\ trail'[2] = Unpinned
  <2>1. 2 \in 1..LastRevision
    BY <1>0
  <2> QED  BY <1>0, <1>1, <1>3, <1>19, <2>1, RecordedKeeps
<1>21. ProfileTypes'
  <2>1. system' \in [Targets -> Legacy \cup {0}] /\ revision' \in 0..LastRevision
    BY <1>0, <1>1 DEF Unpinned
  <2>2. Versions' \in SUBSET (Nat \ {0})
    BY <1>15
  <2>3. edit' \in [Editors -> {NoEdit} \cup Creations \cup Pinnings]
    BY <1>1, <1>3 DEF ProfileTypes
  <2> QED  BY <1>1, <1>14, <1>16, <1>18, <1>20, <2>1, <2>2, <2>3 DEF ProfileTypes
<1>22. ClonesKnown'
  BY <1>1, <1>18 DEF ClonesKnown
<1>23. BodiesMigrated' /\ EditsHold'
  BY <1>1 DEF BodiesMigrated, EditsHold, NoEdit
<1>24. TrailLeads' /\ TrailAhead'
  <2>2. ASSUME NEW j \in 1..revision', NEW t \in Targets PROVE trail'[j][t] = Back(j, PinsAfter(j)[t])'
    <3>1. j = 1 /\ j = revision'
      BY <1>1
    <3>2. PinsAfter(j)' = pinned'
      BY <3>1 DEF PinsAfter
    <3>3. Back(j, PinsAfter(j)[t])' = pinned'[t]
      BY <1>18, <3>1, <3>2 DEF Back
    <3> QED  BY <1>20, <3>1, <3>3
  <2>3. TrailLeads'
    BY <2>2 DEF TrailLeads
  <2>4. revision' + 1 = 2
    BY <1>1
  <2>5. TrailAhead'
    BY <1>20, <2>4 DEF TrailAhead, Unpinned
  <2> QED  BY <2>3, <2>5
<1> QED  BY <1>21, <1>22, <1>23, <1>24 DEF ProfileInv

\* A request that moved pins cuts the trail, one that did not leaves it: what a version
\* of nobody's clone is added to leads where it led.
LEMMA RequestsStep ==
  ASSUME ProfileInv,
         \/ \E e \in Editors : \E body \in Authored : ReadLast(e, body)
         \/ \E e \in Editors : \E t \in Targets, v \in Versions : CheckPin(e, t, v)
         \/ \E e \in Editors : \E t \in Targets : ClearPin(e, t)
         \/ \E e \in Editors : CreateVersion(e)
         \/ \E e \in Editors : SetPin(e)
  PROVE  ProfileInv'
<1>0. LastRevision = 7 /\ \A j \in 1..LastRevision : j # 0
  BY DEF LastRevision
<1>1. ProfileTypes /\ ClonesKnown /\ BodiesMigrated /\ EditsHold /\ TrailLeads /\ TrailAhead
  BY DEF ProfileInv
<1>2. /\ IsFiniteSet(Versions) /\ Versions \in SUBSET (Nat \ {0})
      /\ bodies \in [Versions -> Bodies] /\ origin \in [Versions -> Origins]
      /\ pinned \in [Targets -> Versions \cup {0}]
      /\ pinned \in [Targets -> Nat] /\ 0 \notin Versions
      /\ edit \in [Editors -> {NoEdit} \cup Creations \cup Pinnings]
      /\ trail \in [1..LastRevision -> [Targets -> Nat]]
  BY <1>1, PinsAreNumbers DEF ProfileTypes
<1>3. Top \in Nat /\ \A v \in Versions : v \in Nat /\ v # 0
  BY <1>1, <1>2, TopBounds
<1>4. ASSUME NEW e \in Editors, NEW what \in Creations \cup Pinnings, Asks(e, what),
             what.does = "create" => Parses(what.body),
             what.does = "pin" => what.number \in Versions /\ Parses(bodies[what.number])
      PROVE  ProfileInv'
  <2>1. /\ revision = LastRevision
        /\ edit' = [edit EXCEPT ![e] = what]
        /\ UNCHANGED <<revision, settings, system, bodies, origin, pinned, trail>>
    BY <1>4 DEF Asks
  <2>2. Versions' = Versions
    BY <2>1 DEF Versions
  <2>3. ProfileTypes'
    <3>1. edit' \in [Editors -> {NoEdit} \cup Creations \cup Pinnings]
      BY <1>2, <2>1
    <3> QED  BY <1>1, <2>1, <2>2, <3>1 DEF ProfileTypes
  <2>4. ClonesKnown' /\ BodiesMigrated'
    BY <1>1, <2>1, <2>2 DEF ClonesKnown, BodiesMigrated
  <2>5. EditsHold'
    <3> SUFFICES ASSUME NEW x \in Editors
                 PROVE  /\ edit'[x].does = "create" => Parses(edit'[x].body)
                        /\ edit'[x].does = "pin" => edit'[x].number \in Versions'
                                                    /\ Parses(bodies[edit'[x].number])
      BY <2>1 DEF EditsHold, Parses
    <3>1. CASE x = e
      BY <1>2, <1>4, <2>1, <2>2, <3>1
    <3>2. CASE x # e
      <4>1. edit'[x] = edit[x]
        BY <1>2, <2>1, <3>2
      <4> QED  BY <1>1, <2>2, <4>1 DEF EditsHold
    <3> QED  BY <3>1, <3>2
  <2>6. TrailLeads' /\ TrailAhead'
    BY <1>1, <2>1, <2>2 DEF TrailLeads, TrailAhead, PinsAfter, Back, Unpinned
  <2> QED  BY <2>3, <2>4, <2>5, <2>6 DEF ProfileInv
<1>5. ASSUME NEW e \in Editors, NEW body \in Authored, ReadLast(e, body) PROVE ProfileInv'
  <2> DEFINE what == [does |-> "create", number |-> Top + 1, body |-> body]
  <2>1. Parses(body) /\ Asks(e, what)
    BY <1>5 DEF ReadLast
  <2>2. what \in Creations /\ what.does = "create" /\ what.body = body
    BY <1>3, ProfilesAssumed DEF Creations
  <2> HIDE DEF what
  <2> QED  BY <1>4, <2>1, <2>2
<1>6. ASSUME NEW e \in Editors, NEW t \in Targets, NEW v \in Versions, CheckPin(e, t, v)
      PROVE  ProfileInv'
  <2> DEFINE what == [does |-> "pin", target |-> t, number |-> v]
  <2>1. MayPin(v) /\ Asks(e, what)
    BY <1>6 DEF CheckPin
  <2>2. what \in Pinnings /\ what.does = "pin" /\ what.number = v
    BY <1>3 DEF Pinnings
  <2> HIDE DEF what
  <2> QED  BY <1>4, <2>1, <2>2 DEF MayPin
<1>7. ASSUME NEW e \in Editors, NEW t \in Targets, ClearPin(e, t) PROVE ProfileInv'
  <2>1. /\ revision = LastRevision /\ pinned' = [pinned EXCEPT ![t] = 0] /\ trail' = NoTrail
        /\ UNCHANGED <<revision, settings, system, bodies, origin, edit>>
    BY <1>7 DEF ClearPin
  <2>2. Versions' = Versions
    BY <2>1 DEF Versions
  <2>3. \A j \in 1..LastRevision : trail'[j] = Unpinned
    BY <2>1 DEF NoTrail
  <2>4. ProfileTypes'
    <3>1. pinned' \in [Targets -> Versions \cup {0}]
      BY <1>2, <2>1
    <3>2. trail' \in [1..LastRevision -> [Targets -> Nat]]
      BY <2>1 DEF NoTrail, Unpinned
    <3> QED  BY <1>1, <2>1, <2>2, <3>1, <3>2 DEF ProfileTypes
  <2>5. ClonesKnown' /\ EditsHold'
    BY <1>1, <2>1, <2>2 DEF ClonesKnown, EditsHold
  <2>6. BodiesMigrated'
    <3>1. \A s \in Targets : pinned'[s] = 0 \/ pinned'[s] = pinned[s]
      BY <1>2, <2>1
    <3> QED  BY <1>1, <2>1, <2>2, <3>1 DEF BodiesMigrated
  <2>7. TrailLeads' /\ TrailAhead'
    BY <1>0, <2>1, <2>3 DEF TrailLeads, TrailAhead, Unpinned
  <2> QED  BY <2>4, <2>5, <2>6, <2>7 DEF ProfileInv
<1>8. \A e \in Editors : edit[e] # NoEdit => revision = LastRevision
  BY <1>1 DEF EditsHold
<1>9. ASSUME NEW e \in Editors, CreateVersion(e) PROVE ProfileInv'
  <2> DEFINE n == edit[e].number
  <2>1. /\ edit[e].does = "create" /\ pinned' = pinned
        /\ edit' = [edit EXCEPT ![e] = NoEdit]
        /\ trail' = [k \in 1..LastRevision |-> trail[k]]
        /\ UNCHANGED <<revision, settings, system>>
        /\ \/ n \in Versions /\ UNCHANGED <<bodies, origin>>
           \/ /\ n \notin Versions
              /\ bodies' = [v \in Versions \cup {n} |-> IF v = n THEN edit[e].body ELSE bodies[v]]
              /\ origin' = [v \in Versions \cup {n} |-> IF v = n THEN ByHand ELSE origin[v]]
    BY <1>9 DEF CreateVersion, Commits
  <2>2. edit[e] # NoEdit /\ edit[e] \in Creations /\ n \in Nat \ {0} /\ edit[e].body \in Bodies
    <3>1. edit[e] \in {NoEdit} \cup Creations \cup Pinnings
      BY <1>2
    <3>2. edit[e] # NoEdit /\ edit[e] \notin Pinnings
      BY <2>1 DEF NoEdit, Pinnings
    <3>3. edit[e] \in Creations
      BY <3>1, <3>2
    <3> QED  BY <3>2, <3>3 DEF Creations
  <2>3. revision = LastRevision /\ trail' = trail /\ Parses(edit[e].body)
    BY <1>1, <1>2, <1>8, <2>1, <2>2 DEF EditsHold
  <2>4. /\ Versions \in SUBSET Versions' /\ Versions' \in SUBSET (Versions \cup {n})
        /\ bodies' = [v \in Versions' |-> bodies'[v]] /\ origin' = [v \in Versions' |-> origin'[v]]
        /\ \A v \in Versions : bodies'[v] = bodies[v] /\ origin'[v] = origin[v]
        /\ \A v \in Versions' : v \notin Versions =>
             v = n /\ bodies'[v] = edit[e].body /\ origin'[v] = ByHand
    <3>1. CASE n \in Versions /\ UNCHANGED <<bodies, origin>>
      <4>1. Versions' = Versions
        BY <3>1 DEF Versions
      <4>2. bodies = [v \in Versions |-> bodies[v]] /\ origin = [v \in Versions |-> origin[v]]
        BY <1>2
      <4> HIDE DEF n
      <4> QED  BY <3>1, <4>1, <4>2
    <3>2. CASE /\ n \notin Versions
               /\ bodies' = [v \in Versions \cup {n} |-> IF v = n THEN edit[e].body ELSE bodies[v]]
               /\ origin' = [v \in Versions \cup {n} |-> IF v = n THEN ByHand ELSE origin[v]]
      <4>1. Versions' = Versions \cup {n}
        BY <3>2 DEF Versions
      <4> HIDE DEF n
      <4> QED  BY <3>2, <4>1
    <3> QED  BY <2>1, <3>1, <3>2
  <2> HIDE DEF n
  <2>5. ByHand \in Origins /\ ByHand.revision = 0
    BY DEF ByHand, Origins
  <2>6. ProfileTypes'
    <3>1. bodies' \in [Versions' -> Bodies]
      BY <1>2, <2>2, <2>4
    <3>2. origin' \in [Versions' -> Origins]
      BY <1>2, <2>4, <2>5
    <3>3. IsFiniteSet(Versions')
      <4>1. IsFiniteSet(Versions \cup {n})
        BY <1>2, FS_AddElement
      <4> QED  BY <2>4, <4>1, FS_Subset
    <3>4. Versions' \in SUBSET (Nat \ {0})
      BY <1>2, <2>2, <2>4
    <3>5. pinned' \in [Targets -> Versions' \cup {0}]
      <4>1. \A t \in Targets : pinned[t] \in Versions' \cup {0}
        BY <1>2, <2>4
      <4> QED  BY <1>2, <2>1, <4>1
    <3>6. edit' \in [Editors -> {NoEdit} \cup Creations \cup Pinnings]
      BY <1>2, <2>1
    <3> QED  BY <1>1, <2>1, <2>3, <3>1, <3>2, <3>3, <3>4, <3>5, <3>6 DEF ProfileTypes
  <2>7. ClonesKnown'
    <3> SUFFICES ASSUME NEW w \in Versions'
                 PROVE  /\ origin'[w].revision <= revision'
                        /\ origin'[w].revision # 0 =>
                             /\ origin'[w].source \in Versions'
                             /\ origin'[origin'[w].source].revision < origin'[w].revision
                             /\ origin'[w].revision >= 6 => bodies'[origin'[w].source].once
      BY DEF ClonesKnown
    <3>1. CASE w \in Versions
      <4>1. origin'[w] = origin[w] /\ origin[w].revision <= revision'
        BY <1>1, <2>1, <2>4, <3>1 DEF ClonesKnown
      <4>2. origin[w].revision # 0 =>
              /\ origin[w].source \in Versions
              /\ origin[origin[w].source].revision < origin[w].revision
              /\ origin[w].revision >= 6 => bodies[origin[w].source].once
        BY <1>1, <3>1 DEF ClonesKnown
      <4> QED  BY <2>4, <4>1, <4>2
    <3>2. CASE w \notin Versions
      <4>1. origin'[w].revision = 0 /\ revision' = 7
        BY <1>0, <2>1, <2>3, <2>4, <2>5, <3>2
      <4> QED  BY <4>1
    <3> QED  BY <3>1, <3>2
  <2>8. BodiesMigrated'
    <3>1. revision >= 2 /\ revision >= 3 /\ revision >= 5
      BY <1>0, <2>3
    <3>2. ASSUME NEW v \in Versions' PROVE bodies'[v].scale = "percent" /\ bodies'[v].backstage
      <4>1. CASE v \in Versions
        BY <1>1, <2>4, <3>1, <4>1 DEF BodiesMigrated
      <4>2. CASE v \notin Versions
        BY <2>3, <2>4, <4>2 DEF Parses
      <4> QED  BY <4>1, <4>2
    <3>3. ASSUME NEW t \in Targets, pinned'[t] # 0 PROVE bodies'[pinned'[t]].once
      <4>1. pinned[t] \in Versions /\ bodies[pinned[t]].once
        BY <1>1, <1>2, <2>1, <3>1, <3>3 DEF BodiesMigrated
      <4> QED  BY <2>1, <2>4, <4>1
    <3> QED  BY <3>2, <3>3 DEF BodiesMigrated
  <2>9. EditsHold'
    <3> SUFFICES ASSUME NEW x \in Editors
                 PROVE  /\ edit'[x] # NoEdit => revision' = LastRevision
                        /\ edit'[x].does = "create" => Parses(edit'[x].body)
                        /\ edit'[x].does = "pin" => edit'[x].number \in Versions'
                                                    /\ Parses(bodies'[edit'[x].number])
      BY DEF EditsHold, Parses, NoEdit, LastRevision
    <3>1. CASE x = e
      <4>1. edit'[x] = NoEdit /\ NoEdit.does = "nothing"
        BY <1>2, <2>1, <3>1 DEF NoEdit
      <4> QED  BY <4>1
    <3>2. CASE x # e
      <4>1. edit'[x] = edit[x]
        BY <1>2, <2>1, <3>2
      <4> QED  BY <1>1, <2>1, <2>4, <4>1 DEF EditsHold
    <3> QED  BY <3>1, <3>2
  <2>10. TrailLeads' /\ TrailAhead'
    <3>1. ASSUME NEW j \in 1..revision, NEW p PROVE Back(j, p)' = Back(j, p)
      <4>1. j # 0
        BY <1>0, <2>3
      <4> QED  BY <2>4, <2>5, <4>1 DEF Back
    <3>2. ASSUME NEW j \in 1..revision', trail'[j] # Unpinned, NEW t \in Targets
          PROVE  trail'[j][t] = Back(j, PinsAfter(j)[t])'
      <4>1. PinsAfter(j)' = PinsAfter(j) /\ j \in 1..revision
        BY <2>1, <2>3 DEF PinsAfter
      <4>2. trail'[j][t] = Back(j, PinsAfter(j)[t])
        BY <1>1, <2>3, <3>2, <4>1 DEF TrailLeads
      <4>3. Back(j, PinsAfter(j)[t])' = Back(j, PinsAfter(j)[t])
        <5>1. Back(j, PinsAfter(j)[t])' = IF PinsAfter(j)'[t] \in Versions' /\ origin'[PinsAfter(j)'[t]].revision = j
                                      THEN origin'[PinsAfter(j)'[t]].source ELSE PinsAfter(j)'[t]
          BY DEF Back
        <5>2. \A p : (IF p \in Versions' /\ origin'[p].revision = j THEN origin'[p].source ELSE p)
                        = Back(j, p)
          BY <3>1, <4>1 DEF Back
        <5> QED  BY <4>1, <5>1, <5>2
      <4> QED  BY <4>2, <4>3
    <3>3. TrailLeads'
      BY <3>2 DEF TrailLeads, Unpinned
    <3>4. TrailAhead'
      BY <1>0, <2>1, <2>3 DEF TrailAhead
    <3> QED  BY <3>3, <3>4
  <2> QED  BY <2>6, <2>7, <2>8, <2>9, <2>10 DEF ProfileInv
<1>10. ASSUME NEW e \in Editors, SetPin(e) PROVE ProfileInv'
  <2> DEFINE n == edit[e].number
             s == edit[e].target
  <2>1. /\ edit[e].does = "pin" /\ pinned' = [pinned EXCEPT ![s] = n]
        /\ edit' = [edit EXCEPT ![e] = NoEdit]
        /\ trail' = [k \in 1..LastRevision |-> IF pinned' = pinned THEN trail[k] ELSE Unpinned]
        /\ UNCHANGED <<revision, settings, system, bodies, origin>>
    BY <1>10 DEF SetPin, Commits
  <2>2. edit[e] # NoEdit /\ s \in Targets
    <3>1. edit[e] \in {NoEdit} \cup Creations \cup Pinnings
      BY <1>2
    <3>2. edit[e] # NoEdit /\ edit[e] \notin Creations
      BY <2>1 DEF NoEdit, Creations
    <3>3. edit[e] \in Pinnings
      BY <3>1, <3>2
    <3> QED  BY <3>2, <3>3 DEF Pinnings
  <2>3. revision = LastRevision /\ n \in Versions /\ Parses(bodies[n])
    BY <1>1, <1>8, <2>1, <2>2 DEF EditsHold
  <2>4. Versions' = Versions
    BY <2>1 DEF Versions
  <2> HIDE DEF n, s
  <2>5. ProfileTypes'
    <3>1. pinned' \in [Targets -> Versions \cup {0}]
      BY <1>2, <2>1, <2>3
    <3>2. trail' \in [1..LastRevision -> [Targets -> Nat]]
      <4>1. Unpinned \in [Targets -> Nat]
        BY DEF Unpinned
      <4> QED  BY <1>2, <2>1, <4>1
    <3>3. edit' \in [Editors -> {NoEdit} \cup Creations \cup Pinnings]
      BY <1>2, <2>1
    <3> QED  BY <1>1, <2>1, <2>4, <3>1, <3>2, <3>3 DEF ProfileTypes
  <2>6. ClonesKnown'
    BY <1>1, <2>1, <2>4 DEF ClonesKnown
  <2>7. BodiesMigrated'
    <3>1. \A t \in Targets : pinned'[t] = n \/ pinned'[t] = pinned[t]
      BY <1>2, <2>1
    <3> QED  BY <1>1, <2>1, <2>3, <2>4, <3>1 DEF BodiesMigrated, Parses
  <2>8. EditsHold'
    <3> SUFFICES ASSUME NEW x \in Editors
                 PROVE  /\ edit'[x] # NoEdit => revision' = LastRevision
                        /\ edit'[x].does = "create" => Parses(edit'[x].body)
                        /\ edit'[x].does = "pin" => edit'[x].number \in Versions'
                                                    /\ Parses(bodies'[edit'[x].number])
      BY DEF EditsHold, Parses, NoEdit, LastRevision
    <3>1. CASE x = e
      <4>1. edit'[x] = NoEdit /\ NoEdit.does = "nothing"
        BY <1>2, <2>1, <3>1 DEF NoEdit
      <4> QED  BY <4>1
    <3>2. CASE x # e
      <4>1. edit'[x] = edit[x]
        BY <1>2, <2>1, <3>2
      <4> QED  BY <1>1, <2>1, <2>4, <4>1 DEF EditsHold
    <3> QED  BY <3>1, <3>2
  <2>9. TrailLeads' /\ TrailAhead'
    <3>1. CASE pinned' = pinned
      <4>1. trail' = trail
        BY <1>2, <2>1, <3>1
      <4>2. TrailAhead'
        BY <1>0, <2>1, <2>3 DEF TrailAhead
      <4>3. revision' = revision /\ origin' = origin
        BY <2>1
      <4>4. TrailLeads' <=> TrailLeads
        BY <2>4, <3>1, <4>1, <4>3 DEF TrailLeads, PinsAfter, Back, Unpinned
      <4> QED  BY <1>1, <4>2, <4>4
    <3>2. CASE pinned' # pinned
      <4>1. \A j \in 1..LastRevision : trail'[j] = Unpinned
        BY <2>1, <3>2
      <4> QED  BY <1>0, <2>1, <2>3, <4>1 DEF TrailLeads, TrailAhead, Unpinned
    <3> QED  BY <3>1, <3>2
  <2> QED  BY <2>5, <2>6, <2>7, <2>8, <2>9 DEF ProfileInv
<1> QED  BY <1>5, <1>6, <1>7, <1>9, <1>10

LEMMA ProfilesStart ==
  ASSUME ProfilesInit
  PROVE  ProfileInv
<1>0. LastRevision = 7 /\ Unpinned \in [Targets -> Nat] /\ \A t \in Targets : Unpinned[t] = 0
  BY DEF LastRevision, Unpinned
<1>1. /\ edit = [e \in Editors |-> NoEdit] /\ trail = NoTrail
      /\ settings \in {"absent", "default", "own"}
  BY DEF ProfilesInit
<1>2. trail \in [1..LastRevision -> [Targets -> Nat]]
      /\ \A j \in 1..LastRevision : trail[j] = Unpinned
  BY <1>0, <1>1 DEF NoTrail
<1>3. edit \in [Editors -> {NoEdit} \cup Creations \cup Pinnings]
  BY <1>1
<1>4. ASSUME NEW n \in {0, 2}, Versions = 1..n,
             revision \in {0, 1}, system \in [Targets -> Legacy \cup {0}],
             bodies \in [Versions -> Bodies], origin \in [Versions -> {ByHand}],
             pinned \in [Targets -> Versions \cup {0}]
      PROVE  ProfileInv
  <2>1. ByHand \in Origins /\ ByHand.revision = 0
    BY DEF ByHand, Origins
  <2>2. \A w \in Versions : origin[w] = ByHand /\ w \in Nat /\ w # 0
    BY <1>4
  <2>3. ProfileTypes
    <3>1. Versions \in SUBSET (Nat \ {0})
      BY <2>2
    <3>2. origin \in [Versions -> Origins]
      BY <1>4, <2>1
    <3>3. revision \in 0..LastRevision
      BY <1>0, <1>4
    <3>4. IsFiniteSet(Versions)
      <4>1. IsFiniteSet(1..n)
        BY n \in Int, FS_Interval
      <4> QED  BY <1>4, <4>1
    <3> QED  BY <1>1, <1>2, <1>3, <1>4, <3>1, <3>2, <3>3, <3>4 DEF ProfileTypes
  <2>4. ClonesKnown
    BY <1>4, <2>1, <2>2 DEF ClonesKnown
  <2>5. BodiesMigrated
    BY <1>4 DEF BodiesMigrated
  <2>6. EditsHold
    <3>1. \A e \in Editors : edit[e] = NoEdit /\ NoEdit.does = "nothing"
      BY <1>1 DEF NoEdit
    <3> QED  BY <3>1 DEF EditsHold
  <2>7. TrailLeads /\ TrailAhead
    <3>1. \A j \in 1..revision : j \in 1..LastRevision
      BY <1>0, <1>4
    <3>2. revision + 1 \in 1..LastRevision
      BY <1>0, <1>4
    <3> QED  BY <1>2, <3>1, <3>2 DEF TrailLeads, TrailAhead
  <2> QED  BY <2>3, <2>4, <2>5, <2>6, <2>7 DEF ProfileInv
<1>5. CASE /\ revision = 0
           /\ system \in [Targets -> Legacy \cup {0}]
           /\ bodies = << >> /\ origin = << >> /\ pinned = Unpinned
  <2>1. Versions = 1..0
    BY <1>5 DEF Versions
  <2>3. bodies \in [Versions -> Bodies] /\ origin \in [Versions -> {ByHand}]
    BY <1>5, <2>1
  <2>4. pinned \in [Targets -> Versions \cup {0}]
    BY <1>5 DEF Unpinned
  <2> QED  BY <1>4, <1>5, <2>1, <2>3, <2>4
<1>6. CASE /\ revision = 1 /\ settings = "absent"
           /\ system = Unpinned
           /\ bodies = <<FirstEdition, FirstEdition>>
           /\ origin = <<ByHand, ByHand>>
           /\ pinned \in [Targets -> {0, 2}]
  <2>1. Versions = 1..2
    BY <1>6 DEF Versions
  <2>3. FirstEdition \in Bodies
    BY DEF FirstEdition, Converted, Bodies
  <2>4. /\ bodies \in [Versions -> Bodies]
        /\ origin \in [Versions -> {ByHand}]
    BY <1>6, <2>1, <2>3
  <2>5. pinned \in [Targets -> Versions \cup {0}]
    <3>1. 2 \in Versions
      BY <2>1
    <3> QED  BY <1>6, <3>1
  <2>6. system \in [Targets -> Legacy \cup {0}]
    BY <1>6 DEF Unpinned
  <2> QED  BY <1>4, <1>6, <2>1, <2>4, <2>5, <2>6
<1> QED  BY <1>5, <1>6 DEF ProfilesInit

LEMMA ProfilesStep ==
  ASSUME ProfileInv, [ProfilesNext]_profileVars
  PROVE  ProfileInv'
<1>1. CASE Migrate
  BY <1>1, PersistStep, FirstRevisionsStep, CloneStep DEF Migrate
<1>2. CASE Undo
  BY <1>2, FirstRevisionsStep, UndoCloneStep DEF Undo
<1>3. CASE \E e \in Editors :
             \/ \E body \in Authored : ReadLast(e, body)
             \/ \E t \in Targets, v \in Versions : CheckPin(e, t, v)
             \/ \E t \in Targets : ClearPin(e, t)
             \/ CreateVersion(e)
             \/ SetPin(e)
  BY <1>3, RequestsStep
<1>4. CASE UNCHANGED profileVars
  <2>1. UNCHANGED <<revision, settings, system, bodies, origin, pinned, edit, trail>>
    BY <1>4 DEF profileVars
  <2>2. Versions' = Versions
    BY <2>1 DEF Versions
  <2>3. ProfileTypes /\ ClonesKnown /\ BodiesMigrated /\ EditsHold /\ TrailLeads /\ TrailAhead
    BY DEF ProfileInv
  <2>4. ProfileTypes'
    BY <2>1, <2>2, <2>3 DEF ProfileTypes
  <2>5. ClonesKnown' /\ BodiesMigrated'
    BY <2>1, <2>2, <2>3 DEF ClonesKnown, BodiesMigrated
  <2>6. EditsHold'
    BY <2>1, <2>2, <2>3 DEF EditsHold, Parses, NoEdit, LastRevision
  <2>7. TrailLeads' /\ TrailAhead'
    BY <2>1, <2>2, <2>3 DEF TrailLeads, TrailAhead, PinsAfter, Back, Unpinned, LastRevision
  <2> QED  BY <2>4, <2>5, <2>6, <2>7 DEF ProfileInv
<1> QED  BY <1>1, <1>2, <1>3, <1>4 DEF ProfilesNext

\* At the head every pin is of a version that parses.
LEMMA PinsParse ==
  ASSUME ProfileInv, revision = LastRevision, NEW t \in Targets, pinned[t] # 0
  PROVE  PinHolds(t)
<1>1. revision >= 2 /\ revision >= 3 /\ revision >= 5
  BY DEF LastRevision
<1>2. pinned[t] \in Versions
  BY DEF ProfileInv, ProfileTypes
<1> QED  BY <1>1, <1>2 DEF ProfileInv, BodiesMigrated, PinHolds, Parses

LEMMA ProfilesAreSound ==
  ASSUME ProfileInv
  PROVE  ProfilesTypeOK /\ ProfilesSound
<1>1. ProfileTypes /\ TrailAhead
  BY DEF ProfileInv
<1>2. ProfilesTypeOK
  <2>1. DOMAIN origin = Versions
    BY <1>1 DEF ProfileTypes
  <2>2. pinned \in [Targets -> Nat]
    BY <1>1, PinsAreNumbers
  <2> QED  BY <1>1, <2>1, <2>2 DEF ProfileTypes, ProfilesTypeOK
<1>3. \A t \in Targets : pinned[t] # 0 => pinned[t] \in Versions
  BY <1>1 DEF ProfileTypes
<1>4. ASSUME revision = LastRevision PROVE Resolution # "error"
  <2> DEFINE found == {i \in DOMAIN Order : Order[i] \in Targets /\ pinned[Order[i]] # 0}
  <2>1. CASE found = {}
    BY <2>1 DEF Resolution
  <2>2. CASE found # {}
    <3>1. found \in SUBSET Nat
      BY DEF Order
    <3>2. \E n \in found : \A m \in found : n <= m
      <4> HIDE DEF found
      <4> QED  BY <2>2, <3>1, LeastNat
    <3>4. Min(found) \in found
      <4> HIDE DEF found
      <4> QED  BY <3>2 DEF Min
    <3>5. PinHolds(Order[Min(found)])
      <4>1. Order[Min(found)] \in Targets /\ pinned[Order[Min(found)]] # 0
        BY <3>4
      <4> QED  BY <1>4, <4>1, PinsParse
    <3> HIDE DEF found
    <3>6. Resolution = "found"
      BY <2>2, <3>5 DEF Resolution, found
    <3> QED  BY <3>6
  <2> QED  BY <2>1, <2>2
<1>5. PinsResolve
  BY <1>3, <1>4, PinsParse DEF PinsResolve
<1>6. PinsReturn
  BY <1>1 DEF TrailAhead, PinsReturn
<1> QED  BY <1>2, <1>5, <1>6 DEF ProfilesSound

\* No pin ever names a version that is gone, the pins the application sees are documents
\* that it takes, and a revision undone takes the pins back to where they stood: whatever
\* database the revisions started from, for any targets, bodies and administrators.
THEOREM ProfilesStaySound == ProfilesSpec => [](ProfilesTypeOK /\ ProfilesSound)
<1>1. ProfileInv => ProfilesTypeOK /\ ProfilesSound
  BY ProfilesAreSound
<1> QED  BY <1>1, ProfilesStart, ProfilesStep, PTL DEF ProfilesSpec

-----------------------------------------------------------------------------
(* Turns: the inductive invariant *)

CallVerdicts == {"ok", "failed", "crashed", "rejected", "looping"}
Messages ==
  [role : {"assistant", "user"}, asks : Nat]
    \cup [role : {"tool"}, asks : {0}, verdict : CallVerdicts]
Rows == [call : Requests, ok : BOOLEAN, turn : Nat]
Texts == [kind : {"post", "comment"}, text : STRING]

LoopTypes ==
  /\ phase \in {"top", "asking", "acting", "completed", "left", "failed"}
  /\ actions \in 0..MaxActions /\ turnsTaken \in Nat /\ strikes \in 0..2 /\ nudged \in BOOLEAN
  /\ toDo \in Seq(Requests) /\ transcript \in Seq(Messages) /\ callRows \in Seq(Rows)
  /\ own \in Seq(Texts) /\ spent \in [{"post", "comment"} -> Nat] /\ HadWritten \in Nat

RowsNumbered ==
  /\ phase = "acting" => turnsTaken >= 1
  /\ \A i \in DOMAIN callRows : callRows[i].turn \in 1..turnsTaken

\* The calls of the answer at i have their results behind it, and nothing else has.
TurnIsAnswered(i) ==
  /\ \A k \in 1..transcript[i].asks : i + k \in DOMAIN transcript /\ transcript[i + k].role = "tool"
  /\ i + transcript[i].asks + 1 \in DOMAIN transcript => transcript[i + transcript[i].asks + 1].role # "tool"

\* Those of the latest answer, at p, are being carried out.
Answering(p) ==
  /\ transcript[p].role = "assistant" /\ transcript[p].asks = Len(transcript) - p + Len(toDo)
  /\ \A i \in p + 1..Len(transcript) : transcript[i].role = "tool"
  /\ \A i \in 1..p - 1 : transcript[i].role = "assistant" => TurnIsAnswered(i)

TurnsAnswered ==
  /\ Conversation
  /\ phase = "acting" => \E p \in DOMAIN transcript : Answering(p)

\* One turn may pass without a call, and one may have begun.
Reminders == IF nudged THEN 1 ELSE 0
TurnsCounted ==
  /\ phase \in {"top", "asking"} => turnsTaken <= actions + Reminders
  /\ phase = "acting" => turnsTaken <= actions + Reminders + (IF toDo = << >> THEN 0 ELSE 1)
  /\ turnsTaken <= actions + 2

\* As long as the visit goes on, a strike stands for the latest result.
StrikesCounted ==
  /\ CorrectionsEnd
  /\ phase # "completed" =>
       /\ strikes \in 0..1
       /\ strikes = 0 => \A i \in Results : (\A k \in Results : k <= i) => transcript[i].verdict # "rejected"

LoopInv ==
  LoopTypes /\ RowsNumbered /\ TurnsAnswered /\ TurnsCounted /\ StrikesCounted /\ NoThirdRepeat /\ NoEcho

LEMMA LoopAssumed ==
  /\ Requests \in SUBSET [name : STRING, text : STRING]
  /\ WroteBefore \in SUBSET Seq(Texts)
  /\ MaxPerTurn \in Nat /\ MaxActions \in Nat /\ Repeats \in Nat /\ OwnLimit \in Nat
BY VisitLoopAssumption DEF Texts

\* What one more element does to a sequence.
LEMMA Appended ==
  ASSUME NEW X, NEW s \in Seq(X), NEW x \in X
  PROVE  /\ Append(s, x) \in Seq(X) /\ Len(Append(s, x)) = Len(s) + 1 /\ Len(s) \in Nat
         /\ DOMAIN s = 1..Len(s) /\ DOMAIN Append(s, x) = 1..Len(s) + 1
         /\ \A i \in 1..Len(s) : Append(s, x)[i] = s[i]
         /\ Append(s, x)[Len(s) + 1] = x
OBVIOUS

-----------------------------------------------------------------------------
(* Turns: the steps that only end or go on *)

LEMMA LoopStart ==
  ASSUME LoopInit
  PROVE  LoopInv
<1>1. /\ phase = "top" /\ turnsTaken = 0 /\ actions = 0 /\ nudged = FALSE /\ strikes = 0
      /\ toDo = << >> /\ transcript = << >> /\ callRows = << >>
      /\ own \in Seq(Texts)
      /\ spent = [b \in {"post", "comment"} |-> 0]
  BY LoopAssumed DEF LoopInit
<1>2. HadWritten = Len(own) /\ Len(own) \in Nat /\ DOMAIN own = 1..Len(own)
  BY <1>1 DEF HadWritten
<1>3. DOMAIN transcript = {} /\ DOMAIN callRows = {}
  BY <1>1
<1>4. LoopTypes
  <2>1. toDo \in Seq(Requests) /\ transcript \in Seq(Messages) /\ callRows \in Seq(Rows)
    BY <1>1
  <2>2. actions \in 0..MaxActions /\ turnsTaken \in Nat /\ strikes \in 0..2 /\ nudged \in BOOLEAN
    <3>1. MaxActions \in Nat
      BY LoopAssumed
    <3>2. nudged \in BOOLEAN
      BY <1>1, Zenon
    <3>3. actions = 0 /\ turnsTaken = 0 /\ strikes = 0
      BY <1>1
    <3> QED  BY <3>1, <3>2, <3>3
  <2>3. spent \in [{"post", "comment"} -> Nat]
    BY <1>1
  <2>4. phase \in {"top", "asking", "acting", "completed", "left", "failed"}
    BY <1>1
  <2> QED  BY <1>1, <1>2, <2>1, <2>2, <2>3, <2>4 DEF LoopTypes
<1>5. RowsNumbered /\ NoThirdRepeat
  BY <1>1, <1>3 DEF RowsNumbered, NoThirdRepeat
<1>6. TurnsAnswered
  BY <1>1, <1>3 DEF TurnsAnswered, Conversation
<1>7. TurnsCounted
  BY <1>1 DEF TurnsCounted, Reminders
<1>8. StrikesCounted
  BY <1>1, <1>3 DEF StrikesCounted, CorrectionsEnd, Results
<1>9. NoEcho
  <2>1. HadWritten + 1..Len(own) = {}
    BY <1>2
  <2> QED  BY <2>1 DEF NoEcho
<1> QED  BY <1>4, <1>5, <1>6, <1>7, <1>8, <1>9 DEF LoopInv

LEMMA LoopMovesOn ==
  ASSUME LoopInv,
         UNCHANGED <<turnsTaken, actions, nudged, strikes, transcript, callRows, own, spent>>,
         \/ toDo' = << >> /\ phase' \in {"completed", "left", "failed"} /\ phase # "completed"
         \/ toDo' = toDo /\ phase' = phase
         \/ toDo' = toDo /\ phase = "top" /\ phase' = "asking"
         \/ toDo = << >> /\ toDo' = << >> /\ phase = "acting" /\ phase' = "top"
  PROVE  LoopInv'
<1>1. LoopTypes /\ RowsNumbered /\ TurnsAnswered /\ TurnsCounted /\ StrikesCounted /\ NoThirdRepeat /\ NoEcho
  BY DEF LoopInv
<1>2. Results' = Results /\ HadWritten' = HadWritten /\ \A i : TurnIsAnswered(i)' <=> TurnIsAnswered(i)
  BY DEF Results, HadWritten, TurnIsAnswered
<1>3. LoopTypes'
  <2>1. toDo' \in Seq(Requests)
    <3>1. toDo' = << >> \/ toDo' = toDo
      OBVIOUS
    <3>2. << >> \in Seq(Requests)
      OBVIOUS
    <3>3. toDo \in Seq(Requests)
      BY <1>1 DEF LoopTypes
    <3> QED  BY <3>1, <3>2, <3>3
  <2>2. phase' \in {"top", "asking", "acting", "completed", "left", "failed"}
    BY <1>1 DEF LoopTypes
  <2>3. actions' \in 0..MaxActions /\ turnsTaken' \in Nat /\ strikes' \in 0..2 /\ nudged' \in BOOLEAN
        /\ transcript' \in Seq(Messages) /\ callRows' \in Seq(Rows)
        /\ own' \in Seq(Texts) /\ spent' \in [{"post", "comment"} -> Nat] /\ HadWritten' \in Nat
    BY <1>1, <1>2 DEF LoopTypes
  <2> QED  BY <2>1, <2>2, <2>3 DEF LoopTypes
<1>4. RowsNumbered' /\ NoThirdRepeat' /\ NoEcho'
  <2>1. RowsNumbered'
    BY <1>1 DEF RowsNumbered
  <2>2. NoThirdRepeat' <=> NoThirdRepeat
    BY DEF NoThirdRepeat
  <2>3. NoEcho' <=> NoEcho
    BY <1>2 DEF NoEcho
  <2> QED  BY <1>1, <2>1, <2>2, <2>3
<1>5. TurnsCounted'
  <2>1. turnsTaken \in Nat /\ actions \in Nat /\ Reminders \in {0, 1}
    <3>1. MaxActions \in Nat
      BY LoopAssumed
    <3> QED  BY <1>1, <3>1 DEF LoopTypes, Reminders
  <2>2. Reminders' = Reminders
    BY DEF Reminders
  <2> QED  BY <1>1, <2>1, <2>2 DEF TurnsCounted
<1>6. StrikesCounted'
  <2>1. CorrectionsEnd'
    <3>1. CASE phase' = phase
      <4>1. CorrectionsEnd' <=> CorrectionsEnd
        BY <1>2, <3>1 DEF CorrectionsEnd
      <4> QED  BY <1>1, <4>1 DEF StrikesCounted
    <3>2. CASE phase # "completed"
      BY <1>1, <1>2, <3>2 DEF StrikesCounted, CorrectionsEnd
    <3> QED  BY <3>1, <3>2
  <2>2. phase' # "completed" => phase # "completed"
    OBVIOUS
  <2> QED  BY <1>1, <1>2, <2>1, <2>2 DEF StrikesCounted
<1>7. TurnsAnswered'
  <2>1. CASE phase = "acting" /\ phase' = "top" /\ toDo = << >>
    <3>1. PICK p \in DOMAIN transcript : Answering(p)
      BY <1>1, <2>1 DEF TurnsAnswered
    <3>2. DOMAIN transcript = 1..Len(transcript) /\ Len(transcript) \in Nat
      BY <1>1 DEF LoopTypes
    <3>3. transcript[p].asks = Len(transcript) - p
      BY <2>1, <3>1, <3>2 DEF Answering
    <3>4. ASSUME NEW i \in DOMAIN transcript, transcript[i].role = "assistant" PROVE TurnIsAnswered(i)
      <4>1. CASE i < p
        <5>1. i \in 1..p - 1
          BY <3>2, <4>1
        <5> QED  BY <3>1, <3>4, <5>1 DEF Answering
      <4>2. CASE i = p
        <5>1. \A k \in 1..transcript[p].asks : p + k \in p + 1..Len(transcript)
          BY <3>2, <3>3
        <5>2. p + transcript[p].asks + 1 \notin DOMAIN transcript
          BY <3>2, <3>3
        <5>3. \A k \in p + 1..Len(transcript) : k \in DOMAIN transcript
          BY <3>2
        <5> QED  BY <3>1, <4>2, <5>1, <5>2, <5>3 DEF Answering, TurnIsAnswered
      <4>3. CASE i > p
        <5>1. i \in p + 1..Len(transcript)
          BY <3>2, <4>3
        <5> QED  BY <3>1, <3>4, <5>1 DEF Answering
      <4> QED  BY <3>2, <4>1, <4>2, <4>3
    <3> QED  BY <1>2, <2>1, <3>4 DEF TurnsAnswered, Conversation, TurnIsAnswered
  <2>2. CASE phase' \in {"completed", "left", "failed"}
    BY <2>2 DEF TurnsAnswered, Conversation
  <2>3. CASE toDo' = toDo /\ (phase' = phase \/ (phase = "top" /\ phase' = "asking"))
    <3>1. Conversation'
      BY <1>1, <2>3 DEF TurnsAnswered, Conversation
    <3>2. \A p : Answering(p)' <=> Answering(p)
      BY <1>2, <2>3 DEF Answering
    <3>3. phase' = "acting" => phase = "acting"
      BY <2>3
    <3> QED  BY <1>1, <3>1, <3>2, <3>3 DEF TurnsAnswered
  <2> QED  BY <2>1, <2>2, <2>3
<1> QED  BY <1>3, <1>4, <1>5, <1>6, <1>7 DEF LoopInv

-----------------------------------------------------------------------------
(* Turns: an answer *)

\* What was answered stays answered behind what is not a result of it.
LEMMA AnsweredLonger ==
  ASSUME transcript \in Seq(Messages), transcript' \in Seq(Messages), Len(transcript') >= Len(transcript),
         \A k \in 1..Len(transcript) : transcript'[k] = transcript[k],
         NEW i \in 1..Len(transcript), TurnIsAnswered(i),
         \/ i + transcript[i].asks + 1 <= Len(transcript)
         \/ Len(transcript) + 1 \in DOMAIN transcript' /\ transcript'[Len(transcript) + 1].role # "tool"
  PROVE  TurnIsAnswered(i)'
<1> DEFINE n == transcript[i].asks
           l == Len(transcript)
<1>1. /\ l \in Nat /\ Len(transcript') \in Nat
      /\ DOMAIN transcript = 1..l /\ DOMAIN transcript' = 1..Len(transcript')
  OBVIOUS
<1>2. n \in Nat /\ transcript'[i] = transcript[i]
  <2>1. transcript[i] \in Messages
    BY <1>1
  <2> QED  BY <2>1 DEF Messages
<1>3. ASSUME NEW k \in 1..n
      PROVE  i + k \in DOMAIN transcript' /\ transcript'[i + k].role = "tool"
  <2>1. i + k \in 1..l /\ transcript[i + k].role = "tool"
    BY <1>1 DEF TurnIsAnswered
  <2>2. i + k \in 1..Len(transcript')
    BY <1>1, <2>1
  <2> QED  BY <1>1, <2>1, <2>2
<1>4. i + n <= l
  <2>1. CASE n = 0
    BY <1>1, <2>1
  <2>2. CASE n # 0
    <3>1. n \in 1..n
      BY <1>2, <2>2
    <3>2. i + n \in 1..l
      BY <1>1, <3>1 DEF TurnIsAnswered
    <3> QED  BY <3>2
  <2> QED  BY <2>1, <2>2
<1>5. ASSUME i + n + 1 \in DOMAIN transcript' PROVE transcript'[i + n + 1].role # "tool"
  <2>1. CASE i + n + 1 <= l
    <3>1. i + n + 1 \in 1..l
      BY <1>1, <1>2, <2>1
    <3> QED  BY <1>1, <3>1 DEF TurnIsAnswered
  <2>2. CASE i + n + 1 = l + 1
    BY <2>2
  <2> QED  BY <1>1, <1>2, <1>4, <2>1, <2>2
<1> QED  BY <1>2, <1>3, <1>5 DEF TurnIsAnswered

\* An earlier answer and its results stand before a later one.
LEMMA AnsweredBefore ==
  ASSUME transcript \in Seq(Messages), NEW p \in DOMAIN transcript, transcript[p].role = "assistant",
         NEW i \in 1..p - 1, TurnIsAnswered(i)
  PROVE  i + transcript[i].asks + 1 <= p /\ i \in DOMAIN transcript
<1>1. /\ Len(transcript) \in Nat /\ DOMAIN transcript = 1..Len(transcript)
      /\ i \in DOMAIN transcript /\ transcript[i] \in Messages /\ p \in Nat /\ i \in Nat
  OBVIOUS
<1>2. transcript[i].asks \in Nat
  BY <1>1 DEF Messages
<1>3. ~ (p - i \in 1..transcript[i].asks)
  <2>1. i + (p - i) = p
    BY <1>1
  <2> QED  BY <2>1 DEF TurnIsAnswered
<1> QED  BY <1>1, <1>2, <1>3

\* Messages that are no results leave the count of strikes as it is.
LEMMA NoResults ==
  ASSUME transcript \in Seq(Messages), transcript' \in Seq(Messages), Len(transcript') >= Len(transcript),
         \A k \in 1..Len(transcript) : transcript'[k] = transcript[k],
         \A k \in Len(transcript) + 1..Len(transcript') : transcript'[k].role # "tool",
         StrikesCounted, phase # "completed", strikes' = strikes
  PROVE  StrikesCounted'
<1>1. /\ Len(transcript) \in Nat /\ Len(transcript') \in Nat
      /\ DOMAIN transcript = 1..Len(transcript) /\ DOMAIN transcript' = 1..Len(transcript')
  OBVIOUS
<1>2. Results' = Results /\ \A i \in Results : transcript'[i] = transcript[i]
  <2>1. \A i \in DOMAIN transcript' : i \in DOMAIN transcript \/ transcript'[i].role # "tool"
    BY <1>1
  <2>2. \A i \in DOMAIN transcript : i \in DOMAIN transcript' /\ transcript'[i] = transcript[i]
    BY <1>1
  <2> QED  BY <2>1, <2>2 DEF Results
<1> QED  BY <1>2 DEF StrikesCounted, CorrectionsEnd

LEMMA ModelAnswersStep ==
  ASSUME LoopInv, NEW asked \in Answers, ModelAnswers(asked)
  PROVE  LoopInv'
<1>0. phase = "asking" /\ UNCHANGED <<actions, strikes, callRows, own, spent>>
  BY DEF ModelAnswers
<1>1. LoopTypes /\ RowsNumbered /\ TurnsAnswered /\ TurnsCounted /\ StrikesCounted /\ NoThirdRepeat /\ NoEcho
  BY DEF LoopInv
<1>2. CASE ~ owned
  <2>1. /\ toDo' = << >> /\ phase' = "left"
        /\ UNCHANGED <<turnsTaken, actions, nudged, strikes, transcript, callRows, own, spent>>
    BY <1>2 DEF ModelAnswers, Ends
  <2> QED  BY <1>0, <2>1, LoopMovesOn
<1>3. CASE owned
  <2> DEFINE message == [role |-> "assistant", asks |-> Len(asked)]
             reminder == [role |-> "user", asks |-> 0]
             said == Append(transcript, message)
             over == expired \/ (asked = << >> /\ nudged)
             l == Len(transcript)
  <2>1. /\ turnsTaken' = turnsTaken + 1
        /\ transcript' = IF over \/ asked # << >> THEN said ELSE Append(said, reminder)
        /\ nudged' = (nudged \/ (asked = << >> /\ ~ expired))
        /\ phase' = IF over THEN "completed" ELSE IF asked = << >> THEN "top" ELSE "acting"
        /\ toDo' = IF over THEN << >> ELSE asked
    BY <1>3 DEF ModelAnswers
  <2>2. asked \in Seq(Requests) /\ Len(asked) \in Nat
    <3>1. PICK n \in 0..MaxPerTurn : asked \in [1..n -> Requests]
      BY DEF Answers
    <3>2. n \in Nat
      BY <3>1, LoopAssumed
    <3>3. asked \in Seq(Requests)
      BY <3>1, <3>2
    <3> QED  BY <3>3
  <2>3. message \in Messages /\ reminder \in Messages /\ message.role = "assistant"
        /\ message.asks = Len(asked) /\ reminder.role = "user" /\ reminder.asks = 0
    BY <2>2 DEF Messages
  <2>4. transcript \in Seq(Messages)
    BY <1>1 DEF LoopTypes
  <2> HIDE DEF message, reminder
  <2>5. /\ said \in Seq(Messages) /\ Len(said) = l + 1 /\ l \in Nat
        /\ DOMAIN transcript = 1..l /\ DOMAIN said = 1..l + 1
        /\ \A i \in 1..l : said[i] = transcript[i]
        /\ said[l + 1] = message
    BY <2>3, <2>4, Appended
  <2>6. /\ Append(said, reminder) \in Seq(Messages) /\ Len(Append(said, reminder)) = l + 2
        /\ DOMAIN Append(said, reminder) = 1..l + 2
        /\ \A i \in 1..l : Append(said, reminder)[i] = transcript[i]
        /\ Append(said, reminder)[l + 1] = message /\ Append(said, reminder)[l + 2] = reminder
    <3> HIDE DEF said
    <3>1. /\ Append(said, reminder) \in Seq(Messages) /\ Len(Append(said, reminder)) = Len(said) + 1
          /\ DOMAIN Append(said, reminder) = 1..Len(said) + 1
          /\ \A i \in 1..Len(said) : Append(said, reminder)[i] = said[i]
          /\ Append(said, reminder)[Len(said) + 1] = reminder
      BY <2>3, <2>5, Appended
    <3> QED  BY <2>5, <3>1
  <2> HIDE DEF said
  <2>7. /\ transcript' \in Seq(Messages) /\ DOMAIN transcript' = 1..Len(transcript')
        /\ \A i \in 1..l : transcript'[i] = transcript[i]
        /\ transcript'[l + 1] = message /\ l + 1 \in DOMAIN transcript' /\ Len(transcript') >= l
        /\ \A i \in l + 1..Len(transcript') : transcript'[i].role # "tool"
    <3>1. CASE transcript' = said
      BY <2>3, <2>5, <3>1
    <3>2. CASE transcript' = Append(said, reminder)
      <4>1. \A i \in l + 1..l + 2 : i = l + 1 \/ i = l + 2
        BY <2>5
      <4> QED  BY <2>3, <2>5, <2>6, <3>2, <4>1
    <3> QED  BY <2>1, <3>1, <3>2
  <2>8. \A i \in 1..l : transcript[i].role = "assistant" => TurnIsAnswered(i)'
    <3> SUFFICES ASSUME NEW i \in 1..l, transcript[i].role = "assistant" PROVE TurnIsAnswered(i)'
      OBVIOUS
    <3>1. TurnIsAnswered(i)
      BY <1>0, <1>1, <2>5 DEF TurnsAnswered, Conversation, TurnIsAnswered
    <3>2. transcript'[l + 1].role # "tool"
      BY <2>3, <2>7
    <3> QED  BY <2>4, <2>7, <3>1, <3>2, AnsweredLonger
  <2>9. LoopTypes'
    <3>1. toDo' \in Seq(Requests)
      BY <2>1, <2>2
    <3>2. nudged' \in BOOLEAN
      BY <2>1, Zenon
    <3>3. phase' \in {"top", "asking", "acting", "completed", "left", "failed"}
      BY <2>1
    <3>4. turnsTaken' \in Nat
      BY <1>1, <2>1 DEF LoopTypes
    <3>5. HadWritten' = HadWritten
      BY <1>0 DEF HadWritten
    <3>6. actions' \in 0..MaxActions /\ strikes' \in 0..2 /\ callRows' \in Seq(Rows)
          /\ own' \in Seq(Texts) /\ spent' \in [{"post", "comment"} -> Nat] /\ HadWritten' \in Nat
      BY <1>0, <1>1, <3>5 DEF LoopTypes
    <3> QED  BY <2>7, <3>1, <3>2, <3>3, <3>4, <3>6 DEF LoopTypes
  <2>10. RowsNumbered' /\ NoThirdRepeat' /\ NoEcho'
    <3>0. turnsTaken \in Nat
      BY <1>1 DEF LoopTypes
    <3>1. RowsNumbered'
      BY <1>0, <1>1, <2>1, <3>0 DEF RowsNumbered
    <3>2. NoThirdRepeat' <=> NoThirdRepeat
      BY <1>0 DEF NoThirdRepeat
    <3>3. NoEcho' <=> NoEcho
      BY <1>0 DEF NoEcho, HadWritten
    <3> QED  BY <1>1, <3>1, <3>2, <3>3
  <2>11. StrikesCounted'
    BY <1>0, <1>1, <2>4, <2>7, NoResults
  <2>12. TurnsCounted'
    <3>1. turnsTaken \in Nat /\ actions \in Nat
      <4>1. MaxActions \in Nat
        BY LoopAssumed
      <4> QED  BY <1>1, <4>1 DEF LoopTypes
    <3>2. turnsTaken <= actions + Reminders
      BY <1>0, <1>1 DEF TurnsCounted
    <3>3. Reminders \in {0, 1} /\ Reminders' \in {0, 1} /\ Reminders <= Reminders'
      <4>1. nudged => nudged'
        BY <2>1, Zenon
      <4> QED  BY <4>1 DEF Reminders
    <3>4. phase' = "top" => Reminders = 0 /\ Reminders' = 1
      BY <2>1 DEF Reminders
    <3>5. phase' = "acting" => toDo' # << >>
      BY <2>1
    <3>6. phase' \in {"top", "acting", "completed"}
      BY <2>1
    <3>7. turnsTaken' = turnsTaken + 1 /\ actions' = actions
      BY <1>0, <2>1
    <3> DEFINE r == Reminders
               s == Reminders'
    <3>8. r \in {0, 1} /\ s \in {0, 1} /\ r <= s /\ (phase' = "top" => r = 0 /\ s = 1) /\ turnsTaken <= actions + r
      BY <3>2, <3>3, <3>4
    <3> HIDE DEF r, s
    <3>9. /\ phase' \in {"top", "asking"} => turnsTaken' <= actions' + s
          /\ phase' = "acting" => turnsTaken' <= actions' + s + 1
          /\ turnsTaken' <= actions' + 2
      BY <3>1, <3>6, <3>7, <3>8
    <3> QED  BY <3>5, <3>9 DEF TurnsCounted, s
  <2>13. TurnsAnswered'
    <3>1. CASE phase' = "completed"
      BY <3>1 DEF TurnsAnswered, Conversation
    <3>2. CASE phase' = "top"
      <4>1. transcript' = Append(said, reminder) /\ asked = << >>
        BY <2>1, <3>2
      <4>2. message.asks = 0
        BY <2>3, <4>1
      <4>3. ASSUME NEW i \in DOMAIN transcript', transcript'[i].role = "assistant" PROVE TurnIsAnswered(i)'
        <5>1. CASE i \in 1..l
          BY <2>7, <2>8, <4>3, <5>1
        <5>2. CASE i = l + 1
          <6>1. transcript'[i].asks = 0 /\ transcript'[i + 0 + 1].role # "tool"
            BY <2>3, <2>5, <2>6, <4>1, <4>2, <5>2
          <6> QED  BY <6>1 DEF TurnIsAnswered
        <5>3. CASE i = l + 2
          BY <2>3, <2>6, <4>1, <4>3, <5>3
        <5> QED  BY <2>5, <2>6, <4>1, <5>1, <5>2, <5>3
      <4> QED  BY <3>2, <4>3 DEF TurnsAnswered, Conversation, TurnIsAnswered
    <3>3. CASE phase' = "acting"
      <4>1. transcript' = said /\ toDo' = asked
        BY <2>1, <3>3
      <4>2. transcript'[l + 1].asks = Len(transcript') - (l + 1) + Len(toDo')
        BY <2>2, <2>3, <2>5, <4>1
      <4>3. \A i \in l + 1 + 1..Len(transcript') : transcript'[i].role = "tool"
        BY <2>5, <4>1
      <4>4. \A i \in 1..l + 1 - 1 : transcript'[i].role = "assistant" => TurnIsAnswered(i)'
        BY <2>5, <2>7, <2>8
      <4>5. PICK p \in DOMAIN transcript' : p = l + 1
        BY <2>7
      <4>6. Answering(p)'
        <5>1. transcript'[p].role = "assistant"
          BY <2>3, <2>7, <4>5
        <5>2. transcript'[p].asks = Len(transcript') - p + Len(toDo')
          BY <4>2, <4>5
        <5>3. \A i \in p + 1..Len(transcript') : transcript'[i].role = "tool"
          BY <4>3, <4>5
        <5>4. \A i \in 1..p - 1 : transcript'[i].role = "assistant" => TurnIsAnswered(i)'
          BY <4>4, <4>5
        <5> HIDE DEF l
        <5> QED  BY <5>1, <5>2, <5>3, <5>4 DEF Answering
      <4> QED  BY <3>3, <4>6 DEF TurnsAnswered, Conversation
    <3> QED  BY <2>1, <3>1, <3>2, <3>3
  <2> QED  BY <2>9, <2>10, <2>11, <2>12, <2>13 DEF LoopInv
<1> QED  BY <1>2, <1>3

-----------------------------------------------------------------------------
(* Turns: a call *)

\* A call that was let through was not made for the last Repeats rows.
LEMMA StreakBroken ==
  ASSUME callRows \in Seq(Rows), NEW c, ~ (Streak(c) >= Repeats),
         NEW j \in 1..Len(callRows) + 1 - Repeats
  PROVE  \E k \in j..Len(callRows) : callRows[k].call # c
<1> DEFINE n == Len(callRows)
           K == {k \in 0..n : \A i \in n - k + 1..n : callRows[i].call = c}
           q == n + 1 - j
<1>1. n \in Nat /\ Repeats \in Nat /\ j \in Nat /\ j >= 1 /\ j <= n + 1 - Repeats
  BY LoopAssumed
<1> SUFFICES ASSUME \A k \in j..n : callRows[k].call = c PROVE FALSE
  OBVIOUS
<1> HIDE DEF n
<1>2. q \in 0..n /\ q >= Repeats /\ n - q + 1 = j
  BY <1>1
<1>3. q \in K
  BY <1>2
<1>4. K \in SUBSET (0..n) /\ K \in SUBSET Int
  BY <1>1
<1>5. IsFiniteSet(K)
  <2>1. IsFiniteSet(0..n)
    BY <1>1, FS_Interval
  <2> HIDE DEF K
  <2> QED  BY <1>4, <2>1, FS_Subset
<1>6. Max(K) \in K /\ q <= Max(K)
  <2> HIDE DEF K, q
  <2> QED  BY <1>3, <1>4, <1>5, Greatest
<1>7. Streak(c) = Max(K)
  BY DEF Streak, n
<1>8. q \in Int
  BY <1>2
<1> HIDE DEF K, q
<1>9. Max(K) \in Int
  BY <1>4, <1>6
<1> QED  BY <1>1, <1>2, <1>6, <1>7, <1>8, <1>9

\* A text that is not among the newest has enough of its kind behind it.
LEMMA BehindTheNewest ==
  ASSUME own \in Seq(Texts), NEW i \in DOMAIN own, own[i].text \notin NewestOf(own[i].kind)
  PROVE  Cardinality({k \in i..Len(own) : own[k].kind = own[i].kind}) > OwnLimit
<1> DEFINE later == {k \in i + 1..Len(own) : own[k].kind = own[i].kind}
           from == {k \in i..Len(own) : own[k].kind = own[i].kind}
<1>1. Len(own) \in Nat /\ DOMAIN own = 1..Len(own) /\ i \in Nat /\ i <= Len(own)
  OBVIOUS
<1>2. ~ (Cardinality(later) < OwnLimit)
  BY DEF NewestOf
<1>3. \A k : k \in from <=> k = i \/ k \in later
  BY <1>1
<1>4. i \notin later
  BY <1>1
<1>5. IsFiniteSet(later)
  <2>1. IsFiniteSet(i + 1..Len(own))
    BY <1>1, FS_Interval
  <2>2. later \in SUBSET (i + 1..Len(own))
    OBVIOUS
  <2> HIDE DEF later
  <2> QED  BY <2>1, <2>2, FS_Subset
<1> HIDE DEF later, from
<1>6. from = later \cup {i}
  BY <1>3
<1>7. Cardinality(from) = Cardinality(later) + 1 /\ Cardinality(later) \in Nat
  BY <1>4, <1>5, <1>6, FS_AddElement, FS_CardinalityType
<1>8. OwnLimit \in Nat
  BY LoopAssumed
<1>9. Cardinality(from) > OwnLimit
  BY <1>2, <1>7, <1>8
<1> QED  BY <1>9 DEF from

\* What is published beside them is no echo.
LEMMA EchoKept ==
  ASSUME own \in Seq(Texts), HadWritten \in Nat, NoEcho, NEW o \in Texts, own' = Append(own, o), HadWritten' = HadWritten,
         \/ o.kind = "comment" /\ o.text \in Brief
         \/ o.text \notin NewestOf("post") \cup NewestOf("comment")
  PROVE  NoEcho'
<1> DEFINE l == Len(own)
<1>1. /\ own' \in Seq(Texts) /\ Len(own') = l + 1 /\ l \in Nat
      /\ DOMAIN own = 1..l /\ DOMAIN own' = 1..l + 1
      /\ \A i \in 1..l : own'[i] = own[i]
      /\ own'[l + 1] = o
  BY Appended
<1> SUFFICES ASSUME NEW i \in DOMAIN own', NEW j \in HadWritten + 1..Len(own'),
                    i < j, own'[i].text = own'[j].text, ~ (own'[j].kind = "comment" /\ own'[j].text \in Brief)
             PROVE  Cardinality({k \in i..j - 1 : own'[k].kind = own'[i].kind}) > OwnLimit
  BY DEF NoEcho
<1> HIDE DEF l
<1>2. i \in 1..l /\ own'[i] = own[i]
  BY <1>1
<1>3. {k \in i..j - 1 : own'[k].kind = own'[i].kind} = {k \in i..j - 1 : own[k].kind = own[i].kind}
  <2>1. \A k \in i..j - 1 : k \in 1..l
    BY <1>1
  <2> QED  BY <1>1, <1>2, <2>1
<1>4. CASE j <= l
  <2>1. j \in HadWritten + 1..l /\ own'[j] = own[j]
    BY <1>1, <1>4
  <2> QED  BY <1>1, <1>2, <1>3, <2>1 DEF NoEcho, l
<1>5. CASE j = l + 1
  <2>1. own'[j] = o
    BY <1>1, <1>5
  <2>2. own[i] \in Texts
    BY <1>1, <1>2
  <2>3. own[i].kind \in {"post", "comment"} /\ own[i].text = o.text
    BY <1>2, <2>1, <2>2 DEF Texts
  <2>4. own[i].text \notin NewestOf(own[i].kind)
    BY <2>1, <2>3
  <2>5. Cardinality({k \in i..Len(own) : own[k].kind = own[i].kind}) > OwnLimit
    BY <1>1, <1>2, <2>4, BehindTheNewest
  <2>6. i..j - 1 = i..Len(own)
    BY <1>1, <1>5 DEF l
  <2>7. {k \in i..j - 1 : own'[k].kind = own'[i].kind} = {k \in i..Len(own) : own[k].kind = own[i].kind}
    BY <1>3, <2>6
  <2> HIDE DEF l
  <2> QED  BY <2>5, <2>7
<1>6. j <= l \/ j = l + 1
  <2>1. HadWritten + 1..Len(own') \in SUBSET Int
    BY <1>1
  <2>2. j \in Int /\ j <= l + 1 /\ l \in Nat
    BY <1>1
  <2> QED  BY ONLY <2>2
<1> QED  BY <1>4, <1>5, <1>6, Zenon

\* A row that is no repetition adds none.
LEMMA RepeatsKept ==
  ASSUME callRows \in Seq(Rows), NoThirdRepeat, NEW r \in Rows, callRows' = Append(callRows, r),
         r.ok => ~ (Streak(r.call) >= Repeats)
  PROVE  NoThirdRepeat'
<1> DEFINE n == Len(callRows)
<1>1. /\ n \in Nat /\ DOMAIN callRows' = 1..n + 1 /\ DOMAIN callRows = 1..n
      /\ \A i \in 1..n : callRows'[i] = callRows[i]
      /\ callRows'[n + 1] = r
  BY Appended
<1> SUFFICES ASSUME NEW i \in DOMAIN callRows', callRows'[i].ok,
                    NEW j \in 1..i - Repeats, \A k \in j..i : callRows'[k].call = callRows'[i].call
             PROVE  FALSE
  BY DEF NoThirdRepeat
<1>2. Repeats \in Nat /\ i \in Nat
  BY <1>1, LoopAssumed
<1>3. j \in Nat /\ j >= 1 /\ j <= i - Repeats
  BY <1>2
<1>4. CASE i \in 1..n
  <2> HIDE DEF n
  <2>1. \A k \in j..i : k \in 1..n
    <3>1. i <= n /\ n \in Nat
      BY <1>1, <1>4
    <3> QED  BY ONLY <1>2, <1>3, <3>1
  <2>2. \A k \in j..i : callRows[k].call = callRows[i].call
    BY <1>1, <1>4, <2>1
  <2>3. callRows[i].ok /\ i \in DOMAIN callRows
    BY <1>1, <1>4
  <2> QED  BY <2>2, <2>3 DEF NoThirdRepeat
<1>5. CASE i = n + 1
  <2>1. r.ok /\ callRows'[i] = r
    BY <1>1, <1>5
  <2>2. j \in 1..n + 1 - Repeats
    <3>1. n \in Nat
      BY <1>1
    <3> HIDE DEF n
    <3> QED  BY ONLY <1>2, <1>5, <1>3, <3>1
  <2>3. PICK k \in j..Len(callRows) : callRows[k].call # r.call
    BY <2>1, <2>2, StreakBroken
  <2> HIDE DEF n
  <2>4. k \in j..i /\ k \in 1..n
    <3>1. k \in j..n /\ j >= 1
      BY <2>3 DEF n
    <3> QED  BY <1>1, <1>5, <3>1
  <2> QED  BY <1>1, <2>1, <2>3, <2>4
<1>6. i \in 1..n \/ i = n + 1
  <2>1. i \in 1..n + 1 /\ n \in Nat
    BY <1>1
  <2> QED  BY ONLY <2>1
<1> QED  BY <1>4, <1>5, <1>6, Zenon

\* A result that is the second correction in a row is the last one.
LEMMA StrikesStep ==
  ASSUME transcript \in Seq(Messages), NEW verdict \in CallVerdicts, StrikesCounted, phase # "completed",
         transcript' = Append(transcript, [role |-> "tool", asks |-> 0, verdict |-> verdict]),
         strikes' = Strikes(verdict), strikes' >= 2 => phase' = "completed"
  PROVE  StrikesCounted' /\ strikes' \in 0..2
<1> DEFINE m == [role |-> "tool", asks |-> 0, verdict |-> verdict]
           l == Len(transcript)
<1>1. /\ l \in Nat /\ DOMAIN transcript = 1..l /\ DOMAIN transcript' = 1..l + 1
      /\ \A i \in 1..l : transcript'[i] = transcript[i]
      /\ transcript'[l + 1] = m
  <2>1. m \in Messages
    BY DEF Messages
  <2> HIDE DEF m
  <2> QED  BY <2>1, Appended DEF m
<1> HIDE DEF l
<1>2. /\ Results' = Results \cup {l + 1} /\ Results \in SUBSET (1..l)
      /\ \A i \in Results : transcript'[i] = transcript[i]
      /\ transcript'[l + 1].verdict = verdict
  <2>1. Results \in SUBSET (1..l)
    BY <1>1 DEF Results
  <2>2. transcript'[l + 1].role = "tool" /\ transcript'[l + 1].verdict = verdict
    BY <1>1
  <2>3. \A i : i \in 1..l + 1 <=> i \in 1..l \/ i = l + 1
    BY <1>1
  <2>4. \A i : i \in Results' <=> i \in Results \/ i = l + 1
    BY <1>1, <2>2, <2>3 DEF Results
  <2> QED  BY <1>1, <2>1, <2>2, <2>4
<1>3. strikes \in 0..1 /\ strikes' \in 0..2
  BY DEF StrikesCounted, Strikes
<1>4. CorrectionsEnd'
  <2> SUFFICES ASSUME NEW i \in Results', NEW j \in Results', i < j, (i + 1..j - 1) \cap Results' = {},
                      transcript'[i].verdict = "rejected", transcript'[j].verdict = "rejected"
               PROVE  phase' = "completed" /\ \A k \in Results' : k <= j
    BY DEF CorrectionsEnd
  <2>1. i \in Results
    BY <1>1, <1>2
  <2>2. CASE j \in Results
    <3>1. (i + 1..j - 1) \cap Results = {}
      BY <1>2
    <3> QED  BY <1>2, <2>1, <2>2, <3>1 DEF StrikesCounted, CorrectionsEnd
  <2>3. CASE j = l + 1
    <3>1. ASSUME NEW k \in Results PROVE k <= i
      <4>1. k \in 1..l /\ i \in 1..l
        BY <1>2, <2>1
      <4>2. ~ (k \in i + 1..j - 1)
        BY <1>2
      <4> QED  BY <1>1, <2>3, <4>1, <4>2
    <3>2. transcript[i].verdict = "rejected"
      BY <1>2, <2>1
    <3>3. strikes # 0
      BY <2>1, <3>1, <3>2 DEF StrikesCounted
    <3>4. verdict = "rejected"
      BY <1>2, <2>3
    <3>5. strikes' >= 2
      BY <1>3, <3>3, <3>4 DEF Strikes
    <3> QED  BY <1>1, <1>2, <2>3, <3>5
  <2> QED  BY <1>2, <2>2, <2>3
<1>5. ASSUME phase' # "completed", strikes' = 0, NEW i \in Results', \A k \in Results' : k <= i
      PROVE  transcript'[i].verdict # "rejected"
  <2>1. l + 1 <= i
    BY <1>2, <1>5
  <2>2. i = l + 1
    BY <1>1, <1>2, <1>5, <2>1
  <2>3. verdict # "rejected"
    BY <1>3, <1>5 DEF Strikes
  <2> QED  BY <1>2, <2>2, <2>3
<1>6. phase' # "completed" => strikes' \in 0..1
  BY <1>3
<1> QED  BY <1>3, <1>4, <1>5, <1>6 DEF StrikesCounted

\* Its result takes the place the answer has for it.
LEMMA TurnGoesOn ==
  ASSUME transcript \in Seq(Messages), toDo \in Seq(Requests), toDo # << >>, TurnsAnswered, phase = "acting",
         NEW verdict \in CallVerdicts,
         transcript' = Append(transcript, [role |-> "tool", asks |-> 0, verdict |-> verdict]),
         \/ phase' = "acting" /\ toDo' = Tail(toDo)
         \/ phase' = "completed"
  PROVE  TurnsAnswered'
<1> DEFINE m == [role |-> "tool", asks |-> 0, verdict |-> verdict]
           l == Len(transcript)
<1>1. /\ transcript' \in Seq(Messages) /\ Len(transcript') = l + 1 /\ l \in Nat
      /\ DOMAIN transcript = 1..l /\ DOMAIN transcript' = 1..l + 1
      /\ \A i \in 1..l : transcript'[i] = transcript[i]
      /\ transcript'[l + 1] = m
  <2>1. m \in Messages
    BY DEF Messages
  <2> HIDE DEF m
  <2> QED  BY <2>1, Appended DEF m
<1>2. Conversation'
  BY DEF Conversation
<1>3. ASSUME phase' = "acting" PROVE \E p \in DOMAIN transcript' : Answering(p)'
  <2>1. PICK p \in DOMAIN transcript : Answering(p)
    BY DEF TurnsAnswered
  <2>2. toDo' = Tail(toDo) /\ Len(toDo') = Len(toDo) - 1 /\ Len(toDo) \in Nat
    BY <1>3
  <2>3. p \in 1..l /\ p \in DOMAIN transcript' /\ transcript'[p] = transcript[p]
    BY <1>1
  <2>4. transcript'[p].role = "assistant" /\ transcript'[p].asks = Len(transcript') - p + Len(toDo')
    <3>1. transcript[p].role = "assistant" /\ transcript[p].asks = l - p + Len(toDo)
      BY <2>1 DEF Answering
    <3> HIDE DEF l
    <3> QED  BY <1>1, <2>2, <2>3, <3>1
  <2>5. ASSUME NEW i \in p + 1..Len(transcript') PROVE transcript'[i].role = "tool"
    <3>1. i \in p + 1..l \/ i = l + 1
      BY <1>1
    <3>2. CASE i \in p + 1..l
      <4>1. i \in 1..l /\ transcript[i].role = "tool"
        BY <2>1, <2>3, <3>2 DEF Answering
      <4> QED  BY <1>1, <4>1
    <3>3. CASE i = l + 1
      BY <1>1, <3>3
    <3> QED  BY <3>1, <3>2, <3>3
  <2>6. ASSUME NEW i \in 1..p - 1, transcript'[i].role = "assistant" PROVE TurnIsAnswered(i)'
    <3>1. i \in 1..Len(transcript) /\ transcript'[i] = transcript[i]
      BY <1>1, <2>3
    <3>2. TurnIsAnswered(i)
      BY <2>1, <2>6, <3>1 DEF Answering
    <3>3. transcript[p].role = "assistant"
      BY <2>1 DEF Answering
    <3>4. i + transcript[i].asks + 1 <= p
      BY <3>2, <3>3, AnsweredBefore
    <3>5. transcript[i].asks \in Nat
      <4>1. transcript[i] \in Messages
        BY <3>1
      <4> QED  BY <4>1 DEF Messages
    <3>6. i + transcript[i].asks + 1 <= Len(transcript)
      <4>1. i \in Nat /\ p \in Nat /\ p <= l
        BY <2>3, <3>1
      <4> HIDE DEF l
      <4>2. i + transcript[i].asks + 1 <= l
        BY <1>1, <3>4, <3>5, <4>1
      <4> QED  BY <4>2 DEF l
    <3>7. Len(transcript') >= Len(transcript) /\ \A k \in 1..Len(transcript) : transcript'[k] = transcript[k]
      BY <1>1
    <3> QED  BY <1>1, <3>1, <3>2, <3>6, <3>7, AnsweredLonger
  <2>7. Answering(p)'
    BY <2>4, <2>5, <2>6 DEF Answering
  <2> QED  BY <2>3, <2>7
<1> QED  BY <1>2, <1>3 DEF TurnsAnswered

LEMMA ActStep ==
  ASSUME LoopInv, NEW verdict \in CallVerdicts, Act(verdict)
  PROVE  LoopInv'
<1> DEFINE c == Head(toDo)
           r == [call |-> c, ok |-> verdict = "ok", turn |-> turnsTaken]
           o == [kind |-> Bucket[c.name], text |-> c.text]
<1>1. LoopTypes /\ RowsNumbered /\ TurnsAnswered /\ TurnsCounted /\ StrikesCounted /\ NoThirdRepeat /\ NoEcho
  BY DEF LoopInv
<1>2. /\ phase = "acting" /\ toDo # << >> /\ ~ OutOfBudget /\ verdict \in Verdicts(c)
      /\ actions' = actions + 1
      /\ callRows' = Audited(c, verdict)
      /\ transcript' = Append(transcript, [role |-> "tool", asks |-> 0, verdict |-> verdict])
      /\ strikes' = Strikes(verdict)
      /\ IF verdict = "ok" /\ Publishes(c)
         THEN /\ own' = Append(own, o)
              /\ spent' = [spent EXCEPT ![Bucket[c.name]] = @ + 1]
         ELSE UNCHANGED <<own, spent>>
      /\ IF c.name = "finish" \/ verdict = "looping" \/ Strikes(verdict) >= 2
         THEN Ends("completed")
         ELSE toDo' = Tail(toDo) /\ UNCHANGED phase
      /\ UNCHANGED <<turnsTaken, nudged>>
  BY DEF Act
<1>3. \/ phase' = "acting" /\ toDo' = Tail(toDo)
      \/ phase' = "completed" /\ toDo' = << >>
  BY <1>2 DEF Ends
<1>4. strikes' >= 2 => phase' = "completed"
  BY <1>2 DEF Ends
<1>5. /\ toDo \in Seq(Requests) /\ transcript \in Seq(Messages) /\ callRows \in Seq(Rows)
      /\ own \in Seq(Texts) /\ HadWritten \in Nat
  BY <1>1 DEF LoopTypes
<1>6. c \in Requests /\ c.name \in STRING /\ c.text \in STRING
  <2>1. c \in Requests
    BY <1>2, <1>5
  <2> HIDE DEF c
  <2>2. c \in [name : STRING, text : STRING]
    BY <2>1, LoopAssumed
  <2> QED  BY <2>1, <2>2
<1> HIDE DEF c
<1>7. r \in Rows
  <2>1. (verdict = "ok") \in BOOLEAN
    BY Zenon
  <2>2. turnsTaken \in Nat
    BY <1>1 DEF LoopTypes
  <2> QED  BY <1>6, <2>1, <2>2 DEF Rows
<1>8. StrikesCounted' /\ strikes' \in 0..2
  BY <1>1, <1>2, <1>4, <1>5, StrikesStep
<1>9. TurnsAnswered'
  BY <1>1, <1>2, <1>3, <1>5, TurnGoesOn
<1>10. callRows' \in Seq(Rows) /\ (callRows' = callRows \/ callRows' = Append(callRows, r))
  <2>1. callRows' = callRows \/ callRows' = Append(callRows, r)
    BY <1>2 DEF Audited
  <2> HIDE DEF r
  <2>2. Append(callRows, r) \in Seq(Rows)
    BY <1>5, <1>7, Appended
  <2>3. callRows \in Seq(Rows)
    BY <1>5
  <2> QED  BY <2>1, <2>2, <2>3, Zenon
<1>11. NoThirdRepeat'
  <2>1. CASE callRows' = callRows
    BY <1>1, <2>1 DEF NoThirdRepeat
  <2>2. CASE callRows' = Append(callRows, r)
    <3>1. ASSUME r.ok PROVE ~ (Streak(r.call) >= Repeats)
      <4>1. verdict = "ok" /\ r.call = c
        BY <3>1
      <4> QED  BY <1>2, <4>1 DEF Verdicts
    <3> HIDE DEF r
    <3> QED  BY <1>1, <1>5, <1>7, <2>2, <3>1, RepeatsKept
  <2> QED  BY <1>10, <2>1, <2>2
<1>12. RowsNumbered'
  <2>1. turnsTaken' = turnsTaken /\ turnsTaken \in Nat /\ turnsTaken >= 1
    BY <1>1, <1>2 DEF LoopTypes, RowsNumbered
  <2>2. \A i \in DOMAIN callRows : callRows[i].turn \in 1..turnsTaken
    BY <1>1 DEF RowsNumbered
  <2>3. CASE callRows' = callRows
    BY <2>1, <2>2, <2>3 DEF RowsNumbered
  <2>4. CASE callRows' = Append(callRows, r)
    <3>1. r.turn \in 1..turnsTaken
      BY <2>1
    <3> HIDE DEF r
    <3>2. /\ DOMAIN callRows' = 1..Len(callRows) + 1 /\ DOMAIN callRows = 1..Len(callRows)
          /\ \A i \in 1..Len(callRows) : callRows'[i] = callRows[i]
          /\ callRows'[Len(callRows) + 1] = r /\ Len(callRows) \in Nat
      BY <1>5, <1>7, <2>4, Appended
    <3>3. \A i \in DOMAIN callRows' : i \in DOMAIN callRows \/ i = Len(callRows) + 1
      BY <3>2
    <3> QED  BY <2>1, <2>2, <3>1, <3>2, <3>3 DEF RowsNumbered
  <2> QED  BY <1>10, <2>3, <2>4
<1>13. actions' \in 0..MaxActions /\ actions' = actions + 1 /\ actions \in Nat
  <2>1. actions \in 0..MaxActions
    BY <1>1 DEF LoopTypes
  <2>2. MaxActions \in Nat
    BY LoopAssumed
  <2>3. ~ (actions >= MaxActions)
    BY <1>2 DEF OutOfBudget
  <2>4. actions' = actions + 1
    BY <1>2
  <2> QED  BY ONLY <2>1, <2>2, <2>3, <2>4
<1>14. TurnsCounted'
  <2>1. turnsTaken \in Nat /\ turnsTaken' = turnsTaken /\ turnsTaken <= actions + 2
    BY <1>1, <1>2 DEF LoopTypes, TurnsCounted
  <2>2. Reminders \in {0, 1} /\ Reminders' = Reminders
    BY <1>2 DEF Reminders
  <2>3. turnsTaken <= actions + Reminders + 1
    BY <1>1, <1>2 DEF TurnsCounted
  <2>4. phase' \notin {"top", "asking"}
    BY <1>3
  <2>5. turnsTaken' <= actions' + Reminders' /\ turnsTaken' <= actions' + 2 /\ Reminders' \in {0, 1} /\ actions' \in Nat
    BY ONLY <1>13, <2>1, <2>2, <2>3
  <2>6. turnsTaken' <= actions' + Reminders' + 1 /\ turnsTaken' <= actions' + Reminders' + 0
    BY ONLY <1>13, <2>1, <2>2, <2>3
  <2> QED  BY <2>4, <2>5, <2>6 DEF TurnsCounted
<1>15. NoEcho' /\ own' \in Seq(Texts) /\ spent' \in [{"post", "comment"} -> Nat] /\ HadWritten' = HadWritten
  <2>1. CASE verdict = "ok" /\ Publishes(c)
    <3>1. Bucket[c.name] \in {"post", "comment"} /\ (Bucket[c.name] = "comment" <=> c.name = "create_comment")
      BY <2>1 DEF Publishes, Bucket
    <3>2. o \in Texts /\ o.kind = Bucket[c.name] /\ o.text = c.text
      BY <1>6, <3>1 DEF Texts
    <3>3. own' = Append(own, o) /\ spent' = [spent EXCEPT ![Bucket[c.name]] = @ + 1]
      BY <1>2, <2>1
    <3> HIDE DEF o
    <3>4. own' \in Seq(Texts) /\ Len(own') = Len(own) + 1 /\ Len(own) \in Nat
      BY <1>5, <3>2, <3>3, Appended
    <3>5. spent \in [{"post", "comment"} -> Nat]
      BY <1>1 DEF LoopTypes
    <3>6. spent' \in [{"post", "comment"} -> Nat]
      BY <3>1, <3>3, <3>5
    <3>7. HadWritten' = HadWritten
      <4>1. CASE Bucket[c.name] = "post"
        <5>1. spent'["post"] = spent["post"] + 1 /\ spent'["comment"] = spent["comment"]
              /\ spent["post"] \in Nat /\ spent["comment"] \in Nat
          BY <3>3, <3>5, <4>1
        <5>2. Len(own') = Len(own) + 1 /\ Len(own) \in Nat
          BY <3>4
        <5> QED  BY <5>1, <5>2 DEF HadWritten
      <4>2. CASE Bucket[c.name] = "comment"
        <5>1. spent'["post"] = spent["post"] /\ spent'["comment"] = spent["comment"] + 1
              /\ spent["post"] \in Nat /\ spent["comment"] \in Nat
          BY <3>3, <3>5, <4>2
        <5>2. Len(own') = Len(own) + 1 /\ Len(own) \in Nat
          BY <3>4
        <5> QED  BY <5>1, <5>2 DEF HadWritten
      <4> QED  BY <3>1, <4>1, <4>2
    <3>8. ~ Duplicate(c)
      BY <1>2, <2>1 DEF Verdicts
    <3>9. \/ o.kind = "comment" /\ o.text \in Brief
          \/ o.text \notin NewestOf("post") \cup NewestOf("comment")
      BY <2>1, <3>1, <3>2, <3>8 DEF Duplicate
    <3>10. NoEcho'
      BY <1>1, <1>5, <3>2, <3>3, <3>7, <3>9, EchoKept
    <3> QED  BY <3>4, <3>6, <3>7, <3>10
  <2>2. CASE ~ (verdict = "ok" /\ Publishes(c))
    <3>1. own' = own /\ spent' = spent
      BY <1>2, <2>2
    <3>2. HadWritten' = HadWritten
      BY <3>1 DEF HadWritten
    <3>3. NoEcho' <=> NoEcho
      BY <3>1, <3>2 DEF NoEcho
    <3> QED  BY <1>1, <3>1, <3>2, <3>3 DEF LoopTypes
  <2> QED  BY <2>1, <2>2
<1>16. LoopTypes'
  <2>1. toDo' \in Seq(Requests)
    <3>1. toDo \in Seq(Requests) /\ toDo # << >>
      BY <1>2, <1>5
    <3>2. Tail(toDo) \in Seq(Requests) /\ << >> \in Seq(Requests)
      BY <3>1
    <3> QED  BY <1>3, <3>2, Zenon
  <2>2. transcript' \in Seq(Messages)
    <3> DEFINE m == [role |-> "tool", asks |-> 0, verdict |-> verdict]
    <3>1. m \in Messages
      BY DEF Messages
    <3>2. transcript' = Append(transcript, m)
      BY <1>2
    <3> HIDE DEF m
    <3> QED  BY <1>5, <3>1, <3>2, Appended
  <2>3. nudged' \in BOOLEAN
    <3>1. nudged' = nudged
      BY <1>2
    <3>2. nudged \in BOOLEAN
      BY <1>1 DEF LoopTypes
    <3> QED  BY <3>1, <3>2, Zenon
  <2>4. phase' \in {"top", "asking", "acting", "completed", "left", "failed"} /\ turnsTaken' \in Nat
    BY <1>1, <1>2, <1>3 DEF LoopTypes
  <2>5. HadWritten' \in Nat
    BY <1>5, <1>15
  <2> QED  BY <1>8, <1>10, <1>13, <1>15, <2>1, <2>2, <2>3, <2>4, <2>5 DEF LoopTypes
<1> QED  BY <1>8, <1>9, <1>11, <1>12, <1>14, <1>15, <1>16 DEF LoopInv

LEMMA LoopStep ==
  ASSUME LoopInv, [LoopNext]_loopVars
  PROVE  LoopInv'
<1>1. CASE AskModel
  BY <1>1, LoopMovesOn DEF AskModel, Ends
<1>2. CASE TurnOver
  BY <1>2, LoopMovesOn DEF TurnOver, Ends
<1>3. CASE Abandon
  BY <1>3, LoopMovesOn DEF Abandon, Ends
<1>4. CASE TakenOver
  BY <1>4, LoopMovesOn DEF TakenOver
<1>5. CASE TimeRunsOut
  BY <1>5, LoopMovesOn DEF TimeRunsOut
<1>6. CASE AnswerFails
  BY <1>6, LoopMovesOn DEF AnswerFails, Ends
<1>7. ASSUME NEW asked \in Answers, ModelAnswers(asked) PROVE LoopInv'
  BY <1>7, ModelAnswersStep
<1>8. ASSUME NEW verdict \in {"ok", "failed", "crashed", "rejected", "looping"}, Act(verdict) PROVE LoopInv'
  BY <1>8, ActStep DEF CallVerdicts
<1>9. CASE UNCHANGED loopVars
  BY <1>9, LoopMovesOn DEF loopVars
<1> QED  BY <1>1, <1>2, <1>3, <1>4, <1>5, <1>6, <1>7, <1>8, <1>9 DEF LoopNext

LEMMA LoopIsSound ==
  ASSUME LoopInv
  PROVE  LoopTypeOK /\ LoopSound
<1>1. LoopTypes /\ RowsNumbered /\ TurnsAnswered /\ TurnsCounted /\ StrikesCounted /\ NoThirdRepeat /\ NoEcho
  BY DEF LoopInv
<1>2. LoopTypeOK
  BY <1>1 DEF LoopTypes, RowsNumbered, LoopTypeOK
<1>3. Conversation /\ TurnsBounded /\ CorrectionsEnd
  BY <1>1 DEF TurnsAnswered, TurnsCounted, TurnsBounded, StrikesCounted
<1> QED  BY <1>1, <1>2, <1>3 DEF LoopSound

\* A visit's turns keep the conversation one a provider accepts, are bounded by the
\* calls, end after two corrections, and neither repeat a call a third time nor echo
\* the persona's newest texts.
THEOREM LoopStaysSound == LoopSpec => [](LoopTypeOK /\ LoopSound)
<1>1. LoopInv => LoopTypeOK /\ LoopSound
  BY LoopIsSound
<1> QED  BY <1>1, LoopStart, LoopStep, PTL DEF LoopSpec

-----------------------------------------------------------------------------
(* The visits *)

\* What a visit is prompted with, what it may do and what it does stay sound
\* together, whatever the three do.
THEOREM VisitsStaySound == ProfilesSpec /\ PlanSpec /\ LoopSpec => []VisitsSound
<1>1. ProfilesSpec => []ProfilesSound
  BY ProfilesStaySound, PTL
<1>2. PlanSpec => []VisitsKeepToPlan
  BY VisitsStayOnPlan
<1>3. LoopSpec => []LoopSound
  BY LoopStaysSound, PTL
<1>4. ProfilesSound /\ VisitsKeepToPlan /\ LoopSound => VisitsSound
  BY DEF VisitsSound
<1> QED  BY <1>1, <1>2, <1>3, <1>4, PTL

=============================================================================
