------------------------------- MODULE VisitPlan -------------------------------
(***************************************************************************)
(* What one visit of an agent sets out to do, and what it is let do:       *)
(* prepare_agent_visit resolves an intent, a destination and the tools on  *)
(* offer from the agent's configuration as it stands then                  *)
(* (agents/prompts.py, registry.py); each tool call is authorised anew     *)
(* against the configuration as it stands by then (agents/executor.py).    *)
(*                                                                         *)
(* Of a persona's visits only one runs at a time (AgentRuns).  In between  *)
(* the administrator changes the agent, communities come and go, and       *)
(* others open threads in d/BetweenRobots.  Random draws are halves: a     *)
(* share is 0, 1 or 2, and a draw below it.                                *)
(***************************************************************************)
EXTENDS Integers, Sequences, SequencesExt

CONSTANTS
  AgentConfigs,     \* records of tier, image and website policy
  Communities,      \* ordinary communities
  Mixes,            \* intent mixes of the profiles in use
  MaxChanges,       \* bound of the model: changes of others
  MaxVisits         \* bound of the model

Backstage == "BetweenRobots"
Nowhere == "nowhere"

ASSUME VisitPlanAssumption ==
  /\ AgentConfigs \subseteq
       [tier : {"lurker", "regular"}, image : {"off", "optional", "only"},
        website : {"off", "optional", "only"}]
  /\ {Backstage, Nowhere} \cap Communities = {}
  /\ Mixes \subseteq [post : 0..2, image : 0..2, website : 0..2, backstage : 0..2]
  /\ MaxChanges \in Nat /\ MaxVisits \in Nat

VARIABLES
  agentConfig,
  open,             \* communities there are
  subscribed,       \* those the persona subscribed to
  threads,          \* authors of the Backstage threads, "self" or "other"
  visit,            \* the visit under way
  posting,          \* a post tool between authorisation and publication
  published,        \* history: the visit's post, as of its publication
  changes, visits

planVars == <<agentConfig, open, subscribed, threads, visit, posting, published,
              changes, visits>>

PostTools == {"create_post", "create_image_post", "create_website"}
Reserved == {"image", "website", "backstage"}
NoVisit == [intent |-> "none"]
NoPost == [tool |-> "none"]

-----------------------------------------------------------------------------
(* What a configuration offers *)

\* offered_post_tool_names.  Both locks are an invalid configuration: nothing.
OfferedPostTools(image, website) ==
  CASE image = "only" /\ website = "only" -> {}
    [] image = "only" /\ website # "only" -> {"create_image_post"}
    [] image # "only" /\ website = "only" -> {"create_website"}
    [] OTHER -> {"create_post"}
                \cup (IF image = "off" THEN {} ELSE {"create_image_post"})
                \cup (IF website = "off" THEN {} ELSE {"create_website"})

Static(config) == OfferedPostTools(config.image, config.website)

\* effective_post_configs with offered_post_tool_names: a reserved intent locks
\* its tool, and one that the configuration does not allow locks them all.
\* Mutant: a reserved intent locks nothing.
ToolFor(intent) ==
  CASE intent = "image" -> "create_image_post"
    [] intent = "website" -> "create_website"
    [] intent = "backstage" -> "create_post"
EffectiveIsStatic(config, intent) == Static(config)
Effective(config, intent) ==
  IF intent \in Reserved THEN Static(config) \cap {ToolFor(intent)} ELSE Static(config)

\* tools_for, of the tools that publish.
ToolsFor(config, intent) ==
  IF config.tier = "lurker" THEN {}
  ELSE Effective(config, intent)
       \cup (IF intent \in Reserved THEN {} ELSE {"create_comment"})

\* _post_instruction: the tools that the wording of the kickoff names.
Instructed(offered) ==
  IF offered \in {{"create_website"}, {"create_image_post"}} \/ "create_post" \in offered
  THEN offered ELSE {}

-----------------------------------------------------------------------------
(* Resolving a visit *)

LatestThread == IF threads = << >> THEN "none" ELSE Last(threads)

\* _backstage_post_available.
BackstageAvailable ==
  /\ Backstage \in open
  /\ "create_post" \in Static(agentConfig)
  /\ LatestThread # "self"

\* _reserve_community: a subscription that still exists, or any community.
Destinations ==
  LET ordinary == open \ {Backstage}
      mine == subscribed \cap ordinary
  IN IF mine # {} THEN mine ELSE IF ordinary # {} THEN ordinary ELSE {Nowhere}

Eligible(intent) ==
  CASE intent \in {"image", "website"} -> ToolFor(intent) \in Static(agentConfig)
    [] intent = "backstage" -> BackstageAvailable
    [] OTHER -> TRUE

Kind(intent) ==
  IF "create_post" \in Effective(agentConfig, intent) THEN "text_post" ELSE "media_post"

Post(intent, source) ==
  {[intent |-> intent, source |-> source, kind |-> Kind(intent), target |-> t] :
     t \in IF intent = "backstage" THEN {Backstage} ELSE Destinations}

Browse(source, kind) ==
  {[intent |-> "browse", source |-> source, kind |-> kind, target |-> Nowhere]}

CanPost(intent) == Instructed(Effective(agentConfig, intent)) # {}

\* Step 6: a post that can be made, or browsing.
Tuned(intent, source) ==
  IF intent # "browse" /\ CanPost(intent) THEN Post(intent, source)
  ELSE Browse(IF intent # "browse" /\ source = "requested" THEN "degraded" ELSE source,
              "comment")

\* Step 5 without a request: draws of whether to post, backstage, and a kind.
Sampled(mix) ==
  LET kinds ==
        {IF mix.image = 0 /\ mix.website = 0 THEN "post"
         ELSE IF d < mix.image THEN "image"
         ELSE IF d < mix.image + mix.website THEN "website" ELSE "post" : d \in 0..1}
      posts == {IF k # "post" /\ ToolFor(k) \notin Static(agentConfig) THEN "post" ELSE k :
                  k \in kinds}
  IN (IF mix.post < 2 THEN {"browse"} ELSE {})
     \cup (IF mix.post > 0 /\ mix.backstage > 0 /\ BackstageAvailable
           THEN {"backstage"} ELSE {})
     \cup (IF mix.post > 0 /\ (mix.backstage < 2 \/ ~ BackstageAvailable)
           THEN posts ELSE {})

\* _resolve_visit, its outcomes for all draws.
Resolved(request, unread, mix) ==
  LET asked == IF Eligible(request) THEN request ELSE "post"
      source == IF Eligible(request) THEN "requested" ELSE "degraded"
  IN IF agentConfig.tier = "lurker" THEN Browse("lurker", "none")
     ELSE IF unread /\ asked \in {"image", "website"} /\ CanPost(asked)
     THEN Post(asked, "requested")
     ELSE IF unread THEN Browse("unread", "comment")
     ELSE IF request # "any" THEN Tuned(asked, source)
     ELSE UNION {Tuned(intent, "sampled") : intent \in Sampled(mix)}

PlanInit ==
  /\ agentConfig \in AgentConfigs
  /\ open \in SUBSET (Communities \cup {Backstage})
  /\ subscribed \in SUBSET Communities
  /\ threads \in IF Backstage \in open THEN {<< >>, <<"other">>, <<"self">>} ELSE {<< >>}
  /\ visit = NoVisit /\ posting = NoPost /\ published = NoPost
  /\ changes = 0 /\ visits = 0

PrepareVisit(request, unread, mix) ==
  /\ visit = NoVisit /\ visits < MaxVisits
  /\ visits' = visits + 1
  /\ \E plan \in Resolved(request, unread, mix) :
       visit' = [intent |-> plan.intent, source |-> plan.source, kind |-> plan.kind,
                 target |-> plan.target, offered |-> ToolsFor(agentConfig, plan.intent),
                 tier |-> agentConfig.tier, request |-> request,
                 changed |-> FALSE, cleared |-> FALSE]
  /\ UNCHANGED <<agentConfig, open, subscribed, threads, posting, published, changes>>

\* _render_kickoff: the post tools that the layout of the plan names.
Told(plan) ==
  CASE plan.source = "lurker" \/ plan.intent = "browse" -> {}
    [] plan.source # "lurker" /\ plan.intent = "backstage" -> {"create_post"}
    [] OTHER -> Instructed(plan.offered \cap PostTools)

-----------------------------------------------------------------------------
(* Tool calls *)

\* _check_tier and _check_post_policy, of the configuration of this moment.
\* Mutant: the policy is looked at, the visit's intent is not.
AuthorizedAnyIntent(tool) ==
  agentConfig.tier # "lurker" /\ tool \in Static(agentConfig)
Authorized(tool) ==
  agentConfig.tier # "lurker" /\ tool \in Effective(agentConfig, visit.intent)

\* _check_target_subdeaddit.
OnTarget(place) == visit.target \in {Nowhere, place}

\* _check_backstage_rotation.
\* Mutant: only a visit with the intent keeps to the rotation.
RotatesOnIntent(place) ==
  place = Backstage /\ visit.intent = "backstage" => LatestThread # "self"
Rotates(place) == place = Backstage => LatestThread # "self"

\* The checks of a post tool and of its handler, before it generates anything.
CallPostTool(tool, place) ==
  /\ visit # NoVisit /\ posting = NoPost /\ published = NoPost
  /\ Authorized(tool) /\ OnTarget(place) /\ Rotates(place)
  /\ place \in open
  /\ posting' = [tool |-> tool, place |-> place, config |-> agentConfig]
  /\ visit' = [visit EXCEPT !.cleared = FALSE]
  /\ UNCHANGED <<agentConfig, open, subscribed, threads, published, changes, visits>>

\* The content service looks for the community once more.
Publish ==
  /\ posting # NoPost
  /\ posting' = NoPost
  /\ IF posting.place \in open
     THEN /\ published' = [tool |-> posting.tool, place |-> posting.place,
                           config |-> posting.config, latest |-> LatestThread,
                           cleared |-> visit.cleared]
          /\ threads' = IF posting.place = Backstage THEN Append(threads, "self")
                        ELSE threads
     ELSE UNCHANGED <<published, threads>>
  /\ UNCHANGED <<agentConfig, open, subscribed, visit, changes, visits>>

GenerationFails ==
  /\ posting # NoPost
  /\ posting' = NoPost
  /\ UNCHANGED <<agentConfig, open, subscribed, threads, visit, published, changes, visits>>

FinishVisit ==
  /\ visit # NoVisit /\ posting = NoPost
  /\ visit' = NoVisit
  /\ published' = NoPost
  /\ UNCHANGED <<agentConfig, open, subscribed, threads, posting, changes, visits>>

-----------------------------------------------------------------------------
(* Others *)

Meddle ==
  /\ changes < MaxChanges
  /\ changes' = changes + 1
  /\ UNCHANGED <<subscribed, posting, published, visits>>

Reconfigure(config) ==
  /\ Meddle /\ config # agentConfig
  /\ agentConfig' = config
  /\ visit' = IF visit = NoVisit THEN visit ELSE [visit EXCEPT !.changed = TRUE]
  /\ UNCHANGED <<open, threads>>

CreateSubdeaddit(place) ==
  /\ Meddle /\ place \notin open
  /\ open' = open \cup {place}
  /\ UNCHANGED <<agentConfig, threads, visit>>

\* With its posts.
DeleteSubdeaddit(place) ==
  /\ Meddle /\ place \in open
  /\ open' = open \ {place}
  /\ threads' = IF place = Backstage THEN << >> ELSE threads
  /\ visit' = IF visit = NoVisit THEN visit ELSE [visit EXCEPT !.cleared = TRUE]
  /\ UNCHANGED agentConfig

OthersThread ==
  /\ Meddle /\ Backstage \in open
  /\ threads' = Append(threads, "other")
  /\ UNCHANGED <<agentConfig, open, visit>>

DeleteThread ==
  /\ Meddle /\ threads # << >>
  /\ threads' = Front(threads)
  /\ visit' = IF visit = NoVisit THEN visit ELSE [visit EXCEPT !.cleared = TRUE]
  /\ UNCHANGED <<agentConfig, open>>

PlanNext ==
  \/ \E request \in {"any", "browse", "post"} \cup Reserved, unread \in BOOLEAN,
        mix \in Mixes : PrepareVisit(request, unread, mix)
  \/ \E tool \in PostTools, place \in Communities \cup {Backstage} :
       CallPostTool(tool, place)
  \/ Publish
  \/ GenerationFails
  \/ FinishVisit
  \/ \E config \in AgentConfigs : Reconfigure(config)
  \/ \E place \in Communities \cup {Backstage} :
       CreateSubdeaddit(place) \/ DeleteSubdeaddit(place)
  \/ OthersThread
  \/ DeleteThread

PlanSpec == PlanInit /\ [][PlanNext]_planVars

-----------------------------------------------------------------------------
(* Properties *)

PlanTypeOK ==
  /\ agentConfig \in AgentConfigs
  /\ open \subseteq Communities \cup {Backstage}
  /\ threads \in Seq({"self", "other"})
  /\ posting.tool \in PostTools \cup {"none"} /\ published.tool \in PostTools \cup {"none"}

\* A plan agrees with itself: a visit that is told to post is offered the very
\* tools that it is told of, text is asked of it only if it may write text, a
\* reserved visit has one tool and no comments, and a lurker has none.  What
\* was asked for is done, or the plan says why not.
PlanFits ==
  visit # NoVisit =>
    /\ visit.tier = "lurker" => visit.offered = {} /\ visit.kind = "none"
    /\ visit.intent # "browse" =>
         /\ Told(visit) # {} /\ Told(visit) = visit.offered \cap PostTools
         /\ (visit.kind = "text_post") = ("create_post" \in Told(visit))
    /\ visit.intent \in Reserved => visit.offered = {ToolFor(visit.intent)}
    /\ visit.intent \notin {visit.request, "browse"} /\ visit.request # "any" =>
         visit.source = "degraded"
    /\ visit.intent = "browse" /\ visit.request \notin {"any", "browse"} =>
         visit.source \in {"degraded", "unread", "lurker"}

\* "enforcement can never drift from offering": what a visit publishes was
\* offered to it, unless the agent was changed since; even then it was allowed
\* when the tool was called, and it stands where the plan said.
WithinOffer ==
  published # NoPost =>
    /\ ~ visit.changed => published.tool \in visit.offered
    /\ published.tool \in Static(published.config)
    /\ visit.target \in {Nowhere, published.place}
    /\ visit.intent \in Reserved => published.tool = ToolFor(visit.intent)

\* "Keep one persona from opening consecutive backstage threads": none opens
\* one behind its own, though its call may be minutes old, unless the threads
\* in between were deleted since.
BackstageRotates ==
  published # NoPost /\ published.place = Backstage /\ ~ published.cleared =>
    published.latest # "self"

VisitsKeepToPlan == PlanFits /\ WithinOffer /\ BackstageRotates
=============================================================================
