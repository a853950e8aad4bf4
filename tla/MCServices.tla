---------------------------- MODULE MCServices -----------------------------
(***************************************************************************)
(* The services around the community, for TLC: the provider tables, the    *)
(* LLM client, the settings cache, the live ticker's pump and page, the    *)
(* administrator's agent pages, the images of a provider's queue, the      *)
(* stored visit profiles, the plan of a visit and its turns, what a        *)
(* persona remembers, the rows of the user table, the matrix that new      *)
(* personas are drawn from, generated web pages, streamed completions,     *)
(* model routes, and the logs of jobs.                                     *)
(*                                                                         *)
(* The parts keep their state apart, so a behaviour belongs to one of      *)
(* them: only the chosen part moves, the others stay as they started.      *)
(***************************************************************************)
EXTENDS AllServices, TLC

CONSTANTS s1, s2, s3, q1, q2

VARIABLE part

Parts == {"providers", "llm", "settings", "pump", "feed", "agents", "images",
          "profiles", "plan", "accounts", "matrix", "websites", "loop", "memory", "streams",
          "logs", "routing"}

-----------------------------------------------------------------------------
(* Instances *)

\* Two threads of one process, one of another.
ThreadProcess == s1 :> q1 @@ s2 :> q1 @@ s3 :> q2

BothKinds == {{1, 2}}

Plain == [image |-> "off", website |-> "off", min |-> 1, max |-> 2, model |-> "m1"]
SomeKnobs == {Plain, [Plain EXCEPT !.min = 2, !.max = 1]}
SomeUpdates ==
  {[image |-> "only", min |-> 2], [website |-> "only"], [max |-> 1, reset |-> TRUE],
   [tier |-> "lurker", image |-> "off", website |-> "off", model |-> "m2", enabled |-> TRUE],
   [enabled |-> FALSE]}
OneAgent ==
  1 :> [user |-> "u", tier |-> "regular", enabled |-> FALSE, due |-> "none",
        strikes |-> 0, status |-> "idle", config |-> Plain]

AuthoredBody ==
  {[scale |-> "percent", backstage |-> TRUE, comment |-> "own", once |-> TRUE, mix |-> "old"]}

Config(t, i, w) == [tier |-> t, image |-> i, website |-> w]
SomeConfigs ==
  {Config("regular", "off", "off"), Config("regular", "optional", "optional"),
   Config("regular", "only", "off"), Config("regular", "optional", "only"),
   Config("regular", "only", "only"), Config("lurker", "optional", "off")}
SomeMixes ==
  {[post |-> 1, image |-> 1, website |-> 1, backstage |-> 1],
   [post |-> 2, image |-> 0, website |-> 1, backstage |-> 2]}

\* A batch of two personas and one of one.
TwoBatches == <<{1, 2}, {3}>>

\* Bands and sectors of unequal shares, and cards that fit some of the bands.
ThreeBands == <<[low |-> 1, high |-> 3], [low |-> 4, high |-> 6], [low |-> 7, high |-> 9]>>
ThreeSectors == <<"x", "y", "z">>
SomeBandWeights == {<<8, 1, 1>>}
SomeSectorWeights == {<<1, 1, 1>>, <<2, 1, 1>>}
CardOf(s, a, b, l, x) == [sector |-> s, min |-> a, max |-> b, levels |-> l, contexts |-> x]
SixCards ==
  1 :> CardOf("x", 1, 9, {"school", "student"}, {"job", "student"}) @@
  2 :> CardOf("x", 2, 3, {"school", "degree"}, {"job"}) @@
  3 :> CardOf("y", 1, 9, {"school"}, {"job", "retired"}) @@
  4 :> CardOf("x", 1, 3, {"degree"}, {"job"}) @@
  5 :> CardOf("z", 5, 9, {"degree"}, {"job", "retired"}) @@
  6 :> CardOf("y", 4, 6, {"school"}, {"job"})
SomeLevels == "school" :> 0 @@ "student" :> 0 @@ "degree" :> 3
SomeContexts ==
  "job" :> [min |-> 0, max |-> 9] @@ "student" :> [min |-> 0, max |-> 9]
    @@ "retired" :> [min |-> 6, max |-> 9]

\* Documents that keep the contract in every way, or break it in one.
Attr(name, uris) == [name |-> name, uris |-> uris]
Element(tag, attrs) == [tag |-> tag, attrs |-> attrs]
Document(finish, form, elements) == [finish |-> finish, form |-> form, elements |-> elements]
SomeDocuments ==
  {Document("stop", "page", {Element("a", <<Attr("href", <<"away">>)>>),
                             Element("img", <<Attr("src", <<"data">>)>>)}),
   Document("stop", "page", {Element("image", <<Attr("xlink:href", <<"away">>),
                                                Attr("href", <<"data">>)>>)}),
   Document("stop", "page", {Element("img", <<Attr("srcset", <<"data", "away">>)>>)}),
   Document("stop", "page", {Element("iframe", << >>)}),
   Document("length", "page", {}), Document("stop", "fenced", {})}
SomeAddresses == {[page |-> "s", host |-> "h", token |-> "t1"]}
Hint(creds, host, port) == [creds |-> creds, host |-> host, port |-> port]
SomeHints ==
  {Hint(FALSE, "h", "none"), Hint(FALSE, "h", "digits"), Hint(TRUE, "h", "none"),
   Hint(FALSE, "literal", "none")}

\* What a model asks for in its turns, and what the persona wrote before.
Call(name, text) == [name |-> name, text |-> text]
SomeRequests ==
  {Call("create_comment", "lol"), Call("create_comment", "long"), Call("create_post", "long"),
   Call("finish", "-")}
OnePost == {<<[kind |-> "post", text |-> "long"]>>}

-----------------------------------------------------------------------------

ServicesInit ==
  /\ part \in Parts
  /\ ProvidersInit(IF part = "providers" THEN {"llm", "image"} ELSE {"llm"})
  /\ (part # "settings" => committer = q1) /\ SettingsInit
  /\ LlmInit /\ PumpInit /\ FeedInit /\ AdminInit
  /\ ImageInit
  /\ (part # "profiles" => revision = 1 /\ pinned = Unpinned) /\ ProfilesInit
  /\ (part # "plan" => open = {} /\ subscribed = {} /\ threads = << >>
                         /\ agentConfig = Config("regular", "off", "off"))
  /\ PlanInit /\ AccountsInit
  /\ WebsitesInit
  /\ (part # "loop" => quota = 1) /\ LoopInit
  /\ (part # "memory" => items = 0) /\ MemoryInit
  /\ StreamInit /\ (part # "streams" => ~streamRow.there)
  /\ LogInit /\ RoutingInit
  /\ (part # "matrix" => size = 3 /\ history = {} /\ pull \in {CHOOSE p \in Pulls : TRUE})
  /\ MatrixInit

servicesVars == <<part, providerVars, llmVars, settingsVars, pumpVars, feedVars, adminVars,
                 imageVars, profileVars, planVars, accountVars, matrixVars, siteVars, loopVars, memoryVars,
                 streamVars, logVars, routingVars>>

ServicesNext ==
  /\ part' = part
  /\ part # "providers" => UNCHANGED providerVars
  /\ part # "llm" => UNCHANGED llmVars
  /\ part # "settings" => UNCHANGED settingsVars
  /\ part # "pump" => UNCHANGED pumpVars
  /\ part # "feed" => UNCHANGED feedVars
  /\ part # "agents" => UNCHANGED adminVars
  /\ part # "images" => UNCHANGED imageVars
  /\ part # "profiles" => UNCHANGED profileVars
  /\ part # "plan" => UNCHANGED planVars
  /\ part # "accounts" => UNCHANGED accountVars
  /\ part # "matrix" => UNCHANGED matrixVars
  /\ part # "websites" => UNCHANGED siteVars
  /\ part # "loop" => UNCHANGED loopVars
  /\ part # "memory" => UNCHANGED memoryVars
  /\ part # "streams" => UNCHANGED streamVars
  /\ part # "logs" => UNCHANGED logVars
  /\ part # "routing" => UNCHANGED routingVars
  /\ \/ part = "providers" /\ ProvidersNext
     \/ part = "llm" /\ LlmNext
     \/ part = "settings" /\ SettingsNext
     \/ part = "pump" /\ PumpNext
     \/ part = "feed" /\ FeedNext
     \/ part = "agents" /\ AdminNext
     \/ part = "images" /\ ImageNext
     \/ part = "profiles" /\ ProfilesNext
     \/ part = "plan" /\ PlanNext
     \/ part = "accounts" /\ AccountsNext
     \/ part = "matrix" /\ MatrixNext
     \/ part = "websites" /\ WebsitesNext
     \/ part = "loop" /\ LoopNext
     \/ part = "memory" /\ MemoryNext
     \/ part = "streams" /\ StreamNext
     \/ part = "logs" /\ LogNext
     \/ part = "routing" /\ RoutingNext

ServicesSpec == ServicesInit /\ [][ServicesNext]_servicesVars
=============================================================================
