-------------------------------- MODULE Websites --------------------------------
(***************************************************************************)
(* Generated web pages (deaddit/websites/): the proposal of a visit and    *)
(* its single billed generation, the contract the document must keep, the  *)
(* public address, the file, the row, and the route that serves it.        *)
(*                                                                         *)
(* The visit's call works without a transaction until its last commit, so  *)
(* two calls may choose one address; the unique index on public_path lets  *)
(* one of them in.  A reader finds the row first and opens its file later, *)
(* while an administrator deletes the post and the address goes to a new   *)
(* page.                                                                   *)
(***************************************************************************)
EXTENDS Integers, Sequences, FiniteSets, Functions

CONSTANTS
  Writers,      \* calls of create_website, one of each visit
  Documents,    \* what the model may send: [finish, form, elements]
  Hints,        \* hostname hints: [scheme, creds, host, port, tail]
  Slug,         \* the page name that the calls ask for
  Tokens,       \* secrets.token_hex(3)
  OldAddresses, \* of pages from before
  MaxDoings     \* reads, sweeps, deletes and deaths: bound of the model

VARIABLES
  site,         \* the call of each writer
  siteRows,     \* the writers whose GeneratedWebsite row is there
  addressOf,    \* the public_path each of them was given
  pagesDir,     \* files in pages/: name -> document, as a set of pairs
  tmpDir,       \* files in tmp/
  shots,        \* screenshots in the media directory, each by the writer of its page
  shotRows,     \* the posts with a PostImage row for one
  removing,     \* the writer whose post is being deleted, and the files to go with it
  sweep,        \* reconcile-websites --apply: the rows it read, the files it will delete
  sweptUnseen,  \* history: pages deleted by a sweep that had not seen their row
  missed,       \* history: screenshots attached while a delete had already looked
  reader,       \* a request for a page: the row it found
  shown,        \* what the reader got
  doings        \* reads, sweeps, deletes and deaths so far

media == <<shots, shotRows, missed>>
sweepVars == <<sweep, sweptUnseen>>
reading == <<reader, shown>>
siteVars == <<site, siteRows, addressOf, pagesDir, tmpDir, media, removing, sweepVars, reading, doings>>

NoPage == [page |-> "none"]
NoDocument == [finish |-> "none"]
Proposal == [step |-> "idle", doc |-> NoDocument, host |-> "none", billed |-> FALSE]

WebsitesInit ==
  /\ site = [w \in Writers |-> Proposal]
  /\ siteRows = {} /\ addressOf = [w \in Writers |-> NoPage]
  /\ pagesDir = {} /\ tmpDir = {}
  /\ shots = {} /\ shotRows = {} /\ missed = {}
  /\ sweep = {} /\ sweptUnseen = {}
  /\ removing = {} /\ reader = {} /\ shown = {} /\ doings = 0

-----------------------------------------------------------------------------
(* The contract of a document *)

BannedTags ==
  {"iframe", "object", "embed", "form", "video", "audio", "source", "track", "link",
   "base", "applet", "frame", "frameset", "portal"}

\* The part of an attribute's name after a namespace.
LocalName(name) == IF name = "xlink:href" THEN "href" ELSE name

\* _RESOURCE_ATTRS and _SRCSET_ATTR.  What other attributes hold (a style, a ping) the
\* check does not look at; the model gives addresses to these only.
ResourceAttributes == {"src", "href", "poster", "data", "action", "formaction", "srcset"}

ASSUME WebsitesAssumption ==
  /\ MaxDoings \in Nat
  /\ \A doc \in Documents : \A e \in doc.elements : \A a \in Range(e.attrs) :
       "away" \in Range(a.uris) => LocalName(a.name) \in ResourceAttributes

\* Where a resource may come from: the page itself.
StaysHere(uri) == uri \in {"none", "data", "fragment", "javascript", "mailto"}

\* The values an attribute check looks at.
\* Mutant: a later spelling of the name hides an earlier one.
CheckedLast(attrs) ==
  {a \in Range(attrs) : \A k \in DOMAIN attrs :
     LocalName(attrs[k].name) = LocalName(a.name) =>
       \E j \in DOMAIN attrs : j >= k /\ attrs[j] = a}
Checked(attrs) == Range(attrs)

\* _check: the first hit unwinds the parser.
Breaks(e) ==
  \/ e.tag \in BannedTags
  \/ e.tag = "meta" /\ \E a \in Checked(e.attrs) : LocalName(a.name) = "http-equiv"
  \/ e.tag = "script" /\ \E a \in Checked(e.attrs) : LocalName(a.name) = "src"
  \/ \E a \in Checked(e.attrs) :
       /\ LocalName(a.name) \in ResourceAttributes
       /\ ~(e.tag = "a" /\ LocalName(a.name) = "href")
       /\ \E uri \in Range(a.uris) : ~StaysHere(uri)

\* _validate_html: one whole page of the allowed size, and nothing that it forbids.
Valid(doc) == doc.form = "page" /\ \A e \in doc.elements : ~Breaks(e)

-----------------------------------------------------------------------------
(* Hints *)

Rejected == "rejected"

\* normalize_hostname_hint: a scheme, a port and what follows the host are cut off;
\* credentials, literals and bad labels are refused.
NormalHost(h) ==
  IF h.creds \/ h.host \in {"literal", "badLabel"} \/ h.port = "word" THEN Rejected ELSE h.host

Base(w) == [page |-> Slug, host |-> site[w].host, token |-> "plain"]
Candidates(w) == {[Base(w) EXCEPT !.token = t] : t \in Tokens}
IsTaken(p) == p \in OldAddresses \/ \E w \in siteRows : addressOf[w] = p

-----------------------------------------------------------------------------
(* The call *)

Counted == doings < MaxDoings /\ doings' = doings + 1
Put(w, step) == site' = [site EXCEPT ![w].step = step]
Closes(w, step) == site' = [site EXCEPT ![w] = [Proposal EXCEPT !.step = step, !.billed = TRUE]]
FailsBilled(w) == Closes(w, "failed")

\* Refused before anything is spent: banned words, an unknown community, the limit.
Propose(w) ==
  /\ site[w].step = "idle"
  /\ Put(w, "generating")
  /\ UNCHANGED <<siteRows, addressOf, pagesDir, tmpDir, media, removing, sweepVars,
                 reading, doings>>

\* The document arrives in time, whole, valid and with an address it may have; or the
\* attempt was spent for nothing.
Receive(w, doc, h, late) ==
  /\ site[w].step = "generating"
  /\ IF late \/ doc.finish = "length" \/ ~Valid(doc) \/ NormalHost(h) = Rejected
     THEN FailsBilled(w)
     ELSE site' = [site EXCEPT ![w] = [step |-> "addressing", doc |-> doc,
                                       host |-> NormalHost(h), billed |-> TRUE]]
  /\ UNCHANGED <<siteRows, addressOf, pagesDir, tmpDir, media, removing, sweepVars,
                 reading, doings>>

\* allocate_public_path: the plain address, or one with a token, as the table stands.
Allocate(w) ==
  /\ site[w].step = "addressing"
  /\ \/ \E p \in IF IsTaken(Base(w)) THEN {c \in Candidates(w) : ~IsTaken(c)} ELSE {Base(w)} :
          addressOf' = [addressOf EXCEPT ![w] = p] /\ Put(w, "storing")
     \/ /\ IsTaken(Base(w)) /\ \E c \in Candidates(w) : IsTaken(c)
        /\ FailsBilled(w) /\ UNCHANGED addressOf
  /\ UNCHANGED <<siteRows, pagesDir, tmpDir, media, removing, sweepVars, reading, doings>>

\* The name of a page's file: a fresh uuid, here the writer that drew it.
\* Mutant: its address.
FileOfAddress(w) == addressOf[w]
FileOf(w) == [uuid |-> w]

\* store_website: the document is in tmp/ whole before it is renamed into pages/.
WriteTemporary(w) ==
  /\ site[w].step = "storing"
  /\ \/ tmpDir' = tmpDir \cup {w} /\ Put(w, "renaming")
     \/ FailsBilled(w) /\ UNCHANGED tmpDir
  /\ UNCHANGED <<siteRows, addressOf, pagesDir, media, removing, sweepVars, reading, doings>>

Replace(w) ==
  /\ site[w].step = "renaming"
  /\ tmpDir' = tmpDir \ {w}
  /\ \/ /\ pagesDir' = {f \in pagesDir : f.name # FileOf(w)}
                         \cup {[name |-> FileOf(w), by |-> w, doc |-> site[w].doc]}
        /\ Put(w, "stored")
     \/ FailsBilled(w) /\ UNCHANGED pagesDir
  /\ UNCHANGED <<siteRows, addressOf, media, removing, sweepVars, reading, doings>>

\* What _cleanup_stored_website leaves; a failure of its own, only logged, is left out.
\* Mutant: nothing is cleaned up.
CleanedNothing(w) == pagesDir
Cleaned(w) == {f \in pagesDir : f.name # FileOf(w)}

\* create_website_post: the row, when the preflight still holds and nobody has taken
\* the address since.
CommitSite(w) ==
  /\ site[w].step = "stored"
  /\ \/ /\ ~IsTaken(addressOf[w])
        /\ siteRows' = siteRows \cup {w} /\ Put(w, "posted") /\ UNCHANGED pagesDir
     \/ FailsBilled(w) /\ pagesDir' = Cleaned(w) /\ UNCHANGED siteRows
  /\ UNCHANGED <<addressOf, tmpDir, media, removing, sweepVars, reading, doings>>

-----------------------------------------------------------------------------
(* The screenshot, after the post is there *)

\* attach_website_screenshot: not without a browser, not if there is an image.
Render(w) ==
  /\ site[w].step = "posted" /\ w \notin shotRows
  /\ \/ shots' = shots \cup {w} /\ Put(w, "rendered")
     \/ UNCHANGED shots /\ Closes(w, "done")
  /\ UNCHANGED <<siteRows, addressOf, pagesDir, tmpDir, shotRows, missed, removing,
                 sweepVars, reading, doings>>

\* The variants that a refused PostImage leaves behind.
\* Mutant: they stay.
WithoutShotKept(w) == shots
WithoutShot(w) == shots \ {w}

\* The commit; the post's foreign key refuses it once the post is gone.
CommitScreenshot(w) ==
  /\ site[w].step = "rendered"
  /\ \/ /\ w \in siteRows
        /\ shotRows' = shotRows \cup {w} /\ UNCHANGED shots
        /\ missed' = IF \E r \in removing : r.of = w THEN missed \cup {w} ELSE missed
     \/ shots' = WithoutShot(w) /\ UNCHANGED <<shotRows, missed>>
  /\ Closes(w, "done")
  /\ UNCHANGED <<siteRows, addressOf, pagesDir, tmpDir, removing, sweepVars, reading, doings>>

\* The process of the visit ends in the middle of the call.
WriterDies(w) ==
  /\ site[w].step \in {"generating", "addressing", "storing", "renaming", "stored", "rendered"}
  /\ Put(w, "died") /\ Counted
  /\ UNCHANGED <<siteRows, addressOf, pagesDir, tmpDir, media, removing, sweepVars, reading>>

-----------------------------------------------------------------------------
(* Deleting, sweeping and reading *)

\* api_delete_post lists the files of the post before anything is written ...
LookUpFiles(w) ==
  /\ w \in siteRows /\ removing = {} /\ Counted
  /\ removing' = {[of |-> w, file |-> FileOf(w), shot |-> w \in shotRows]}
  /\ UNCHANGED <<site, siteRows, addressOf, pagesDir, tmpDir, media, sweepVars, reading>>

\* ... the post goes with its rows ...
RemovePost ==
  /\ \E r \in removing : r.of \in siteRows
  /\ siteRows' = siteRows \ {r.of : r \in removing}
  /\ shotRows' = shotRows \ {r.of : r \in removing}
  /\ UNCHANGED <<site, addressOf, pagesDir, tmpDir, shots, missed, removing, sweepVars,
                 reading, doings>>

\* ... and the files after the commit.
RemoveFiles ==
  /\ removing # {} /\ \A r \in removing : r.of \notin siteRows
  /\ pagesDir' = {f \in pagesDir : \A r \in removing : f.name # r.file}
  /\ shots' = shots \ {r.of : r \in {q \in removing : q.shot}}
  /\ removing' = {}
  /\ UNCHANGED <<site, siteRows, addressOf, tmpDir, shotRows, missed, sweepVars, reading,
                 doings>>

\* reconcile-websites --apply: the rows, all at once ...
ReadRows ==
  /\ sweep = {} /\ Counted
  /\ sweep' = {[seen |-> siteRows, scanned |-> FALSE, orphans |-> {}]}
  /\ UNCHANGED <<site, siteRows, addressOf, pagesDir, tmpDir, media, removing, sweptUnseen,
                 reading>>

\* The files in pages/ that none of the rows read names; tmp/ is not looked at.
\* Mutant: the rows' paths start at the root, the files' names are taken in pages/.
OrphansNamed(seen) == {f \in pagesDir : \A w \in seen : f.name # [pages |-> FileOf(w)]}
Orphans(seen) == {f \in pagesDir : \A w \in seen : f.name # FileOf(w)}

\* ... the scan ...
ScanPages ==
  /\ \E r \in sweep : ~r.scanned
  /\ sweep' = {[r EXCEPT !.scanned = TRUE, !.orphans = {f.name : f \in Orphans(r.seen)}] :
                 r \in sweep}
  /\ UNCHANGED <<site, siteRows, addressOf, pagesDir, tmpDir, media, removing, sweptUnseen,
                 reading, doings>>

\* ... and the deletes.
DeleteOrphans ==
  /\ \E r \in sweep :
       /\ r.scanned
       /\ pagesDir' = {f \in pagesDir : f.name \notin r.orphans}
       /\ sweptUnseen' = sweptUnseen
                           \cup {f.by : f \in {x \in pagesDir \ pagesDir' : x.by \notin r.seen}}
  /\ sweep' = {}
  /\ UNCHANGED <<site, siteRows, addressOf, tmpDir, media, removing, reading, doings>>

\* page(): the row of the address; without one, nothing is opened.
FindRow(w) ==
  /\ w \in siteRows /\ reader = {} /\ Counted
  /\ reader' = {[row |-> w, file |-> FileOf(w)]}
  /\ UNCHANGED <<site, siteRows, addressOf, pagesDir, tmpDir, media, removing, sweepVars,
                 shown>>

\* The file under the row's name, with the bar of the row's post; 404 without it.
ServePage ==
  /\ reader # {}
  /\ shown' = UNION {{[row |-> r.row, by |-> f.by, doc |-> f.doc] :
                        f \in {g \in pagesDir : g.name = r.file}} : r \in reader}
  /\ reader' = {}
  /\ UNCHANGED <<site, siteRows, addressOf, pagesDir, tmpDir, media, removing, sweepVars,
                 doings>>

WebsitesNext ==
  \/ \E w \in Writers :
       \/ Propose(w) \/ Allocate(w) \/ WriteTemporary(w) \/ Replace(w) \/ CommitSite(w)
       \/ Render(w) \/ CommitScreenshot(w) \/ WriterDies(w) \/ LookUpFiles(w) \/ FindRow(w)
       \/ \E doc \in Documents, h \in Hints, late \in BOOLEAN : Receive(w, doc, h, late)
  \/ RemovePost \/ RemoveFiles \/ ReadRows \/ ScanPages \/ DeleteOrphans \/ ServePage

WebsitesSpec == WebsitesInit /\ [][WebsitesNext]_siteVars

-----------------------------------------------------------------------------
(* Properties *)

\* The types of the calls, the table, the files and the reader.
WebsitesTypeOK ==
  /\ \A w \in Writers :
       /\ site[w].step \in {"idle", "generating", "addressing", "storing", "renaming",
                            "stored", "posted", "rendered", "done", "failed", "died"}
       /\ site[w].doc \in Documents \cup {NoDocument} /\ site[w].billed \in BOOLEAN
  /\ UNION {siteRows, tmpDir, shots, shotRows, missed, sweptUnseen} \subseteq Writers
  /\ \A f \in pagesDir : f.by \in Writers /\ f.doc \in Documents
  /\ Cardinality(removing) <= 1 /\ Cardinality(reader) <= 1 /\ Cardinality(sweep) <= 1
  /\ doings \in 0..MaxDoings

\* What a browser would fetch from elsewhere, or run a frame for.
Fetches(e) ==
  \/ e.tag \in {"iframe", "object", "embed", "frame", "portal"}
  \/ e.tag # "a" /\ \E a \in Range(e.attrs) : "away" \in Range(a.uris)

\* A link leads to one page only, and a reader sees the page of the post that the
\* bar above it names, however posts come and go between the lookup and the read.
ServedAsNamed ==
  /\ \A v, w \in siteRows : addressOf[v] = addressOf[w] => v = w
  /\ \A s \in shown : s.by = s.row

\* No file in pages/ asks a browser to load anything from elsewhere, or is cut off.
FilesSelfContained ==
  \A f \in pagesDir : f.doc.form = "page" /\ f.doc.finish # "length"
                        /\ \A e \in f.doc.elements : ~Fetches(e)

\* A page without a row belongs to a call under way, to one whose process ended, or to
\* a delete that has not come to it: a call that lost its address leaves no page.
PagesAccounted ==
  \A f \in pagesDir :
    \/ f.by \in siteRows
    \/ site[f.by].step \in {"stored", "died"}
    \/ \E r \in removing : r.of = f.by

\* A post's page stays: only a sweep can take it, and only from a post that was
\* committed after the sweep had read the rows.
RowsHavePages == \A w \in siteRows : (\E f \in pagesDir : f.by = w) \/ w \in sweptUnseen

\* A screenshot without a row belongs to a call under way or ended, or to a delete in
\* progress, or it was attached while a delete had already listed the post's files:
\* that one nobody takes away.
ShotsAccounted ==
  \A w \in shots :
    \/ w \in shotRows \cup missed
    \/ site[w].step \in {"rendered", "died"}
    \/ \E r \in removing : r.of = w

\* A finished attempt that spent a generation says so, which is what the limit of one
\* attempt a visit counts; a file in tmp/ belongs to one under way or to a crash.
AttemptsBilled ==
  \A w \in Writers :
    /\ site[w].step \in {"stored", "posted", "rendered", "done", "failed"} => site[w].billed
    /\ w \in tmpDir => site[w].step \in {"renaming", "died"}

WebsitesSound ==
  /\ ServedAsNamed /\ FilesSelfContained /\ PagesAccounted /\ RowsHavePages /\ ShotsAccounted
  /\ AttemptsBilled
=============================================================================
