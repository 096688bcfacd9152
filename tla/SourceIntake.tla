---------------------------- MODULE SourceIntake ----------------------------
(***************************************************************************)
(* orbench intake: source_intake.collect fetches every enabled feed,       *)
(* merges the entries by identity, compares them with yesterday's bundle   *)
(* and write_bundle stores intake.json, review_queue.jsonl and the         *)
(* manifest, one after the other; bind_paper ties a queued item to a       *)
(* paper.  The invocations of one day (the daily job, an operator who      *)
(* repeats it) share that day's directory without a lock, and any of them  *)
(* may be killed.                                                          *)
(*                                                                         *)
(* The digest of a document is the document.  A feed's answer is a set of  *)
(* parsed entries: url is the form of the link (the same work has an http  *)
(* and an https form), id its external id, text its summary, longer when   *)
(* the number is larger.                                                   *)
(***************************************************************************)
EXTENDS Naturals, Sequences, FiniteSets, FiniteSetsExt, Functions

CONSTANTS
  Procs,       \* invocations a day may see
  Configs,     \* feed configurations: sequences of [id, kind, url, enabled], in
               \* the order of the ids, as collect visits them
  Listings,    \* Listings[id]: the entry sets feed id may answer with
  Https,       \* Https[u]: the form arXiv links are brought to
  Days,        \* bound: days in a row the job is scheduled
  Stamps,      \* values created_at may have within a day
  None

ASSUME DaysAssumption == Days \in Nat \ {0}

FeedSpecs == UNION {Range(feeds) : feeds \in Configs}
ASSUME ConfigAssumption == Configs \subseteq Seq(FeedSpecs)

VARIABLES
  today,       \* the day, 1..Days
  config,      \* the feed configuration
  file,        \* file[d][x]: artifact x of day d's bundle, if it is there
  at,          \* at[p]: where invocation p stands, and its local variables
  binding      \* the paper-provenance.json an operator binds, {} before

vars == <<today, config, file, at, binding>>

\* The order of write_bundle: the manifest last.
Artifacts == <<"intake", "queue", "manifest">>
Kinds == {"rss", "arxiv", "github"}

-----------------------------------------------------------------------------
(* Configuration: validate_feed_url, FeedSpec.from_mapping, load_feed_config *)

ValidFeed(feed) == feed.kind \in Kinds /\ feed.url = "public"
ValidConfig(feeds) ==
  /\ feeds # <<>>
  /\ \A i \in DOMAIN feeds : ValidFeed(feeds[i])
  /\ \A i, j \in DOMAIN feeds : feeds[i].id = feeds[j].id => i = j

-----------------------------------------------------------------------------
(* Entries: _canonical_url, _identity, _item_from_group *)

\* Only in arXiv feeds are the two forms of a link one.
CanonicalUrl(kind, url) ==
  IF kind = "arxiv" /\ url # None THEN Https[url] ELSE url

\* Parsing adds the feed an entry came from.
Parsed(feed, entry) ==
  [feed |-> feed.id, kind |-> feed.kind, id |-> entry.id, text |-> entry.text,
   url |-> CanonicalUrl(feed.kind, entry.url)]

Identity(entry) ==
  IF entry.url # None THEN <<"url", entry.url>>
  ELSE IF entry.id # None THEN <<entry.kind, entry.id>>
  ELSE <<"text", entry.kind>>

\* The richest text is kept, with every feed that listed the entry.
Content(group) == [text |-> Max({entry.text : entry \in group}),
                   feeds |-> {entry.feed : entry \in group}]
Grouped(entries) ==
  [i \in {Identity(entry) : entry \in entries} |->
     Content({entry \in entries : Identity(entry) = i})]

\* Mutant: a known identity is a duplicate, whatever its content.
DedupeStatusByKey(previous, i, content) ==
  IF i \notin DOMAIN previous THEN "new" ELSE "duplicate"

DedupeStatus(previous, i, content) ==
  IF i \notin DOMAIN previous THEN "new"
  ELSE IF previous[i] = content THEN "duplicate" ELSE "updated"

-----------------------------------------------------------------------------
(* The documents *)

\* intake.json, and with it the queue: the items that are new or updated.
Intake(local) ==
  LET items == Grouped(local.entries) IN
  [day |-> today, created |-> local.created, feeds |-> local.feeds,
   items |-> items,
   status |-> [i \in DOMAIN items |-> DedupeStatus(local.previous, i, items[i])]]

Queue(intake) ==
  LET pending == {i \in DOMAIN intake.items : intake.status[i] # "duplicate"}
  IN  {<<i, intake.items[i]>> : i \in pending}

\* intake_id binds the date, the configuration (here there is one) and the snapshot;
\* it leaves out the time of day and the labels.
IntakeId(intake) == <<intake.day, intake.feeds, intake.items>>

Manifest(intake) == [id |-> IntakeId(intake), intake |-> intake,
                     queue |-> Queue(intake)]

Bundle(intake) == [intake |-> intake, queue |-> Queue(intake),
                   manifest |-> Manifest(intake)]

\* What bind_paper requires of a bundle before it looks at an item.
Complete(d) == Range(Artifacts) \subseteq DOMAIN file[d]
Contract(d) ==
  /\ Complete(d)
  /\ file[d].manifest.id = IntakeId(file[d].intake)
  /\ file[d].manifest.intake = file[d].intake
  /\ file[d].manifest.queue = file[d].queue
  /\ Queue(file[d].intake) = file[d].queue

-----------------------------------------------------------------------------
Nothing == [x \in {} |-> None]     \* no items, no documents
Idle == [pc |-> "idle", previous |-> Nothing, next |-> 1, feeds |-> <<>>,
         entries |-> {}, created |-> None, bundle |-> Nothing, written |-> 0]

Init ==
  /\ today = 1 /\ config \in Configs
  /\ file = [d \in 1..Days |-> Nothing]
  /\ at = [p \in Procs |-> Idle]
  /\ binding = {}

\* load_feed_config and the checks of collect, then _load_previous: yesterday's
\* intake.json alone, whatever became of the rest of its bundle.
Collect(p) ==
  /\ at[p].pc = "idle"
  /\ \E created \in Stamps :
       at' = [at EXCEPT ![p] =
         IF ~ValidConfig(config) THEN [@ EXCEPT !.pc = "refused"]
         ELSE IF today = 1 THEN [@ EXCEPT !.pc = "fetch", !.created = created]
         ELSE IF "intake" \notin DOMAIN file[today - 1]
              THEN [@ EXCEPT !.pc = "refused"]
         ELSE [@ EXCEPT !.pc = "fetch", !.created = created,
                        !.previous = file[today - 1].intake.items]]
  /\ UNCHANGED <<today, config, file, binding>>

Feed(p) == config[at[p].next]
Fetching(p) == at[p].pc = "fetch" /\ at[p].next <= Len(config)

\* The record of one feed; the entries it gave are added to the others'.
Record(p, status, entries) ==
  /\ at' = [at EXCEPT ![p].next = @ + 1, ![p].feeds = Append(@, status),
                      ![p].entries = @ \cup {Parsed(Feed(p), e) : e \in entries}]
  /\ UNCHANGED <<today, config, file, binding>>

SkipFeed(p) == Fetching(p) /\ ~Feed(p).enabled /\ Record(p, "disabled", {})

FetchFeed(p) ==
  /\ Fetching(p) /\ Feed(p).enabled
  /\ \E entries \in Listings[Feed(p).id] : Record(p, "ok", entries)

\* Mutant: a failing feed discards what was collected so far.
FetchFailsErases(p) ==
  /\ Fetching(p) /\ Feed(p).enabled
  /\ at' = [at EXCEPT ![p].next = @ + 1, ![p].feeds = Append(@, "error"),
                      ![p].entries = {}]
  /\ UNCHANGED <<today, config, file, binding>>

\* A failed request, a large or unreadable answer.
FetchFails(p) == Fetching(p) /\ Feed(p).enabled /\ Record(p, "error", {})

\* _check_existing over the three paths.
Conflict(d, bundle) ==
  \E x \in DOMAIN bundle \cap DOMAIN file[d] : file[d][x] # bundle[x]

Preflight(p) ==
  LET bundle == Bundle(Intake(at[p])) IN
  /\ at[p].pc = "fetch" /\ at[p].next > Len(config)
  /\ at' = [at EXCEPT ![p] =
              [Idle EXCEPT !.pc = IF Conflict(today, bundle)
                                  THEN "refused" ELSE "look",
                           !.bundle = bundle]]
  /\ UNCHANGED <<today, config, file, binding>>

\* The directory once x is replaced, or made
Stored(there, x, document) ==
  [y \in DOMAIN there \cup {x} |-> IF y = x THEN document ELSE there[y]]

Path(p) == Artifacts[at[p].written + 1]
Advance(p) ==
  at' = [at EXCEPT ![p].written = @ + 1,
                   ![p].pc = IF at[p].written = 2 THEN "done" ELSE "look"]

\* _write_atomic_if_same: the path is looked at, and replaced in a later step.
Look(p) ==
  LET there == Path(p) \in DOMAIN file[today]
      same == file[today][Path(p)] = at[p].bundle[Path(p)]
  IN /\ at[p].pc = "look"
     /\ \/ ~there /\ at' = [at EXCEPT ![p].pc = "replace"]
        \/ there /\ same /\ Advance(p)
        \/ there /\ ~same /\ at' = [at EXCEPT ![p].pc = "refused"]
     /\ UNCHANGED <<today, config, file, binding>>

Replace(p) ==
  /\ at[p].pc = "replace"
  /\ file' = [file EXCEPT ![today] = Stored(@, Path(p), at[p].bundle[Path(p)])]
  /\ Advance(p)
  /\ UNCHANGED <<today, config, binding>>

Ended(p) == at[p].pc \in {"refused", "done", "killed"}

Kill(p) ==
  /\ at[p].pc # "idle" /\ ~Ended(p)
  /\ at' = [at EXCEPT ![p] = [Idle EXCEPT !.pc = "killed", !.bundle = at[p].bundle]]
  /\ UNCHANGED <<today, config, file, binding>>

\* The next day's job starts after the last invocation of this day ended.
NextDay ==
  /\ today < Days /\ \A p \in Procs : at[p].pc = "idle" \/ Ended(p)
  /\ today' = today + 1
  /\ at' = [p \in Procs |-> Idle]
  /\ UNCHANGED <<config, file, binding>>

\* Mutant: the digests of the bundle are not compared.
BindableUnchecked(d, i) ==
  /\ Complete(d) /\ i \in DOMAIN file[d].intake.items
  /\ \E row \in file[d].queue : row[1] = i

\* bind_paper: one pending row of a bundle that keeps the contract, with the same
\* metadata in both documents.
Bindable(d, i) ==
  /\ Contract(d)
  /\ i \in DOMAIN file[d].intake.items
  /\ <<i, file[d].intake.items[i]>> \in file[d].queue

\* An existing provenance file is never replaced by another.
BindPaper(d, i) ==
  LET paper == [day |-> d, item |-> i, id |-> IntakeId(file[d].intake),
                content |-> file[d].intake.items[i]] IN
  /\ Bindable(d, i)
  /\ i[1] = "url" /\ binding \subseteq {paper}
  /\ binding' = {paper}
  /\ UNCHANGED <<today, config, file, at>>

-----------------------------------------------------------------------------
Next ==
  \/ \E p \in Procs :
       \/ Collect(p) \/ SkipFeed(p) \/ FetchFeed(p) \/ FetchFails(p)
       \/ Preflight(p) \/ Look(p) \/ Replace(p) \/ Kill(p)
  \/ NextDay
  \/ \E d \in 1..Days :
       Complete(d) /\ \E i \in DOMAIN file[d].intake.items : BindPaper(d, i)

Spec == Init /\ [][Next]_vars

-----------------------------------------------------------------------------
(* Properties *)

\* Every invocation has a record for each feed it passed and for no other; the
\* artifacts of a day appear in the order they are written.
TypeOK ==
  /\ today \in 1..Days
  /\ \A p \in Procs :
       /\ at[p].pc \in {"idle", "fetch", "look", "replace", "refused", "done",
                        "killed"}
       /\ Len(at[p].feeds) = at[p].next - 1 /\ at[p].next <= Len(config) + 1
       /\ at[p].written \in 0..3
  /\ \A d \in 1..Days :
       LET there == DOMAIN file[d] IN
       /\ "queue" \in there => "intake" \in there
       /\ "manifest" \in there => "queue" \in there
       /\ d > today => there = {}

\* Deduplication loses nothing and repeats nothing: when every bundle up to a day
\* keeps its digest contract, an item labelled "duplicate" was put before a human
\* with exactly this content on an earlier day, and no row of one day's queue is
\* repeated on the next.
QueueExact ==
  \A d \in 2..Days :
    (\A e \in 1..d : Contract(e)) =>
      /\ \A i \in DOMAIN file[d].intake.items :
           file[d].intake.status[i] = "duplicate" =>
             \E e \in 1..d - 1 : <<i, file[d].intake.items[i]>> \in file[e].queue
      /\ file[d].queue \cap file[d - 1].queue = {}

\* A paper is bound to metadata one collection asked a human about: an invocation
\* of that day found exactly this snapshot and queued this item of it, also when
\* two invocations wrote into one directory.
BindingQueued ==
  \A paper \in binding : paper.day = today =>
    \E p \in Procs : LET bundle == at[p].bundle IN
      /\ bundle # Nothing
      /\ IntakeId(bundle.intake) = paper.id
      /\ <<paper.item, paper.content>> \in bundle.queue

\* A failing feed takes nothing from the others: what a successful feed listed is
\* in the snapshot under that feed's name, and the failed feed is named.
FailureContained ==
  TypeOK /\ \A d \in 1..Days : "intake" \in DOMAIN file[d] =>
    LET intake == file[d].intake
        listed == UNION {intake.items[i].feeds : i \in DOMAIN intake.items}
    IN
    \A n \in DOMAIN config :
      /\ intake.feeds[n] # "ok" => config[n].id \notin listed
      /\ intake.feeds[n] = "ok" /\ {} \notin Listings[config[n].id]
           => config[n].id \in listed
=============================================================================
