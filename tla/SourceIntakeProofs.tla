--------------------------- MODULE SourceIntakeProofs ---------------------------
(***************************************************************************)
(* Proofs about SourceIntake: for any feeds and answers, any number of     *)
(* days and of invocations that race and die, nothing is queued twice or   *)
(* dropped as a duplicate it never was, a failing feed takes nothing from  *)
(* the others, and a paper is bound to what one invocation queued.         *)
(*                                                                         *)
(* The argument: the days before today are frozen, so every intake.json    *)
(* is labelled against the one that yesterday's directory still holds; an  *)
(* item labelled "duplicate" is then followed back to the first day with   *)
(* its content.                                                            *)
(***************************************************************************)
EXTENDS SourceIntake, SequenceTheorems, WellFoundedInduction, TLAPS

Docs == {"intake", "queue", "manifest"}
Working == {"look", "replace"}

\* A record that has all its fields.
Fields == {"pc", "previous", "next", "feeds", "entries", "created", "bundle", "written"}
IsLocal(l) == l = [f \in Fields |-> l[f]]

\* The items day d is compared with
Before(d) == IF d = 1 THEN Nothing ELSE file[d - 1].intake.items

\* The labels of a snapshot are those the items of the day before give it.
Labelled(intake, previous) ==
  \A i \in DOMAIN intake.items :
    intake.status[i] = DedupeStatus(previous, i, intake.items[i])

ListedBy(entries) == {entry.feed : entry \in entries}
ListedIn(items) == UNION {items[i].feeds : i \in DOMAIN items}

\* The records of the first n feeds agree with the feeds that listed something.
FeedsTrue(feeds, n, listed) ==
  \A k \in 1..n :
    /\ feeds[k] # "ok" => config[k].id \notin listed
    /\ feeds[k] = "ok" /\ {} \notin Listings[config[k].id] => config[k].id \in listed

\* What any intake.json of day d satisfies
IntakeAt(intake, d) ==
  /\ Labelled(intake, Before(d))
  /\ FeedsTrue(intake.feeds, Len(config), ListedIn(intake.items))

BundleAt(bundle, d) == bundle = Bundle(bundle.intake) /\ IntakeAt(bundle.intake, d)

Shape ==
  /\ today \in 1..Days /\ config \in Configs
  /\ file = [d \in 1..Days |-> file[d]] /\ at = [p \in Procs |-> at[p]]

\* What an invocation knows while it fetches
FetchAt(l) ==
  /\ ValidConfig(config)
  /\ l.previous = Before(today)
  /\ FeedsTrue(l.feeds, l.next - 1, ListedBy(l.entries))
  /\ \A entry \in l.entries : \E k \in 1..l.next - 1 : entry.feed = config[k].id

LocalAt(p) ==
  LET l == at[p] IN
  /\ IsLocal(l)
  /\ l.pc \in {"idle", "fetch", "refused", "done", "killed"} \cup Working
  /\ l.next \in 1..Len(config) + 1
  /\ l.feeds \in Seq({"ok", "error", "disabled"}) /\ Len(l.feeds) = l.next - 1
  /\ l.written \in 0..3
  /\ l.pc \in {"idle", "fetch"} => l.bundle = Nothing
  /\ l.pc \in Working =>
       /\ l.written \in 0..2 /\ l.bundle # Nothing
       /\ \A k \in 1..l.written : Artifacts[k] \in DOMAIN file[today]
  /\ l.pc = "idle" => l = Idle
  /\ l.pc = "fetch" => FetchAt(l)
  /\ l.bundle # Nothing => BundleAt(l.bundle, today)

FileAt(d) ==
  LET there == DOMAIN file[d] IN
  /\ there \subseteq Docs
  /\ "queue" \in there => "intake" \in there
  /\ "manifest" \in there => "queue" \in there
  /\ d > today => there = {}
  /\ "intake" \in there => IntakeAt(file[d].intake, d)

\* The intake.json of today is that of one of today's invocations.
Owned ==
  "intake" \in DOMAIN file[today] =>
    \E p \in Procs : /\ at[p].bundle # Nothing
                     /\ at[p].bundle.intake = file[today].intake

\* One of today's invocations queued what the paper is bound to.
AskedToday(paper) ==
  \E p \in Procs : LET bundle == at[p].bundle IN
    /\ bundle # Nothing
    /\ IntakeId(bundle.intake) = paper.id
    /\ <<paper.item, paper.content>> \in bundle.queue

Bound ==
  \A paper \in binding :
    paper.day \in 1..today /\ (paper.day = today => AskedToday(paper))

IndInv ==
  /\ Shape /\ Owned /\ Bound
  /\ \A p \in Procs : LocalAt(p)
  /\ \A d \in 1..Days : FileAt(d)

(***************************************************************************)
(* Operators                                                               *)
(***************************************************************************)
\* A nonempty set of naturals has a smallest element.
LEMMA SmallestExists ==
  ASSUME NEW T, T \subseteq Nat, T # {}
  PROVE  \E x \in T : \A y \in T : x <= y
<1> DEFINE R == OpToRel(<, Nat)
<1>1. \E x \in T : \A y \in T : ~(<<y, x>> \in R)
  <2>1. IsWellFoundedOn(R, Nat)
    BY NatLessThanWellFounded
  <2> HIDE DEF R
  <2> QED  BY <2>1, WFMin
<1>2. \A x, y \in T : ~(<<y, x>> \in R) => x <= y
  BY DEF OpToRel
<1> HIDE DEF R
<1> QED  BY <1>1, <1>2

\* The artifacts in the order write_bundle stores them
LEMMA ArtifactFacts ==
  /\ Artifacts[1] = "intake" /\ Artifacts[2] = "queue" /\ Artifacts[3] = "manifest"
  /\ Range(Artifacts) = Docs
<1>1. DOMAIN Artifacts = {1, 2, 3}
  BY DEF Artifacts
<1>2. Artifacts[1] = "intake" /\ Artifacts[2] = "queue" /\ Artifacts[3] = "manifest"
  BY DEF Artifacts
<1> QED
  BY <1>1, <1>2 DEF Range, Docs

\* A bundle holds all its documents, and so is not the empty one.
LEMMA BundleFacts ==
  ASSUME NEW intake
  PROVE  /\ DOMAIN Bundle(intake) = Docs /\ Bundle(intake) # Nothing
         /\ Bundle(intake).intake = intake
         /\ Bundle(intake).queue = Queue(intake)
<1>1. /\ DOMAIN Bundle(intake) = Docs
      /\ Bundle(intake).intake = intake
      /\ Bundle(intake).queue = Queue(intake)
  BY DEF Bundle, Docs
<1>2. DOMAIN Nothing = {} /\ "intake" \in Docs
  BY DEF Nothing, Docs
<1> QED
  BY <1>1, <1>2

\* Grouping loses no feed and invents none.
LEMMA ListedGrouped ==
  ASSUME NEW entries
  PROVE  ListedIn(Grouped(entries)) = ListedBy(entries)
<1> DEFINE ids == {Identity(entry) : entry \in entries}
           group(i) == {entry \in entries : Identity(entry) = i}
<1>1. /\ DOMAIN Grouped(entries) = ids
      /\ \A i \in ids : Grouped(entries)[i].feeds = {entry.feed : entry \in group(i)}
  BY DEF Grouped, Content
<1>2. \A x \in ListedIn(Grouped(entries)) : x \in ListedBy(entries)
  BY <1>1 DEF ListedIn, ListedBy
<1>3. \A entry \in entries : entry.feed \in ListedIn(Grouped(entries))
  <2> SUFFICES ASSUME NEW entry \in entries
               PROVE  entry.feed \in ListedIn(Grouped(entries))
    OBVIOUS
  <2>1. Identity(entry) \in ids /\ entry \in group(Identity(entry))
    OBVIOUS
  <2> QED
    BY <1>1, <2>1 DEF ListedIn
<1> QED
  BY <1>2, <1>3 DEF ListedBy



\* What an invocation starts from
LEMMA IdleFields ==
  /\ IsLocal(Idle) /\ Idle.pc = "idle" /\ Idle.next = 1 /\ Idle.feeds = <<>>
  /\ Idle.entries = {} /\ Idle.bundle = Nothing /\ Idle.written = 0
  /\ Idle.previous = Nothing
<1>1. Idle = [f \in Fields |-> Idle[f]]
  BY DEF Idle, Fields
<1> QED
  BY <1>1 DEF Idle, IsLocal

\* Feeds have lengths.
LEMMA ConfigTyped ==
  ASSUME Shape
  PROVE  /\ config \in Seq(FeedSpecs) /\ Len(config) \in Nat
         /\ DOMAIN config = 1..Len(config)
         /\ Days \in Nat /\ today \in Nat /\ today > 0 /\ today <= Days
<1>1. config \in Seq(FeedSpecs)
  BY ConfigAssumption DEF Shape
<1> QED
  BY <1>1, LenProperties, DaysAssumption DEF Shape

(***************************************************************************)
(* Steps of one invocation                                                 *)
(***************************************************************************)
\* A step of one invocation changes its own locals only.
LEMMA AtUpdate ==
  ASSUME Shape, NEW p \in Procs, NEW l, at' = [at EXCEPT ![p] = l]
  PROVE  /\ at'[p] = l /\ \A q \in Procs \ {p} : at'[q] = at[q]
         /\ at' = [q \in Procs |-> at'[q]]
BY DEF Shape

\* What is said of files and snapshots stays while nobody writes.
LEMMA FilesKept ==
  ASSUME UNCHANGED <<today, config, file>>
  PROVE  /\ \A d \in 1..Days : FileAt(d) => FileAt(d)'
         /\ \A l : FetchAt(l) => FetchAt(l)'
         /\ \A bundle, d : BundleAt(bundle, d) => BundleAt(bundle, d)'
<1>1. \A d : Before(d)' = Before(d)
  BY DEF Before
<1>2. \A feeds, n, listed : FeedsTrue(feeds, n, listed) => FeedsTrue(feeds, n, listed)'
  BY DEF FeedsTrue
<1>3. \A intake, d : IntakeAt(intake, d) => IntakeAt(intake, d)'
  BY <1>1, <1>2 DEF IntakeAt, Labelled
<1>4. \A bundle, d : BundleAt(bundle, d) => BundleAt(bundle, d)'
  BY <1>3 DEF BundleAt
<1>5. \A l : FetchAt(l) => FetchAt(l)'
  BY <1>1, <1>2 DEF FetchAt
<1>6. \A d \in 1..Days : FileAt(d) => FileAt(d)'
  BY <1>3 DEF FileAt
<1> QED
  BY <1>4, <1>5, <1>6

\* An invocation that does not move knows what it knew, while nobody writes.
LEMMA LocalKept ==
  ASSUME UNCHANGED <<today, config, file>>, NEW q, at'[q] = at[q], LocalAt(q)
  PROVE  LocalAt(q)'
<1>1. Before(today)' = Before(today)
  BY DEF Before
<1>2. at[q].pc = "fetch" => FetchAt(at[q])'
  BY <1>1 DEF LocalAt, FetchAt, FeedsTrue
<1>3. at[q].bundle # Nothing => BundleAt(at[q].bundle, today)'
  BY <1>1 DEF LocalAt, BundleAt, IntakeAt, FeedsTrue, Labelled
<1> QED
  BY <1>2, <1>3 DEF LocalAt

\* A step of p that writes no file and keeps p's bundle
LEMMA LocalStep ==
  ASSUME IndInv, NEW p \in Procs, NEW l, UNCHANGED <<today, config, file, binding>>,
         at' = [at EXCEPT ![p] = l], LocalAt(p)',
         at[p].bundle # Nothing => l.bundle = at[p].bundle
  PROVE  IndInv'
<1>1. /\ at'[p] = l /\ \A q \in Procs \ {p} : at'[q] = at[q]
      /\ at' = [q \in Procs |-> at'[q]]
  BY AtUpdate DEF IndInv
<1>2. Shape'
  BY <1>1 DEF IndInv, Shape
<1>3. \A q \in Procs : at[q].bundle # Nothing => at'[q].bundle = at[q].bundle
  BY <1>1
<1>4. Owned'
  BY <1>3 DEF IndInv, Owned
<1>5. \A paper \in binding : AskedToday(paper) => AskedToday(paper)'
  BY <1>3 DEF AskedToday
<1>6. Bound'
  BY <1>5 DEF IndInv, Bound
<1>7. \A q \in Procs : LocalAt(q)'
  <2> SUFFICES ASSUME NEW q \in Procs, q # p PROVE LocalAt(q)'
    OBVIOUS
  <2> QED
    BY <1>1, LocalKept DEF IndInv
<1>8. \A d \in 1..Days : FileAt(d)'
  BY FilesKept DEF IndInv
<1> QED
  BY <1>2, <1>4, <1>6, <1>7, <1>8 DEF IndInv

\* So does what it has in hand.
LEMMA BundleKept ==
  ASSUME UNCHANGED <<today, config, file>>, NEW bundle, BundleAt(bundle, today)
  PROVE  BundleAt(bundle, today)'
<1>1. Before(today)' = Before(today)
  BY DEF Before
<1> QED
  BY <1>1 DEF BundleAt, IntakeAt, FeedsTrue, Labelled

\* Where an invocation stands that holds nothing but its bundle, if that
LEMMA FreshLocal ==
  ASSUME Len(config) \in Nat, config' = config, NEW p, NEW l, at'[p] = l, IsLocal(l),
         l.pc \in {"look", "refused", "killed"}, l.next = 1, l.feeds = <<>>, l.written = 0,
         l.pc = "look" => l.bundle # Nothing,
         l.bundle # Nothing => BundleAt(l.bundle, today)'
  PROVE  LocalAt(p)'
<1>1. <<>> \in Seq({"ok", "error", "disabled"}) /\ Len(<<>>) = 0
  BY EmptySeq
<1>2. 1 \in 1..Len(config) + 1 /\ 0 \in 0..3 /\ 0 \in 0..2 /\ 1 - 1 = 0 /\ 1..0 = {}
  OBVIOUS
<1>3. LET m == at'[p] IN
      /\ m.next \in 1..Len(config') + 1 /\ m.written \in 0..3 /\ m.written \in 0..2
      /\ m.feeds \in Seq({"ok", "error", "disabled"}) /\ Len(m.feeds) = m.next - 1
  BY <1>1, <1>2, Zenon
<1>4. \A k \in 1..at'[p].written : Artifacts[k] \in (DOMAIN file[today])'
  BY <1>2
<1>5. at'[p].bundle # Nothing => BundleAt(at[p].bundle, today)'
  BY DEF BundleAt
<1> QED
  BY <1>3, <1>4, <1>5 DEF LocalAt, Working

\* collect starts from the labels' reference: the items of the day before.
LEMMA CollectStep ==
  ASSUME IndInv, NEW p \in Procs, Collect(p)
  PROVE  IndInv'
<1>0. at[p] = Idle /\ Len(config) \in Nat /\ today \in Nat \ {0}
  BY ConfigTyped DEF IndInv, LocalAt, Collect
<1>1. UNCHANGED <<today, config, file, binding>>
  BY DEF Collect
<1>2. <<>> \in Seq({"ok", "error", "disabled"}) /\ Len(<<>>) = 0
  BY EmptySeq
<1>3. CASE at' = [at EXCEPT ![p] = [Idle EXCEPT !.pc = "refused"]]
  <2>1. PICK l : l = [Idle EXCEPT !.pc = "refused"]
    OBVIOUS
  <2>2. /\ IsLocal(l) /\ l.pc = "refused" /\ l.next = 1 /\ l.feeds = <<>>
        /\ l.written = 0 /\ l.bundle = Nothing
    BY <2>1, IdleFields DEF IsLocal, Fields
  <2>3. LocalAt(p)'
    <3>1. at'[p] = l
      BY <1>3, <2>1, AtUpdate DEF IndInv
    <3> QED
      BY <1>0, <1>1, <2>2, <3>1, FreshLocal
  <2> QED
    BY <1>0, <1>1, <1>3, <2>1, <2>3, IdleFields, LocalStep
<1>4. ASSUME NEW created, NEW previous, previous = Before(today), ValidConfig(config),
             at' = [at EXCEPT ![p] = [Idle EXCEPT !.pc = "fetch", !.created = created,
                                                  !.previous = previous]]
      PROVE  IndInv'
  <2>0. PICK l : l = [Idle EXCEPT !.pc = "fetch", !.created = created, !.previous = previous]
    OBVIOUS
  <2>1. at'[p] = l
    BY <1>4, <2>0, AtUpdate DEF IndInv
  <2>2. /\ IsLocal(l) /\ l.pc = "fetch" /\ l.next = 1 /\ l.feeds = <<>> /\ l.entries = {}
        /\ l.written = 0 /\ l.bundle = Nothing /\ l.previous = previous
    BY <2>0, IdleFields DEF IsLocal, Fields
  <2>3. Before(today)' = Before(today)
    BY <1>1 DEF Before
  <2>4. FetchAt(at[p])'
    <3>1. ValidConfig(config)'
      BY <1>1, <1>4 DEF ValidConfig, ValidFeed
    <3>2. at'[p].next - 1 = 0 /\ 1..0 = {}
      BY <2>1, <2>2
    <3> QED
      BY <1>4, <2>1, <2>2, <2>3, <3>1, <3>2 DEF FetchAt, FeedsTrue
  <2>5. LocalAt(p)'
    BY <1>0, <1>1, <1>2, <2>1, <2>2, <2>4 DEF LocalAt, Working
  <2> QED
    BY <1>0, <1>1, <1>4, <2>0, <2>5, IdleFields, LocalStep
<1> QED
  <2>1. PICK created \in Stamps :
          at' = [at EXCEPT ![p] =
            IF ~ValidConfig(config) THEN [Idle EXCEPT !.pc = "refused"]
            ELSE IF today = 1 THEN [Idle EXCEPT !.pc = "fetch", !.created = created]
            ELSE IF "intake" \notin DOMAIN file[today - 1]
                 THEN [Idle EXCEPT !.pc = "refused"]
            ELSE [Idle EXCEPT !.pc = "fetch", !.created = created,
                              !.previous = file[today - 1].intake.items]]
    BY <1>0 DEF Collect
  <2>2. CASE ValidConfig(config) /\ today = 1
    <3>1. [Idle EXCEPT !.pc = "fetch", !.created = created]
            = [Idle EXCEPT !.pc = "fetch", !.created = created, !.previous = Nothing]
      BY IdleFields DEF IsLocal, Fields
    <3>2. Before(today) = Nothing
      BY <2>2 DEF Before
    <3> QED
      BY <1>4, <2>1, <2>2, <3>1, <3>2
  <2>3. CASE ValidConfig(config) /\ today # 1 /\ "intake" \in DOMAIN file[today - 1]
    <3>1. Before(today) = file[today - 1].intake.items
      BY <2>3 DEF Before
    <3> QED
      BY <1>4, <2>1, <2>3, <3>1
  <2> QED
    BY <1>3, <2>1, <2>2, <2>3

\* A death leaves nothing but the bundle that was in hand.
LEMMA KillStep ==
  ASSUME IndInv, NEW p \in Procs, Kill(p)
  PROVE  IndInv'
<1> PICK l : l = [Idle EXCEPT !.pc = "killed", !.bundle = at[p].bundle]
  OBVIOUS
<1>0. /\ UNCHANGED <<today, config, file, binding>> /\ at' = [at EXCEPT ![p] = l]
      /\ Len(config) \in Nat
  BY ConfigTyped DEF IndInv, Kill
<1>1. /\ IsLocal(l) /\ l.pc = "killed" /\ l.next = 1 /\ l.feeds = <<>> /\ l.written = 0
      /\ l.bundle = at[p].bundle
  BY IdleFields DEF IsLocal, Fields
<1>2. at'[p] = l
  BY <1>0, AtUpdate DEF IndInv
<1>4. l.bundle # Nothing => BundleAt(l.bundle, today)'
  BY <1>0, <1>1, BundleKept DEF IndInv, LocalAt
<1>5. LocalAt(p)'
  BY <1>0, <1>1, <1>2, <1>4, FreshLocal
<1> QED
  BY <1>0, <1>1, <1>5, LocalStep

(***************************************************************************)
(* A feed                                                                  *)
(***************************************************************************)
\* The record of a feed agrees with what it listed, and no other feed's changes:
\* the ids are distinct.
LEMMA RecordStep ==
  ASSUME IndInv, NEW p \in Procs, Fetching(p),
         NEW status \in {"ok", "error", "disabled"}, NEW entries, Record(p, status, entries),
         status # "ok" => entries = {},
         status = "ok" => entries \in Listings[Feed(p).id]
  PROVE  IndInv'
<1> PICK n : n = at[p].next
  OBVIOUS
<1> PICK parsed : parsed = {Parsed(Feed(p), e) : e \in entries}
  OBVIOUS
<1> PICK l : l = [at[p] EXCEPT !.next = @ + 1, !.feeds = Append(@, status),
                               !.entries = @ \cup parsed]
  OBVIOUS
<1>0. LocalAt(p) /\ FetchAt(at[p]) /\ at[p].pc = "fetch"
  BY DEF IndInv, LocalAt, Fetching
<1>1. /\ n \in 1..Len(config) /\ Len(config) \in Nat /\ DOMAIN config = 1..Len(config)
      /\ n \in Nat /\ at[p].feeds \in Seq({"ok", "error", "disabled"})
      /\ Len(at[p].feeds) = n - 1
  BY <1>0, ConfigTyped DEF IndInv, LocalAt, Fetching
<1>2. UNCHANGED <<today, config, file, binding>> /\ at' = [at EXCEPT ![p] = l]
  BY DEF Record, IndInv, Shape
<1>3. /\ IsLocal(l) /\ l.pc = "fetch" /\ l.next = n + 1
      /\ l.feeds = Append(at[p].feeds, status) /\ l.entries = at[p].entries \cup parsed
      /\ l.written = at[p].written /\ l.bundle = at[p].bundle
      /\ l.previous = at[p].previous
  BY <1>0 DEF LocalAt, IsLocal, Fields
<1>4. at'[p] = l
  BY <1>2, AtUpdate DEF IndInv
<1>5. /\ l.feeds \in Seq({"ok", "error", "disabled"}) /\ Len(l.feeds) = n
      /\ \A k \in 1..n - 1 : l.feeds[k] = at[p].feeds[k]
      /\ l.feeds[n] = status
  BY <1>1, <1>3, AppendProperties
<1>6. ListedBy(parsed) \in SUBSET {config[n].id} /\ (ListedBy(parsed) = {} <=> entries = {})
  <2>1. \A e \in entries : Parsed(Feed(p), e).feed = config[n].id
    BY DEF Feed, Parsed
  <2>2. \A x \in ListedBy(parsed) : \E e \in entries : x = Parsed(Feed(p), e).feed
    BY DEF ListedBy
  <2>3. \A e \in entries : Parsed(Feed(p), e).feed \in ListedBy(parsed)
    BY DEF ListedBy
  <2> QED
    BY <2>1, <2>2, <2>3
<1>7. /\ FeedsTrue(l.feeds, n, ListedBy(at[p].entries) \cup ListedBy(parsed))
      /\ \A x \in ListedBy(at[p].entries) \cup ListedBy(parsed) :
           \E k \in 1..n : x = config[k].id
  <2>1. \A x \in ListedBy(at[p].entries) : \E k \in 1..n - 1 : x = config[k].id
    BY <1>0 DEF FetchAt, ListedBy
  <2>2. /\ FeedsTrue(at[p].feeds, n - 1, ListedBy(at[p].entries)) /\ ValidConfig(config)
    BY <1>0 DEF FetchAt
  <2>3. /\ status # "ok" => ListedBy(parsed) = {}
        /\ status = "ok" /\ {} \notin Listings[config[n].id] => ListedBy(parsed) # {}
    BY <1>6 DEF Feed
  <2>4. PICK listed, fresh, more, feeds :
          /\ listed = ListedBy(at[p].entries) /\ fresh = ListedBy(parsed)
          /\ more = l.feeds /\ feeds = at[p].feeds
    OBVIOUS
  <2>5. /\ \A k \in 1..n - 1 : more[k] = feeds[k]
        /\ more[n] = status /\ fresh \in SUBSET {config[n].id}
        /\ \A x \in listed : \E k \in 1..n - 1 : x = config[k].id
        /\ FeedsTrue(feeds, n - 1, listed)
        /\ status # "ok" => fresh = {}
        /\ status = "ok" /\ {} \notin Listings[config[n].id] => fresh # {}
    BY <1>5, <1>6, <2>1, <2>2, <2>3, <2>4
  <2>6. /\ ValidConfig(config) /\ DOMAIN config = 1..Len(config) /\ Len(config) \in Nat
        /\ n \in 1..Len(config)
    BY <1>1, <2>2
  <2>7. FeedsTrue(more, n, listed \cup fresh)
        /\ \A x \in listed \cup fresh : \E k \in 1..n : x = config[k].id
    <3>1. \A k \in 1..n - 1 : config[k].id # config[n].id
      BY <2>6 DEF ValidConfig
    <3>2. (\A k \in 1..n : k = n \/ k \in 1..n - 1) /\ \A k \in 1..n - 1 : k \in 1..n
      BY <1>1
    <3>3. config[n].id \notin listed
      BY <2>5, <3>1
    <3>4. \A k \in 1..n - 1 :
            /\ more[k] # "ok" => config[k].id \notin listed \cup fresh
            /\ more[k] = "ok" /\ {} \notin Listings[config[k].id]
                 => config[k].id \in listed \cup fresh
      BY <2>5, <3>1 DEF FeedsTrue
    <3>5. /\ more[n] # "ok" => config[n].id \notin listed \cup fresh
          /\ more[n] = "ok" /\ {} \notin Listings[config[n].id]
               => config[n].id \in listed \cup fresh
      BY <2>5, <3>3
    <3>6. FeedsTrue(more, n, listed \cup fresh)
      BY <3>2, <3>4, <3>5 DEF FeedsTrue
    <3> QED
      BY <2>5, <2>6, <3>2, <3>6
  <2> QED
    BY <2>4, <2>7
<1>8. ListedBy(l.entries) = ListedBy(at[p].entries) \cup ListedBy(parsed)
  BY <1>3 DEF ListedBy
<1>9. FetchAt(l)
  <2>1. l.next - 1 = n
    BY <1>1, <1>3
  <2>2. \A entry \in l.entries : \E k \in 1..n : entry.feed = config[k].id
    BY <1>7, <1>8 DEF ListedBy
  <2> QED
    BY <1>0, <1>3, <1>7, <1>8, <2>1, <2>2 DEF FetchAt
<1>10. LocalAt(p)'
  <2>1. at'[p].next \in 1..Len(config') + 1 /\ Len(at'[p].feeds) = at'[p].next - 1
    BY <1>1, <1>2, <1>3, <1>4, <1>5
  <2>2. FetchAt(at[p])'
    <3>1. FetchAt(l)'
      BY <1>2, <1>9, FilesKept
    <3> QED
      BY <1>4, <3>1 DEF FetchAt
  <2> QED
    BY <1>0, <1>2, <1>3, <1>4, <1>5, <2>1, <2>2 DEF LocalAt, Working
<1> QED
  BY <1>2, <1>3, <1>10, LocalStep

\* Each of the three fates of a feed is a record of it.
LEMMA FeedStep ==
  ASSUME IndInv, NEW p \in Procs, SkipFeed(p) \/ FetchFeed(p) \/ FetchFails(p)
  PROVE  IndInv'
<1>1. CASE SkipFeed(p)
  BY <1>1, RecordStep DEF SkipFeed
<1>2. CASE FetchFeed(p)
  <2>1. PICK entries \in Listings[Feed(p).id] : Record(p, "ok", entries)
    BY <1>2 DEF FetchFeed
  <2> QED
    BY <1>2, <2>1, RecordStep DEF FetchFeed
<1>3. CASE FetchFails(p)
  BY <1>3, RecordStep DEF FetchFails
<1> QED
  BY <1>1, <1>2, <1>3

(***************************************************************************)
(* write_bundle                                                            *)
(***************************************************************************)
\* The bundle that is built is labelled and recorded as any of this day must be.
LEMMA PreflightStep ==
  ASSUME IndInv, NEW p \in Procs, Preflight(p)
  PROVE  IndInv'
<1> PICK intake : intake = Intake(at[p])
  OBVIOUS
<1> PICK bundle : bundle = Bundle(intake)
  OBVIOUS
<1>0. /\ FetchAt(at[p]) /\ at[p].bundle = Nothing /\ at[p].next - 1 = Len(config)
      /\ Len(config) \in Nat
  BY ConfigTyped DEF IndInv, LocalAt, Preflight
<1>1. /\ UNCHANGED <<today, config, file, binding>>
      /\ \E pc \in {"look", "refused"} :
           at' = [at EXCEPT ![p] = [Idle EXCEPT !.pc = pc, !.bundle = bundle]]
  BY DEF Preflight
<1>2. BundleAt(bundle, today)
  <2>1. /\ intake.items = Grouped(at[p].entries) /\ intake.feeds = at[p].feeds
        /\ intake.status = [i \in DOMAIN intake.items |->
                              DedupeStatus(at[p].previous, i, intake.items[i])]
    BY DEF Intake
  <2>2. Labelled(intake, Before(today))
    BY <1>0, <2>1 DEF FetchAt, Labelled
  <2>3. FeedsTrue(intake.feeds, Len(config), ListedIn(intake.items))
    BY <1>0, <2>1, ListedGrouped DEF FetchAt
  <2> QED
    BY <2>2, <2>3, BundleFacts DEF BundleAt, IntakeAt
<1>3. bundle # Nothing
  BY BundleFacts
<1>4. PICK pc \in {"look", "refused"} :
        at' = [at EXCEPT ![p] = [Idle EXCEPT !.pc = pc, !.bundle = bundle]]
  BY <1>1
<1> PICK l : l = [Idle EXCEPT !.pc = pc, !.bundle = bundle]
  OBVIOUS
<1>5. /\ IsLocal(l) /\ l.pc \in {"look", "refused"} /\ l.next = 1 /\ l.feeds = <<>>
      /\ l.written = 0 /\ l.bundle = bundle
  BY IdleFields DEF IsLocal, Fields
<1>6. at'[p] = l
  BY <1>4, AtUpdate DEF IndInv
<1>7. BundleAt(bundle, today)'
  BY <1>1, <1>2, BundleKept
<1>8. LocalAt(p)'
  BY <1>0, <1>1, <1>3, <1>5, <1>6, <1>7, FreshLocal
<1> QED
  BY <1>0, <1>1, <1>4, <1>8, LocalStep

\* A step of write_bundle's loop, whether it wrote or found what it wanted
LEMMA WorkingLocal ==
  ASSUME IndInv, NEW p \in Procs, at[p].pc \in Working, UNCHANGED <<today, config>>,
         NEW l, at'[p] = l, NEW bundle, bundle = at[p].bundle, BundleAt(bundle, today)',
         DOMAIN file[today] \subseteq DOMAIN file'[today],
         \/ l = [at[p] EXCEPT !.pc = "replace"]
         \/ l = [at[p] EXCEPT !.pc = "refused"]
         \/ /\ l = [at[p] EXCEPT !.written = @ + 1,
                                 !.pc = IF at[p].written = 2 THEN "done" ELSE "look"]
            /\ Path(p) \in DOMAIN file'[today]
  PROVE  LocalAt(p)' /\ l.bundle = at[p].bundle
<1>1. /\ LocalAt(p) /\ at[p].written \in 0..2 /\ IsLocal(at[p])
  BY DEF IndInv, LocalAt
<1>2. /\ IsLocal(l) /\ l.next = at[p].next /\ l.feeds = at[p].feeds
      /\ l.bundle = at[p].bundle
      /\ \/ l.pc \in {"replace", "refused"} /\ l.written = at[p].written
         \/ /\ l.written = at[p].written + 1
            /\ l.pc = IF at[p].written = 2 THEN "done" ELSE "look"
            /\ Path(p) \in DOMAIN file'[today]
  <2>1. CASE l = [at[p] EXCEPT !.pc = "replace"]
    BY <1>1, <2>1 DEF IsLocal, Fields
  <2>2. CASE l = [at[p] EXCEPT !.pc = "refused"]
    BY <1>1, <2>2 DEF IsLocal, Fields
  <2>3. CASE /\ l = [at[p] EXCEPT !.written = @ + 1,
                                  !.pc = IF at[p].written = 2 THEN "done" ELSE "look"]
             /\ Path(p) \in DOMAIN file'[today]
    BY <1>1, <2>3 DEF IsLocal, Fields
  <2> QED
    BY <2>1, <2>2, <2>3
<1>3. l.written \in 0..3 /\ (l.pc \in Working => l.written \in 0..2)
  BY <1>1, <1>2 DEF Working
<1>4. \A k \in 1..l.written : Artifacts[k] \in DOMAIN file'[today]
  <2>1. \A k \in 1..at[p].written : Artifacts[k] \in DOMAIN file'[today]
    BY DEF IndInv, LocalAt
  <2>2. \A k \in 1..at[p].written + 1 : k \in 1..at[p].written \/ k = at[p].written + 1
    BY <1>1
  <2> QED
    BY <1>2, <2>1, <2>2 DEF Path
<1>5. BundleAt(at[p].bundle, today)'
  BY <1>2 DEF BundleAt
<1>6. l.pc \notin {"idle", "fetch"} /\ l.pc \in {"done", "refused"} \cup Working
  BY <1>2 DEF Working
<1>7. at[p].bundle # Nothing
  BY <1>1 DEF LocalAt
<1>8. LocalAt(p)'
  BY <1>1, <1>2, <1>3, <1>4, <1>5, <1>6, <1>7 DEF LocalAt, Working
<1> QED
  BY <1>2, <1>8

\* Looking at a path moves the invocation and writes nothing.
LEMMA LookStep ==
  ASSUME IndInv, NEW p \in Procs, Look(p)
  PROVE  IndInv'
<1> PICK bundle : bundle = at[p].bundle
  OBVIOUS
<1>1. /\ UNCHANGED <<today, config, file, binding>> /\ at[p].pc \in Working
      /\ BundleAt(bundle, today)
  BY DEF IndInv, LocalAt, Look, Working
<1>2. BundleAt(bundle, today)'
  BY <1>1, BundleKept
<1>3. ASSUME NEW l, at' = [at EXCEPT ![p] = l],
             \/ l = [at[p] EXCEPT !.pc = "replace"]
             \/ l = [at[p] EXCEPT !.pc = "refused"]
             \/ /\ l = [at[p] EXCEPT !.written = @ + 1,
                                     !.pc = IF at[p].written = 2 THEN "done" ELSE "look"]
                /\ Path(p) \in DOMAIN file[today]
      PROVE  IndInv'
  <2>1. at'[p] = l
    BY <1>3, AtUpdate DEF IndInv
  <2>2. Path(p) \in DOMAIN file[today] => Path(p) \in DOMAIN file'[today]
    BY <1>1
  <2>3. LocalAt(p)' /\ l.bundle = at[p].bundle
    BY <1>1, <1>2, <1>3, <2>1, <2>2, WorkingLocal
  <2> QED
    BY <1>1, <1>3, <2>3, LocalStep
<1>4. CASE at' = [at EXCEPT ![p].pc = "replace"]
  BY <1>3, <1>4
<1>5. CASE at' = [at EXCEPT ![p].pc = "refused"]
  BY <1>3, <1>5
<1>6. CASE Advance(p) /\ Path(p) \in DOMAIN file[today]
  BY <1>3, <1>6 DEF Advance
<1> QED
  BY <1>4, <1>5, <1>6 DEF Look

\* Writing into today's directory changes nothing that was compared with yesterday's.
LEMMA IntakeKept ==
  ASSUME IndInv, UNCHANGED <<today, config>>,
         \A d \in 1..Days : d # today => file'[d] = file[d]
  PROVE  /\ \A d \in 1..today : Before(d)' = Before(d)
         /\ \A intake : \A d \in 1..today : IntakeAt(intake, d) => IntakeAt(intake, d)'
         /\ \A bundle : BundleAt(bundle, today) => BundleAt(bundle, today)'
<1>0. today \in 1..Days /\ Days \in Nat /\ today \in Nat
  BY ConfigTyped DEF IndInv, Shape
<1>1. \A d \in 1..today : Before(d)' = Before(d)
  <2> SUFFICES ASSUME NEW d \in 1..today, d # 1 PROVE file'[d - 1] = file[d - 1]
    BY DEF Before
  <2> QED
    BY <1>0
<1>2. \A feeds, n, listed : FeedsTrue(feeds, n, listed) => FeedsTrue(feeds, n, listed)'
  BY DEF FeedsTrue
<1>3. \A intake : \A d \in 1..today : IntakeAt(intake, d) => IntakeAt(intake, d)'
  BY <1>1, <1>2 DEF IntakeAt, Labelled
<1>4. \A bundle : BundleAt(bundle, today) => BundleAt(bundle, today)'
  BY <1>0, <1>3 DEF BundleAt
<1> QED
  BY <1>1, <1>3, <1>4

\* Replacing an artifact keeps the order of the artifacts, and today's intake.json
\* remains that of one of today's invocations, whichever wrote last.
LEMMA ReplaceStep ==
  ASSUME IndInv, NEW p \in Procs, Replace(p)
  PROVE  IndInv'
<1> PICK bundle : bundle = at[p].bundle
  OBVIOUS
<1> PICK x : x = Path(p)
  OBVIOUS
<1> PICK l : l = [at[p] EXCEPT !.written = @ + 1,
                               !.pc = IF at[p].written = 2 THEN "done" ELSE "look"]
  OBVIOUS
<1>0. /\ today \in 1..Days /\ UNCHANGED <<today, config, binding>>
      /\ at[p].pc \in Working /\ LocalAt(p)
  BY DEF IndInv, Shape, Replace, Working
<1>1. /\ at' = [at EXCEPT ![p] = l]
      /\ file' = [file EXCEPT ![today] = Stored(file[today], x, bundle[x])]
  BY DEF Replace, Advance
<1>2. at'[p] = l /\ (\A q \in Procs \ {p} : at'[q] = at[q]) /\ at' = [q \in Procs |-> at'[q]]
  BY <1>1, AtUpdate DEF IndInv
<1>3. /\ file' = [d \in 1..Days |-> file'[d]]
      /\ \A d \in 1..Days : d # today => file'[d] = file[d]
      /\ file'[today] = Stored(file[today], x, bundle[x])
  BY <1>0, <1>1 DEF IndInv, Shape
<1>4. /\ DOMAIN file'[today] = DOMAIN file[today] \cup {x}
      /\ file'[today][x] = bundle[x]
      /\ \A y \in DOMAIN file[today] : y # x => file'[today][y] = file[today][y]
  BY <1>3 DEF Stored
<1>5. /\ x \in Docs
      /\ x = "queue" => "intake" \in DOMAIN file[today]
      /\ x = "manifest" => "queue" \in DOMAIN file[today]
  <2>1. /\ at[p].written \in 0..2
        /\ \A k \in 1..at[p].written : Artifacts[k] \in DOMAIN file[today]
    BY <1>0 DEF LocalAt
  <2>2. CASE at[p].written = 0
    BY <2>2, ArtifactFacts DEF Path, Docs
  <2>3. CASE at[p].written = 1
    BY <2>1, <2>3, ArtifactFacts DEF Path, Docs
  <2>4. CASE at[p].written = 2
    BY <2>1, <2>4, ArtifactFacts DEF Path, Docs
  <2> QED
    BY <2>1, <2>2, <2>3, <2>4
<1>6. BundleAt(bundle, today) /\ BundleAt(bundle, today)'
  <2>1. BundleAt(bundle, today)
    BY <1>0 DEF LocalAt
  <2> QED
    BY <1>0, <1>3, <2>1, IntakeKept
<1>7. Shape'
  BY <1>0, <1>2, <1>3 DEF IndInv, Shape
<1>8. LocalAt(p)' /\ l.bundle = bundle
  BY <1>0, <1>2, <1>4, <1>6, WorkingLocal
<1>9. \A q \in Procs : at[q].bundle # Nothing => at'[q].bundle = at[q].bundle
  BY <1>2, <1>8
<1>10. Owned'
  <2>1. CASE x = "intake"
    <3>1. file'[today'].intake = bundle.intake /\ at'[p].bundle = bundle /\ bundle # Nothing
      BY <1>0, <1>2, <1>4, <1>8, <2>1 DEF LocalAt
    <3> QED
      BY <3>1 DEF Owned
  <2>2. CASE x # "intake"
    BY <1>0, <1>4, <1>9, <2>2 DEF IndInv, Owned
  <2> QED
    BY <2>1, <2>2
<1>11. Bound'
  <2>1. \A paper \in binding : AskedToday(paper) => AskedToday(paper)'
    BY <1>9 DEF AskedToday
  <2> QED
    BY <1>0, <2>1 DEF IndInv, Bound
<1>12. \A q \in Procs : LocalAt(q)'
  <2> SUFFICES ASSUME NEW q \in Procs, q # p PROVE LocalAt(q)'
    BY <1>8
  <2>1. at'[q] = at[q] /\ LocalAt(q)
    BY <1>2 DEF IndInv
  <2>2. at[q].pc = "fetch" => FetchAt(at[q])'
    <3>1. Before(today)' = Before(today)
      <4>1. today \in 1..today
        BY ConfigTyped DEF IndInv
      <4> QED
        BY <1>0, <1>3, <4>1, IntakeKept
    <3> QED
      BY <1>0, <2>1, <3>1 DEF LocalAt, FetchAt, FeedsTrue
  <2>3. at[q].bundle # Nothing => BundleAt(at[q].bundle, today)'
    <3> PICK b : b = at[q].bundle
      OBVIOUS
    <3>1. b # Nothing => BundleAt(b, today)'
      BY <1>0, <1>3, <2>1, IntakeKept DEF LocalAt
    <3> QED
      BY <2>1, <3>1 DEF BundleAt
  <2> QED
    BY <1>0, <1>4, <2>1, <2>2, <2>3 DEF LocalAt
<1>13. \A d \in 1..Days : FileAt(d)'
  <2>1. FileAt(today)
    BY <1>0 DEF IndInv
  <2>2. "intake" \in DOMAIN file'[today] => IntakeAt(file[today].intake, today)'
    <3> PICK intake : intake = file'[today].intake
      OBVIOUS
    <3>1. today \in 1..today
      BY ConfigTyped DEF IndInv
    <3>2. CASE x = "intake"
      BY <1>0, <1>4, <1>6, <3>2 DEF BundleAt
    <3>3. CASE x # "intake" /\ "intake" \in DOMAIN file'[today]
      <4>1. IntakeAt(intake, today)
        BY <1>4, <2>1, <3>3 DEF FileAt
      <4>2. IntakeAt(intake, today)'
        BY <1>0, <1>3, <3>1, <4>1, IntakeKept
      <4> QED
        BY <1>0, <4>2
    <3> QED
      BY <3>2, <3>3
  <2>3. FileAt(today)'
    BY <1>0, <1>4, <1>5, <2>1, <2>2 DEF FileAt, Docs
  <2>4. ASSUME NEW d \in 1..Days, d # today PROVE FileAt(d)'
    <3>1. file'[d] = file[d] /\ FileAt(d)
      BY <1>3, <2>4 DEF IndInv
    <3>2. d > today \/ d \in 1..today
      BY <1>0, ConfigTyped DEF IndInv
    <3>3. d \in 1..today /\ "intake" \in DOMAIN file[d] => IntakeAt(file[d].intake, d)'
      <4> PICK intake : intake = file[d].intake
        OBVIOUS
      <4>1. d \in 1..today /\ "intake" \in DOMAIN file[d] => IntakeAt(intake, d)'
        BY <1>0, <1>3, <3>1, IntakeKept DEF FileAt
      <4> QED
        BY <3>1, <4>1
    <3> QED
      BY <1>0, <3>1, <3>2, <3>3 DEF FileAt
  <2> QED
    BY <1>0, <2>3, <2>4
<1> QED
  BY <1>7, <1>10, <1>11, <1>12, <1>13 DEF IndInv

\* The new day has no bundle yet, and the day before is frozen.
LEMMA NextDayStep ==
  ASSUME IndInv, NextDay
  PROVE  IndInv'
<1>0. /\ UNCHANGED <<config, file, binding>> /\ today' = today + 1 /\ today' \in 1..Days
      /\ at' = [p \in Procs |-> Idle] /\ today \in Nat /\ Len(config) \in Nat
  BY ConfigTyped DEF IndInv, NextDay
<1>1. Shape'
  BY <1>0 DEF IndInv, Shape
<1>2. DOMAIN file[today'] = {}
  BY <1>0 DEF IndInv, FileAt
<1>3. Owned'
  BY <1>0, <1>2 DEF Owned
<1>4. Bound'
  BY <1>0 DEF IndInv, Bound
<1>5. ASSUME NEW p \in Procs PROVE LocalAt(p)'
  <2>1. at'[p] = Idle
    BY <1>0
  <2>2. <<>> \in Seq({"ok", "error", "disabled"}) /\ Len(<<>>) = 0
    BY EmptySeq
  <2>3. LET l == at'[p] IN
        /\ IsLocal(l) /\ l.pc = "idle" /\ l.bundle = Nothing
        /\ l.next \in 1..Len(config') + 1 /\ l.written \in 0..3
        /\ l.feeds \in Seq({"ok", "error", "disabled"}) /\ Len(l.feeds) = l.next - 1
    <3>1. 1 \in 1..Len(config') + 1 /\ 0 \in 0..3 /\ 1 - 1 = 0
      BY <1>0
    <3> QED
      BY <2>1, <2>2, <3>1, IdleFields, Zenon
  <2> QED
    BY <2>1, <2>3 DEF LocalAt, Working
<1>6. ASSUME NEW d \in 1..Days PROVE FileAt(d)'
  <2>1. Before(d)' = Before(d)
    BY <1>0 DEF Before
  <2>2. \A intake : IntakeAt(intake, d) => IntakeAt(intake, d)'
    BY <1>0, <2>1 DEF IntakeAt, Labelled, FeedsTrue
  <2>3. FileAt(d) /\ (d > today' => d > today)
    BY <1>0 DEF IndInv
  <2>4. "intake" \in DOMAIN file[d] => IntakeAt(file[d].intake, d)'
    <3> PICK intake : intake = file[d].intake
      OBVIOUS
    <3> QED
      BY <1>0, <2>2, <2>3 DEF FileAt
  <2> QED
    BY <1>0, <2>3, <2>4 DEF FileAt
<1> QED
  BY <1>1, <1>3, <1>4, <1>5, <1>6 DEF IndInv

(***************************************************************************)
(* bind_paper                                                              *)
(***************************************************************************)
\* A day whose bundle keeps its contract has come, and its intake.json is labelled
\* against the day before.
LEMMA ContractFacts ==
  ASSUME IndInv, NEW d \in 1..Days, Contract(d)
  PROVE  /\ d \in 1..today /\ IntakeAt(file[d].intake, d)
         /\ "intake" \in DOMAIN file[d] /\ file[d].queue = Queue(file[d].intake)
<1>1. "intake" \in DOMAIN file[d] /\ file[d].queue = Queue(file[d].intake)
  BY ArtifactFacts DEF Contract, Complete, Docs
<1> QED
  BY <1>1, ConfigTyped DEF IndInv, FileAt

\* What bind_paper accepts today was queued by one of today's invocations.
LEMMA BindStep ==
  ASSUME IndInv, NEW d \in 1..Days, NEW i, BindPaper(d, i)
  PROVE  IndInv'
<1> PICK paper : paper = [day |-> d, item |-> i, id |-> IntakeId(file[d].intake),
                          content |-> file[d].intake.items[i]]
  OBVIOUS
<1>0. /\ UNCHANGED <<today, config, file, at>> /\ binding' = {paper} /\ Contract(d)
      /\ <<i, file[d].intake.items[i]>> \in file[d].queue
  BY DEF BindPaper, Bindable
<1>1. Shape' /\ Owned'
  BY <1>0 DEF IndInv, Shape, Owned
<1>2. ASSUME d = today PROVE AskedToday(paper)
  <2>1. PICK p \in Procs : at[p].bundle # Nothing /\ at[p].bundle.intake = file[d].intake
    BY <1>0, <1>2, ContractFacts DEF IndInv, Owned
  <2>2. at[p].bundle = Bundle(at[p].bundle.intake)
    BY <2>1 DEF IndInv, LocalAt, BundleAt
  <2>3. at[p].bundle.queue = file[d].queue
    BY <1>0, <2>1, <2>2, BundleFacts, ContractFacts
  <2> QED
    BY <1>0, <2>1, <2>3 DEF AskedToday
<1>3. Bound'
  <2>1. paper.day = d /\ d \in 1..today
    BY <1>0, ContractFacts
  <2>2. d = today => AskedToday(paper)'
    BY <1>0, <1>2 DEF AskedToday
  <2> QED
    BY <1>0, <2>1, <2>2 DEF Bound
<1>4. \A p \in Procs : LocalAt(p)'
  BY <1>0, LocalKept DEF IndInv
<1>5. \A e \in 1..Days : FileAt(e)'
  BY <1>0, FilesKept DEF IndInv
<1> QED
  BY <1>1, <1>3, <1>4, <1>5 DEF IndInv

(***************************************************************************)
(* Every reachable state                                                   *)
(***************************************************************************)
LEMMA InitInv ==
  ASSUME Init
  PROVE  IndInv
<1>0. Days \in Nat \ {0} /\ DOMAIN Nothing = {}
  BY DaysAssumption DEF Nothing
<1>1. Shape
  BY <1>0 DEF Init, Shape
<1>2. Owned /\ Bound
  BY <1>0 DEF Init, Owned, Bound
<1>3. ASSUME NEW p \in Procs PROVE LocalAt(p)
  <2>1. at[p] = Idle /\ Len(config) \in Nat
    BY <1>1, ConfigTyped DEF Init
  <2>2. <<>> \in Seq({"ok", "error", "disabled"}) /\ Len(<<>>) = 0
    BY EmptySeq
  <2> QED
    BY <2>1, <2>2, IdleFields DEF LocalAt, Working
<1>4. \A d \in 1..Days : FileAt(d)
  BY <1>0 DEF Init, FileAt
<1> QED
  BY <1>1, <1>2, <1>3, <1>4 DEF IndInv

LEMMA StepInv ==
  ASSUME IndInv, [Next]_vars
  PROVE  IndInv'
<1>1. CASE UNCHANGED vars
  <2>0. UNCHANGED <<today, config, file, at, binding>>
    BY <1>1 DEF vars
  <2>1. Shape' /\ Owned'
    BY <2>0 DEF IndInv, Shape, Owned
  <2>2. \A paper \in binding : AskedToday(paper) => AskedToday(paper)'
    BY <2>0 DEF AskedToday
  <2>3. Bound'
    BY <2>0, <2>2 DEF IndInv, Bound
  <2>4. (\A p \in Procs : LocalAt(p)') /\ \A e \in 1..Days : FileAt(e)'
    BY <2>0, LocalKept, FilesKept DEF IndInv
  <2> QED
    BY <2>1, <2>3, <2>4 DEF IndInv
<1>2. ASSUME NEW p \in Procs,
             \/ Collect(p) \/ SkipFeed(p) \/ FetchFeed(p) \/ FetchFails(p)
             \/ Preflight(p) \/ Look(p) \/ Replace(p) \/ Kill(p)
      PROVE  IndInv'
  BY <1>2, CollectStep, FeedStep, PreflightStep, LookStep, ReplaceStep, KillStep
<1>3. CASE NextDay
  BY <1>3, NextDayStep
<1>4. ASSUME NEW d \in 1..Days, NEW i \in DOMAIN file[d].intake.items, BindPaper(d, i)
      PROVE  IndInv'
  BY <1>4, BindStep
<1> QED
  BY <1>1, <1>2, <1>3, <1>4 DEF Next

\* Every reachable state: yesterday's directory is the one today's labels were made
\* from, whatever was killed and whoever wrote it.
THEOREM Inductive == Spec => []IndInv
BY InitInv, StepInv, PTL DEF Spec

(***************************************************************************)
(* What follows                                                            *)
(***************************************************************************)
LEMMA TypeFollows == IndInv => TypeOK
<1> SUFFICES ASSUME IndInv PROVE TypeOK
  OBVIOUS
<1>1. Len(config) \in Nat /\ today \in 1..Days
  BY ConfigTyped DEF IndInv, Shape
<1>2. ASSUME NEW p \in Procs
      PROVE  /\ at[p].pc \in {"idle", "fetch", "look", "replace", "refused", "done",
                              "killed"}
             /\ Len(at[p].feeds) = at[p].next - 1 /\ at[p].next <= Len(config) + 1
             /\ at[p].written \in 0..3
  BY <1>1 DEF IndInv, LocalAt, Working
<1>3. ASSUME NEW d \in 1..Days
      PROVE  /\ "queue" \in DOMAIN file[d] => "intake" \in DOMAIN file[d]
             /\ "manifest" \in DOMAIN file[d] => "queue" \in DOMAIN file[d]
             /\ d > today => DOMAIN file[d] = {}
  BY DEF IndInv, FileAt
<1> QED
  BY <1>1, <1>2, <1>3 DEF TypeOK

\* The label "duplicate" is given to yesterday's items with yesterday's content.
LEMMA DuplicateFacts ==
  ASSUME NEW previous, NEW i, NEW content
  PROVE  DedupeStatus(previous, i, content) = "duplicate"
           <=> i \in DOMAIN previous /\ previous[i] = content
BY DEF DedupeStatus

\* A duplicate is followed back to the first day with its content.
LEMMA QueueFollows == IndInv => QueueExact
<1> SUFFICES ASSUME IndInv, NEW d \in 2..Days, \A e \in 1..d : Contract(e)
             PROVE  /\ \A i \in DOMAIN file[d].intake.items :
                         file[d].intake.status[i] = "duplicate" =>
                           \E e \in 1..d - 1 :
                             <<i, file[d].intake.items[i]>> \in file[e].queue
                    /\ file[d].queue \cap file[d - 1].queue = {}
  BY DEF QueueExact
<1>0. Days \in Nat /\ d \in Nat /\ d >= 2 /\ d <= Days
  BY ConfigTyped DEF IndInv
<1>1. ASSUME NEW e \in 1..d
      PROVE  /\ file[e].queue = Queue(file[e].intake)
             /\ \A i \in DOMAIN file[e].intake.items :
                  file[e].intake.status[i] = "duplicate"
                    <=> /\ i \in DOMAIN Before(e)
                        /\ Before(e)[i] = file[e].intake.items[i]
  <2>1. e \in 1..Days
    BY <1>0
  <2>2. IntakeAt(file[e].intake, e) /\ file[e].queue = Queue(file[e].intake)
    BY <2>1, ContractFacts
  <2> QED
    BY <2>2, DuplicateFacts DEF IntakeAt, Labelled
<1>2. ASSUME NEW i \in DOMAIN file[d].intake.items,
             file[d].intake.status[i] = "duplicate"
      PROVE  \E e \in 1..d - 1 : <<i, file[d].intake.items[i]>> \in file[e].queue
  <2> PICK content : content = file[d].intake.items[i]
    OBVIOUS
  <2> DEFINE T == {e \in 1..d : /\ i \in DOMAIN file[e].intake.items
                                /\ file[e].intake.items[i] = content}
  <2>1. d \in T /\ T \subseteq Nat
    BY <1>0
  <2>2. PICK e \in T : \A y \in T : e <= y
    <3> HIDE DEF T
    <3> QED  BY <2>1, SmallestExists
  <2>3. file[e].intake.status[i] # "duplicate"
    <3> SUFFICES ASSUME file[e].intake.status[i] = "duplicate" PROVE FALSE
      OBVIOUS
    <3>1. i \in DOMAIN Before(e) /\ Before(e)[i] = content
      BY <1>1
    <3>2. e # 1
      BY <3>1 DEF Before, Nothing
    <3>3. e - 1 \in T
      BY <1>0, <3>1, <3>2 DEF Before
    <3> QED
      BY <1>0, <2>2, <3>3
  <2>4. e \in 1..d - 1
    BY <1>0, <1>2, <2>3
  <2>5. <<i, content>> \in file[e].queue
    BY <1>1, <2>3 DEF Queue
  <2> QED
    BY <2>4, <2>5
<1>3. ASSUME NEW row \in file[d].queue \cap file[d - 1].queue
      PROVE  FALSE
  <2>0. d \in 1..d /\ d - 1 \in 1..d /\ Before(d) = file[d - 1].intake.items
    BY <1>0 DEF Before
  <2>1. PICK i \in DOMAIN file[d].intake.items :
          file[d].intake.status[i] # "duplicate" /\ row = <<i, file[d].intake.items[i]>>
    BY <1>1, <2>0 DEF Queue
  <2>2. PICK j \in DOMAIN file[d - 1].intake.items :
          row = <<j, file[d - 1].intake.items[j]>>
    BY <1>1, <2>0 DEF Queue
  <2> QED
    BY <1>1, <2>0, <2>1, <2>2
<1> QED
  BY <1>2, <1>3

LEMMA BindingFollows == IndInv => BindingQueued
BY DEF IndInv, Bound, AskedToday, BindingQueued

\* Every stored snapshot agrees with its feed records.
LEMMA FailureFollows == IndInv => FailureContained
<1> SUFFICES ASSUME IndInv, NEW d \in 1..Days, "intake" \in DOMAIN file[d],
                    NEW n \in DOMAIN config
             PROVE  LET intake == file[d].intake
                        listed == UNION {intake.items[i].feeds : i \in DOMAIN intake.items}
                    IN /\ intake.feeds[n] # "ok" => config[n].id \notin listed
                       /\ intake.feeds[n] = "ok" /\ {} \notin Listings[config[n].id]
                            => config[n].id \in listed
  BY TypeFollows DEF FailureContained
<1>1. n \in 1..Len(config)
  BY ConfigTyped DEF IndInv
<1>2. FeedsTrue(file[d].intake.feeds, Len(config), ListedIn(file[d].intake.items))
  BY DEF IndInv, FileAt, IntakeAt
<1> QED
  BY <1>1, <1>2 DEF FeedsTrue, ListedIn

\* Deduplication loses nothing and repeats nothing: when every bundle up to a day
\* keeps its contract, what write_bundle labelled a duplicate was in the queue of an
\* earlier day with exactly this content, and no row is in two days' queues in a row.
THEOREM QueueAlwaysExact == Spec => []QueueExact
BY Inductive, QueueFollows, PTL

\* bind_paper ties a paper to metadata that an invocation of that day snapshotted and
\* queued, however many invocations wrote into its directory.
THEOREM BindingAlwaysQueued == Spec => []BindingQueued
BY Inductive, BindingFollows, PTL

\* collect records a failing feed and keeps everything the other feeds listed.
THEOREM FailureAlwaysContained == Spec => []FailureContained
BY Inductive, FailureFollows, PTL
=============================================================================
