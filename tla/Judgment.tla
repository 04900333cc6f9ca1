------------------------------ MODULE Judgment ------------------------------
(***************************************************************************)
(* The judgment rows (judgment/repository.ts), reached through the worker's *)
(* /judgment_* commands (queue/worker.ts) and through the proposals a       *)
(* summary leaves behind (judgment/summary_proposals.ts).                   *)
(*                                                                         *)
(* Each operation of the repository is one BEGIN IMMEDIATE transaction that *)
(* checks the row, writes it and appends one event.  The job that carries   *)
(* the command is settled in a later transaction and its reply is sent      *)
(* after that, so a crash may fall between any two of them; a job that was  *)
(* still running is run again by the next boot.  Commands name rows by the  *)
(* ids their author has: those replies displayed, or whole ids taken from   *)
(* the database.                                                           *)
(*                                                                         *)
(* Rows have scope global and importance 3, as both callers write them, and *)
(* are numbered in order of creation.  retention_state is 'normal' in every *)
(* row: no operation writes it.                                            *)
(***************************************************************************)
EXTENDS Naturals, Sequences, FiniteSets

CONSTANTS
  MaxItems,       \* bound: rows of judgment_items
  MaxSources,     \* bound: rows of judgment_sources
  MaxLinks,       \* bound: rows of judgment_evidence_links
  MaxBatch,       \* bound: items one summary proposes
  MaxAttempts,    \* jobs.max_attempts of a command
  MaxCrashes,     \* bound: restarts of the process
  ListLimit,      \* limit of /judgment
  ReadsDatabase   \* whether authors know ids from the database

ASSUME JudgmentAssumption ==
  /\ MaxItems \in Nat \ {0} /\ MaxSources \in Nat /\ MaxLinks \in Nat
  /\ MaxBatch \in Nat /\ MaxAttempts \in Nat \ {0} /\ MaxCrashes \in Nat
  /\ ListLimit \in Nat \ {0}
  /\ ReadsDatabase \in BOOLEAN

VARIABLES
  items,     \* judgment_items
  sources,   \* judgment_sources: how many
  links,     \* judgment_evidence_links
  edges,     \* judgment_edges, all of them 'supersedes'
  log,       \* judgment_events of each item, oldest first
  job,       \* the job the worker has in hand
  shown,     \* the ids displayed so far
  crashes

db == <<items, sources, links, edges, log>>
vars == <<items, sources, links, edges, log, job, shown, crashes>>

Item == 1 .. MaxItems
Source == 1 .. MaxSources
Link == 1 .. MaxLinks

Row == [lifecycle_status : {"proposed", "active", "rejected", "revoked", "superseded", "expired"},
        approval_state : {"pending", "approved", "rejected"},
        activation_state : {"history_only", "eligible", "excluded"},
        authority_source : {"none", "user_confirmed"},
        source_ids : SUBSET Source, evidence_ids : SUBSET Link,
        supersedes : SUBSET Item, superseded_by : SUBSET Item,
        valid_until : {"open", "closed"}]

Events == {"proposed", "approved", "rejected", "evidence.linked",
           "committed", "superseded", "revoked", "expired"}
Event == [type : Events, ref : Nat]

NewRow == [lifecycle_status |-> "proposed", approval_state |-> "pending",
           activation_state |-> "history_only", authority_source |-> "none",
           source_ids |-> {}, evidence_ids |-> {}, supersedes |-> {},
           superseded_by |-> {}, valid_until |-> "open"]

(* An id as somebody writes it: a whole uuid, or the first eight            *)
(* characters a reply displays.                                            *)
Id == [table : {"judgment", "source"}, row : Nat, whole : BOOLEAN]
Whole(table, n) == [table |-> table, row |-> n, whole |-> TRUE]
Displayed(table, n) == [Whole(table, n) EXCEPT !.whole = FALSE]
NoId == [table |-> "judgment", row |-> 0, whole |-> FALSE]

Items == DOMAIN items
Active == {i \in Items : items[i].lifecycle_status = "active"
                         /\ items[i].activation_state = "eligible"}
LinksOf(i) == {l \in DOMAIN links : links[l].judgment_id = i}
SourcesOf(i) == {links[l].source_id : l \in LinksOf(i)}

(* WHERE id = ?                                                            *)
FoundItems(id) == {i \in Items : Whole("judgment", i) = id}
FoundSources(id) == {s \in 1 .. sources : Whole("source", s) = id}

(* What /judgment may list: the rows updated last, up to its limit.        *)
Listings == {S \in SUBSET Active :
               Cardinality(S) = IF Cardinality(Active) > ListLimit THEN ListLimit
                                ELSE Cardinality(Active)}

Reads == {"list", "explain"}
Transitions == {"approve", "reject", "commit", "supersede", "revoke", "expire"}
Commands == Reads \cup Transitions \cup {"propose", "source", "link"}
NamesItem == Transitions \cup {"explain", "link"}

Idle == [op |-> "none", target |-> NoId, other |-> NoId, phase |-> "idle", claims |-> 0,
         effects |-> 0, answer |-> "none", left |-> 0, fresh |-> {}]
Job == [op : Commands \cup {"none", "summary"}, target : Id, other : Id,
        phase : {"idle", "claimed", "answered", "settled"}, claims : 0 .. MaxAttempts,
        effects : Nat, answer : {"none", "ok", "refused", "not_found"},
        left : 0 .. MaxBatch, fresh : SUBSET Id]

Init ==
  /\ items = << >> /\ sources = 0 /\ links = << >> /\ edges = {} /\ log = << >>
  /\ job = Idle /\ shown = {} /\ crashes = 0

-----------------------------------------------------------------------------
(* The job.                                                                *)

Known(table) ==
  IF ReadsDatabase
  THEN {Whole(table, n) : n \in 1 .. (IF table = "judgment" THEN MaxItems ELSE MaxSources)}
  ELSE {id \in shown : id.table = table}

(* The bounds leave room for what the command creates.                     *)
Room(op) ==
  /\ op = "propose" => Len(items) < MaxItems
  /\ op = "source" => sources < MaxSources
  /\ op = "link" => Len(links) < MaxLinks

Claim ==
  /\ job.op = "none"
  /\ \E op \in {c \in Commands : Room(c)} :
       \E target \in (IF op \in NamesItem THEN Known("judgment") ELSE {NoId}),
          other \in (CASE op = "link" -> Known("source")
                       [] op = "supersede" -> Known("judgment")
                       [] OTHER -> {NoId}) :
         job' = [Idle EXCEPT !.op = op, !.target = target, !.other = other,
                             !.phase = "claimed", !.claims = 1]
  /\ UNCHANGED <<db, shown, crashes>>

Runs(op) == job.op = op /\ job.phase = "claimed"
Target == FoundItems(job.target)
Other == IF job.op = "supersede" THEN FoundItems(job.other) ELSE FoundSources(job.other)

Done(ids) ==
  job' = [job EXCEPT !.phase = "answered", !.answer = "ok", !.effects = @ + 1, !.fresh = ids]
Declined(code) ==
  /\ job' = [job EXCEPT !.phase = "answered", !.answer = code]
  /\ UNCHANGED db

(* A row that is missing, or that is not one of those the operation takes. *)
Declines(legal) ==
  \/ Target = {} /\ Declined("not_found")
  \/ (\E i \in Target : i \notin legal) /\ Declined("refused")

Logged(i, type, ref) == log' = [log EXCEPT ![i] = Append(@, [type |-> type, ref |-> ref])]

(* The command's job is over: UPDATE jobs ... 'succeeded'.                 *)
Settle ==
  /\ job.phase = "answered"
  /\ job' = [job EXCEPT !.phase = "settled"]
  /\ UNCHANGED <<db, shown, crashes>>

(* The reply, or the notification of the summary, goes out.                *)
Tell ==
  /\ job.phase = "settled" /\ job.left = 0
  /\ shown' = shown \cup job.fresh
  /\ job' = Idle
  /\ UNCHANGED <<db, crashes>>

(* A crash, the next boot, and the claim of the job it queued again.       *)
Crash ==
  /\ job.op # "none" /\ crashes < MaxCrashes
  /\ crashes' = crashes + 1
  /\ job' = IF job.phase # "settled" /\ job.claims < MaxAttempts
            THEN [job EXCEPT !.phase = "claimed", !.claims = @ + 1,
                             !.answer = "none", !.fresh = {}]
            ELSE Idle
  /\ UNCHANGED <<db, shown>>

-----------------------------------------------------------------------------
(* The operations, each in its transaction.                                *)

Proposed ==
  /\ Len(items) < MaxItems
  /\ items' = Append(items, NewRow)
  /\ log' = Append(log, << [type |-> "proposed", ref |-> 0] >>)
  /\ UNCHANGED <<sources, links, edges>>

Propose ==
  /\ Runs("propose") /\ Proposed
  /\ Done({Displayed("judgment", Len(items) + 1)})
  /\ UNCHANGED <<shown, crashes>>

Reviewable(i) ==
  /\ items[i].lifecycle_status = "proposed" /\ items[i].approval_state = "pending"
  /\ items[i].activation_state = "history_only"

Approved(i) == items' = [items EXCEPT ![i].approval_state = "approved"]

Approve ==
  /\ Runs("approve")
  /\ \/ Declines({i \in Items : Reviewable(i)})
     \/ \E i \in Target :
          /\ Reviewable(i)
          /\ Approved(i)
          /\ Logged(i, "approved", 0) /\ Done({})
          /\ UNCHANGED <<sources, links, edges>>
  /\ UNCHANGED <<shown, crashes>>

Rejected(i) ==
  items' = [items EXCEPT ![i].approval_state = "rejected", ![i].lifecycle_status = "rejected",
                         ![i].activation_state = "excluded"]

Reject ==
  /\ Runs("reject")
  /\ \/ Declines({i \in Items : Reviewable(i)})
     \/ \E i \in Target :
          /\ Reviewable(i)
          /\ Rejected(i)
          /\ Logged(i, "rejected", 0) /\ Done({})
          /\ UNCHANGED <<sources, links, edges>>
  /\ UNCHANGED <<shown, crashes>>

(* Its event names no judgment and is left out of log.                     *)
RecordSource ==
  /\ Runs("source") /\ sources < MaxSources
  /\ sources' = sources + 1
  /\ Done({Displayed("source", sources + 1)})
  /\ UNCHANGED <<items, links, edges, log, shown, crashes>>

(* Mutant: only rows out of use are refused.                               *)
LinkableUntilExcluded(i) == items[i].activation_state # "excluded"

(* Evidence may be linked before the approval and after it.                *)
Linkable(i) ==
  items[i].lifecycle_status = "proposed" /\ items[i].activation_state = "history_only"

Linked(i, s) ==
  items' = [items EXCEPT ![i].source_ids = @ \cup {s},
                         ![i].evidence_ids = @ \cup {Len(links) + 1}]

LinkEvidence ==
  /\ Runs("link") /\ Len(links) < MaxLinks
  /\ \/ Declines({i \in Items : Linkable(i)})
     \/ \E i \in Target : Linkable(i) /\ Other = {} /\ Declined("not_found")
     \/ \E i \in Target, s \in Other :
          /\ Linkable(i)
          /\ links' = Append(links, [judgment_id |-> i, source_id |-> s])
          /\ Linked(i, s)
          /\ Logged(i, "evidence.linked", Len(links) + 1) /\ Done({})
          /\ UNCHANGED <<sources, edges>>
  /\ UNCHANGED <<shown, crashes>>

(* Mutant: any approved row that has evidence.                             *)
CommittableAgain(i) ==
  items[i].approval_state = "approved" /\ LinksOf(i) # {} /\ items[i].activation_state # "eligible"

Committable(i) ==
  /\ items[i].lifecycle_status = "proposed" /\ items[i].approval_state = "approved"
  /\ items[i].activation_state = "history_only"
  /\ LinksOf(i) # {} /\ SourcesOf(i) \subseteq 1 .. sources
  /\ items[i].evidence_ids \subseteq LinksOf(i)
  /\ items[i].source_ids \subseteq SourcesOf(i)

Committed(i) ==
  items' = [items EXCEPT ![i].lifecycle_status = "active", ![i].activation_state = "eligible",
                         ![i].authority_source = "user_confirmed",
                         ![i].evidence_ids = LinksOf(i), ![i].source_ids = SourcesOf(i)]

Commit ==
  /\ Runs("commit")
  /\ \/ Declines({i \in Items : Committable(i)})
     \/ \E i \in Target :
          /\ Committable(i)
          /\ Committed(i)
          /\ Logged(i, "committed", 0) /\ Done({})
          /\ UNCHANGED <<sources, links, edges>>
  /\ UNCHANGED <<shown, crashes>>

ActiveEligible(i) ==
  /\ items[i].lifecycle_status = "active" /\ items[i].activation_state = "eligible"
  /\ items[i].approval_state = "approved"

Superseded(old, new) ==
  items' = [items EXCEPT ![old].lifecycle_status = "superseded",
                         ![old].activation_state = "excluded",
                         ![old].superseded_by = @ \cup {new},
                         ![new].supersedes = @ \cup {old}]

Edge(new, old) == [from |-> new, to |-> old]

(* Mutant: the replacement's state is not looked at.                       *)
MayReplaceAny(new, old) ==
  items[new].authority_source = "user_confirmed" /\ Edge(new, old) \notin edges

MayReplace(new, old) ==
  /\ ActiveEligible(new)
  /\ new \notin items[old].superseded_by /\ Edge(new, old) \notin edges

Supersede ==
  /\ Runs("supersede")
  /\ \/ job.target = job.other /\ Declined("refused")
     \/ job.target # job.other /\ Declines({i \in Items : ActiveEligible(i)})
     \/ /\ job.target # job.other /\ Other = {}
        /\ \E old \in Target : ActiveEligible(old)
        /\ Declined("not_found")
     \/ \E old \in Target, new \in Other :
          /\ old # new /\ ActiveEligible(old)
          /\ \/ ~MayReplace(new, old) /\ Declined("refused")
             \/ /\ MayReplace(new, old)
                /\ Superseded(old, new)
                /\ edges' = edges \cup {Edge(new, old)}
                /\ Logged(old, "superseded", new) /\ Done({})
                /\ UNCHANGED <<sources, links>>
  /\ UNCHANGED <<shown, crashes>>

(* Mutant: the row keeps its activation_state.                             *)
RevokedInPlace(i) == items' = [items EXCEPT ![i].lifecycle_status = "revoked"]

Revoked(i) ==
  items' = [items EXCEPT ![i].lifecycle_status = "revoked", ![i].activation_state = "excluded"]

Revoke ==
  /\ Runs("revoke")
  /\ \/ Declines({i \in Items : ActiveEligible(i)})
     \/ \E i \in Target :
          /\ ActiveEligible(i)
          /\ Revoked(i)
          /\ Logged(i, "revoked", 0) /\ Done({})
          /\ UNCHANGED <<sources, links, edges>>
  /\ UNCHANGED <<shown, crashes>>

(* The command gives no effective_at and no row has a valid_until of its    *)
(* own, so it becomes now.                                                 *)
Expired(i) ==
  items' = [items EXCEPT ![i].lifecycle_status = "expired", ![i].activation_state = "excluded",
                         ![i].valid_until = "closed"]

Expire ==
  /\ Runs("expire")
  /\ \/ Declines({i \in Items : ActiveEligible(i)})
     \/ \E i \in Target :
          /\ ActiveEligible(i)
          /\ Expired(i)
          /\ Logged(i, "expired", 0) /\ Done({})
          /\ UNCHANGED <<sources, links, edges>>
  /\ UNCHANGED <<shown, crashes>>

List ==
  /\ Runs("list")
  /\ \E S \in Listings : Done({Displayed("judgment", i) : i \in S})
  /\ UNCHANGED <<db, shown, crashes>>

(* The arrays of the row must agree with the links.                        *)
Explainable(i) ==
  /\ items[i].evidence_ids \subseteq LinksOf(i)
  /\ items[i].source_ids \subseteq SourcesOf(i)
  /\ SourcesOf(i) \subseteq 1 .. sources

Explain ==
  /\ Runs("explain")
  /\ \/ Target = {} /\ Declined("not_found")
     \/ \E i \in Target : IF Explainable(i) THEN Done({}) /\ UNCHANGED db
                          ELSE Declined("refused")
  /\ UNCHANGED <<shown, crashes>>

-----------------------------------------------------------------------------
(* A summary job that has just succeeded proposes its items one by one,     *)
(* each in a transaction of its own, and then announces them.              *)

Summarise ==
  /\ job.op = "none"
  /\ \E n \in {b \in 1 .. MaxBatch : b <= MaxItems - Len(items)} :
       job' = [Idle EXCEPT !.op = "summary", !.phase = "settled", !.left = n]
  /\ UNCHANGED <<db, shown, crashes>>

SummaryProposes ==
  /\ job.op = "summary" /\ job.left > 0
  /\ Proposed
  /\ job' = [job EXCEPT !.left = @ - 1,
                        !.fresh = @ \cup {Displayed("judgment", Len(items) + 1)}]
  /\ UNCHANGED <<shown, crashes>>

(* An item without a statement, or with an unknown provenance.             *)
SummarySkips ==
  /\ job.op = "summary" /\ job.left > 0
  /\ job' = [job EXCEPT !.left = @ - 1]
  /\ UNCHANGED <<db, shown, crashes>>

Review == Approve \/ Reject
Retire == Supersede \/ Revoke \/ Expire

Next ==
  \/ Claim \/ Settle \/ Tell \/ Crash
  \/ Propose \/ Review \/ RecordSource \/ LinkEvidence \/ Commit \/ Retire
  \/ List \/ Explain
  \/ Summarise \/ SummaryProposes \/ SummarySkips

Spec == Init /\ [][Next]_vars

-----------------------------------------------------------------------------
(* Properties.                                                             *)

TypeOK ==
  /\ items \in Seq(Row) /\ Len(items) <= MaxItems
  /\ sources \in 0 .. MaxSources
  /\ links \in Seq([judgment_id : Item, source_id : Source]) /\ Len(links) <= MaxLinks
  /\ edges \subseteq [from : Item, to : Item]
  /\ log \in Seq(Seq(Event)) /\ Len(log) = Len(items)
  /\ job \in Job /\ shown \subseteq Id /\ crashes \in 0 .. MaxCrashes

At(i, k, type) == k \in DOMAIN log[i] /\ log[i][k].type = type

(* What is injected into contexts as the baseline of behaviour was approved *)
(* by a user and rests on evidence: each such row was approved, and linked  *)
(* to a source that exists, before it was committed, and has gained no      *)
(* link since (law 3 of docs/JUDGMENT_SYSTEM.md; commitApprovedJudgment).   *)
EligibleIsBacked ==
  \A i \in Active :
    /\ items[i].approval_state = "approved" /\ items[i].authority_source = "user_confirmed"
    /\ SourcesOf(i) # {} /\ SourcesOf(i) \subseteq 1 .. sources
    /\ \E c \in DOMAIN log[i] :
         /\ At(i, c, "committed")
         /\ \E a \in 1 .. c : At(i, a, "approved")
         /\ \A k \in DOMAIN log[i] : At(i, k, "evidence.linked") => k < c

(* The arrays kept in a row never disagree with the links, so that explain  *)
(* and the queries with evidence never throw on it (loadEvidenceBundle).    *)
AlwaysExplained == \A i \in Items : Explainable(i) /\ items[i].evidence_ids = LinksOf(i)

After(type) ==
  CASE type = "proposed" -> <<"proposed", "pending", "history_only", "none", "open">>
    [] type = "approved" -> <<"proposed", "approved", "history_only", "none", "open">>
    [] type = "rejected" -> <<"rejected", "rejected", "excluded", "none", "open">>
    [] type = "committed" -> <<"active", "approved", "eligible", "user_confirmed", "open">>
    [] type = "superseded" -> <<"superseded", "approved", "excluded", "user_confirmed", "open">>
    [] type = "revoked" -> <<"revoked", "approved", "excluded", "user_confirmed", "open">>
    [] type = "expired" -> <<"expired", "approved", "excluded", "user_confirmed", "closed">>

Axes(i) == <<items[i].lifecycle_status, items[i].approval_state, items[i].activation_state,
             items[i].authority_source, items[i].valid_until>>
RefsOf(i, type) == {log[i][k].ref : k \in {h \in DOMAIN log[i] : At(i, h, type)}}

(* Every write is an event (law 11): each row is what its events say, its   *)
(* state that of the last one but for links, its evidence and its           *)
(* replacement those the events name.                                      *)
LogReplays ==
  \A i \in Items :
    /\ \E k \in DOMAIN log[i] :
         /\ log[i][k].type # "evidence.linked" /\ Axes(i) = After(log[i][k].type)
         /\ \A h \in DOMAIN log[i] : h > k => At(i, h, "evidence.linked")
    /\ items[i].evidence_ids = RefsOf(i, "evidence.linked")
    /\ items[i].superseded_by = RefsOf(i, "superseded")

(* The three records of a supersession agree: the edge, the array of the    *)
(* old row and the array of its replacement.  A row is replaced at most     *)
(* once, by a row that had been committed (supersedeJudgment).              *)
Mirrored ==
  \A i \in Items :
    /\ items[i].superseded_by = {e.from : e \in {d \in edges : d.to = i}}
    /\ items[i].supersedes = {e.to : e \in {d \in edges : d.from = i}}
    /\ items[i].superseded_by # {} <=> items[i].lifecycle_status = "superseded"
    /\ \A r, q \in items[i].superseded_by :
         r = q /\ items[r].authority_source = "user_confirmed"

(* Judgments never replace each other in a circle: every set of rows has    *)
(* one that is not replaced from within it, so the chain of replacements of *)
(* any row comes to an end.                                                *)
NoCycle ==
  \A S \in SUBSET Items : S # {} => \E i \in S : items[i].superseded_by \cap S = {}

(* A supersession is one and the same in its three records, and            *)
(* replacements never form a circle (supersedeJudgment).                   *)
ReplacementsAreSound == Mirrored /\ NoCycle

(* A judgment out of use is history: no later command changes its row or    *)
(* its evidence, least of all back to eligible.                            *)
RetiredForGood ==
  [][\A i \in Items : items[i].activation_state = "excluded" =>
       i \in Items' /\ items'[i] = items[i] /\ LinksOf(i)' = LinksOf(i)]_vars

(* A review, a commit or a retirement takes effect at most once, although   *)
(* a crash makes the worker run the command again.                         *)
TransitionsOnce == job.op \in Transitions => job.effects <= 1

(* The append-only log and the rows tell one story, whatever is run again:  *)
(* no event twice, no row without its event, no array without its links.   *)
LogIsTrue == LogReplays /\ AlwaysExplained /\ TransitionsOnce

(* Said by queue/worker.ts:866-870, which lists new proposals and tells the *)
(* user to review them with /judgment_approve <id>: an id that was          *)
(* displayed names its row when it is typed back.                          *)
ShownIdsResolve ==
  job.answer = "not_found" => job.target \notin shown /\ job.other \notin shown
=============================================================================
