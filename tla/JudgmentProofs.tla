--------------------------- MODULE JudgmentProofs ---------------------------
(***************************************************************************)
(* What holds of the judgment rows for every value of the constants.       *)
(*                                                                         *)
(* Every step of the module changes the database in one of ten ways, which *)
(* DbStep lists; the lemma OneOfTen says so once, and the invariants about *)
(* the database are proved from DbStep, not from the actions.              *)
(***************************************************************************)
EXTENDS Judgment, TLAPS

LinkRow == [judgment_id : Item, source_id : Source]

DbOK ==
  /\ items \in Seq(Row) /\ Len(items) <= MaxItems
  /\ sources \in 0 .. MaxSources
  /\ links \in Seq(LinkRow) /\ Len(links) <= MaxLinks
  /\ edges \subseteq [from : Item, to : Item]
  /\ log \in Seq(Seq(Event)) /\ Len(log) = Len(items)

Rest == UNCHANGED <<sources, links, edges>>

ApproveStep(i) == Reviewable(i) /\ Approved(i) /\ Logged(i, "approved", 0) /\ Rest
RejectStep(i) == Reviewable(i) /\ Rejected(i) /\ Logged(i, "rejected", 0) /\ Rest
SourceStep ==
  /\ sources < MaxSources /\ sources' = sources + 1
  /\ UNCHANGED <<items, links, edges, log>>
LinkStep(i, s) ==
  /\ Len(links) < MaxLinks /\ Linkable(i)
  /\ links' = Append(links, [judgment_id |-> i, source_id |-> s])
  /\ Linked(i, s)
  /\ Logged(i, "evidence.linked", Len(links) + 1)
  /\ UNCHANGED <<sources, edges>>
CommitStep(i) == Committable(i) /\ Committed(i) /\ Logged(i, "committed", 0) /\ Rest
SupersedeStep(old, new) ==
  /\ old # new /\ ActiveEligible(old) /\ MayReplace(new, old)
  /\ Superseded(old, new)
  /\ edges' = edges \cup {Edge(new, old)}
  /\ Logged(old, "superseded", new)
  /\ UNCHANGED <<sources, links>>
RevokeStep(i) == ActiveEligible(i) /\ Revoked(i) /\ Logged(i, "revoked", 0) /\ Rest
ExpireStep(i) == ActiveEligible(i) /\ Expired(i) /\ Logged(i, "expired", 0) /\ Rest

DbStep ==
  \/ UNCHANGED db
  \/ Proposed
  \/ SourceStep
  \/ \E i \in Items : ApproveStep(i) \/ RejectStep(i) \/ CommitStep(i)
                      \/ RevokeStep(i) \/ ExpireStep(i)
  \/ \E i \in Items, s \in 1 .. sources : LinkStep(i, s)
  \/ \E old, new \in Items : SupersedeStep(old, new)

(* Every step changes the database in one of these ways.                   *)
LEMMA OneOfTen == [Next]_vars => DbStep
<1> SUFFICES ASSUME [Next]_vars PROVE DbStep
  OBVIOUS
<1> USE DEF db
<1>1. CASE Claim \/ Settle \/ Tell \/ Crash \/ List \/ Explain \/ Summarise \/ SummarySkips
  BY <1>1 DEF Claim, Settle, Tell, Crash, List, Explain, Summarise, SummarySkips, DbStep, Declined
<1>2. CASE Propose \/ SummaryProposes
  BY <1>2 DEF Propose, SummaryProposes, DbStep
<1>3. CASE Approve
  BY <1>3 DEF Approve, Declines, Declined, Target, FoundItems, ApproveStep, Rest, DbStep
<1>4. CASE Reject
  BY <1>4 DEF Reject, Declines, Declined, Target, FoundItems, RejectStep, Rest, DbStep
<1>5. CASE RecordSource
  BY <1>5 DEF RecordSource, SourceStep, DbStep
<1>6. CASE LinkEvidence
  <2>1. Runs("link") => Other = FoundSources(job.other)
    BY DEF Runs, Other
  <2> QED
    BY <1>6, <2>1 DEF LinkEvidence, Declines, Declined, Target, FoundItems, FoundSources, LinkStep, DbStep
<1>7. CASE Commit
  BY <1>7 DEF Commit, Declines, Declined, Target, FoundItems, CommitStep, Rest, DbStep
<1>8. CASE Supersede
  <2>1. Runs("supersede") => Other = FoundItems(job.other)
    BY DEF Runs, Other
  <2> QED
    BY <1>8, <2>1 DEF Supersede, Declines, Declined, Target, FoundItems, SupersedeStep, DbStep
<1>9. CASE Revoke
  BY <1>9 DEF Revoke, Declines, Declined, Target, FoundItems, RevokeStep, Rest, DbStep
<1>10. CASE Expire
  BY <1>10 DEF Expire, Declines, Declined, Target, FoundItems, ExpireStep, Rest, DbStep
<1>11. CASE UNCHANGED vars
  BY <1>11 DEF vars, DbStep
<1> QED
  BY <1>1, <1>2, <1>3, <1>4, <1>5, <1>6, <1>7, <1>8, <1>9, <1>10, <1>11 DEF Next, Review, Retire

-----------------------------------------------------------------------------
(* What the steps do to the rows and the log.                              *)

(* Only row i changes, to r.                                               *)
OnlyRow(i, r) ==
  /\ items' \in Seq(Row) /\ Len(items') = Len(items) /\ Items' = Items
  /\ items'[i] = r
  /\ \A j \in Items : j # i => items'[j] = items[j]

LEMMA RowWritten ==
  ASSUME DbOK, NEW i \in Items, NEW r \in Row, items' = [items EXCEPT ![i] = r]
  PROVE  OnlyRow(i, r)
  BY DEF DbOK, OnlyRow, Items

LEMMA RowOK == ASSUME DbOK, NEW i \in Items PROVE items[i] \in Row
  BY DEF DbOK, Items

(* The row each operation leaves.                                          *)
ApprovedRow(i) == [items[i] EXCEPT !.approval_state = "approved"]
RejectedRow(i) == [items[i] EXCEPT !.approval_state = "rejected", !.lifecycle_status = "rejected",
                                   !.activation_state = "excluded"]
CommittedRow(i) == [items[i] EXCEPT !.lifecycle_status = "active", !.activation_state = "eligible",
                                    !.authority_source = "user_confirmed",
                                    !.evidence_ids = LinksOf(i), !.source_ids = SourcesOf(i)]
RevokedRow(i) == [items[i] EXCEPT !.lifecycle_status = "revoked", !.activation_state = "excluded"]
ExpiredRow(i) == [items[i] EXCEPT !.lifecycle_status = "expired", !.activation_state = "excluded",
                                  !.valid_until = "closed"]
LinkedRow(i, s) == [items[i] EXCEPT !.source_ids = items[i].source_ids \cup {s},
                                    !.evidence_ids = items[i].evidence_ids \cup {Len(links) + 1}]
OldRow(old, new) == [items[old] EXCEPT !.lifecycle_status = "superseded",
                                       !.activation_state = "excluded",
                                       !.superseded_by = items[old].superseded_by \cup {new}]
NewerRow(old, new) == [items[new] EXCEPT !.supersedes = items[new].supersedes \cup {old}]

LEMMA LinksTyped ==
  ASSUME DbOK, NEW i
  PROVE  LinksOf(i) \subseteq Link /\ SourcesOf(i) \subseteq Source
<1>1. \A l \in DOMAIN links : l \in Link /\ links[l] \in LinkRow
  BY JudgmentAssumption DEF DbOK, Link
<1> QED
  BY <1>1 DEF LinksOf, SourcesOf, LinkRow

LEMMA ApproveRow == ASSUME DbOK, NEW i \in Items, Approved(i) PROVE OnlyRow(i, ApprovedRow(i))
<1>1. ApprovedRow(i) \in Row
  BY RowOK DEF ApprovedRow, Row
<1>2. items' = [items EXCEPT ![i] = ApprovedRow(i)]
  BY DEF Approved, ApprovedRow, Items, DbOK
<1> QED BY <1>1, <1>2, RowWritten

LEMMA RejectRow == ASSUME DbOK, NEW i \in Items, Rejected(i) PROVE OnlyRow(i, RejectedRow(i))
<1>1. RejectedRow(i) \in Row
  BY RowOK DEF RejectedRow, Row
<1>2. items' = [items EXCEPT ![i] = RejectedRow(i)]
  BY DEF Rejected, RejectedRow, Items, DbOK
<1> QED BY <1>1, <1>2, RowWritten

LEMMA CommitRow == ASSUME DbOK, NEW i \in Items, Committed(i) PROVE OnlyRow(i, CommittedRow(i))
<1>1. CommittedRow(i) \in Row
  BY RowOK, LinksTyped DEF CommittedRow, Row
<1>2. items' = [items EXCEPT ![i] = CommittedRow(i)]
  BY DEF Committed, CommittedRow, Items, DbOK
<1> QED BY <1>1, <1>2, RowWritten

LEMMA RevokeRow == ASSUME DbOK, NEW i \in Items, Revoked(i) PROVE OnlyRow(i, RevokedRow(i))
<1>1. RevokedRow(i) \in Row
  BY RowOK DEF RevokedRow, Row
<1>2. items' = [items EXCEPT ![i] = RevokedRow(i)]
  BY DEF Revoked, RevokedRow, Items, DbOK
<1> QED BY <1>1, <1>2, RowWritten

LEMMA ExpireRow == ASSUME DbOK, NEW i \in Items, Expired(i) PROVE OnlyRow(i, ExpiredRow(i))
<1>1. ExpiredRow(i) \in Row
  BY RowOK DEF ExpiredRow, Row
<1>2. items' = [items EXCEPT ![i] = ExpiredRow(i)]
  BY DEF Expired, ExpiredRow, Items, DbOK
<1> QED BY <1>1, <1>2, RowWritten

LEMMA LinkRowWritten ==
  ASSUME DbOK, NEW i \in Items, NEW s \in 1 .. sources, Len(links) < MaxLinks, Linked(i, s)
  PROVE  OnlyRow(i, LinkedRow(i, s))
<1>1. s \in Source /\ Len(links) + 1 \in Link
  BY JudgmentAssumption DEF DbOK, Source, Link
<1>2. LinkedRow(i, s) \in Row
  BY <1>1, RowOK DEF LinkedRow, Row
<1>3. items' = [items EXCEPT ![i] = LinkedRow(i, s)]
  BY DEF Linked, LinkedRow, Items, DbOK
<1> QED BY <1>2, <1>3, RowWritten

LEMMA SupersedeRows ==
  ASSUME DbOK, NEW old \in Items, NEW new \in Items, old # new, Superseded(old, new)
  PROVE  /\ items' \in Seq(Row) /\ Len(items') = Len(items) /\ Items' = Items
         /\ items'[old] = OldRow(old, new)
         /\ items'[new] = NewerRow(old, new)
         /\ \A j \in Items : j # old /\ j # new => items'[j] = items[j]
<1>1. old \in Item /\ new \in Item
  BY JudgmentAssumption DEF DbOK, Items, Item
<1>2. OldRow(old, new) \in Row /\ NewerRow(old, new) \in Row
  BY <1>1, RowOK DEF OldRow, NewerRow, Row
<1>3. items' = [items EXCEPT ![old] = OldRow(old, new), ![new] = NewerRow(old, new)]
  BY DEF Superseded, OldRow, NewerRow, Items, DbOK
<1> QED
  BY <1>2, <1>3 DEF DbOK, Items

(* One event is appended to the log of row i.                              *)
LEMMA LogGrows ==
  ASSUME DbOK, NEW i \in Items, NEW type \in Events, NEW ref \in Nat, Logged(i, type, ref)
  PROVE  /\ log' \in Seq(Seq(Event)) /\ Len(log') = Len(log)
         /\ log'[i] = Append(log[i], [type |-> type, ref |-> ref])
         /\ \A j \in Items : j # i => log'[j] = log[j]
<1>1. log[i] \in Seq(Event) /\ [type |-> type, ref |-> ref] \in Event
  BY DEF DbOK, Items, Event
<1>2. Append(log[i], [type |-> type, ref |-> ref]) \in Seq(Event)
  BY <1>1
<1>3. log' = [log EXCEPT ![i] = Append(log[i], [type |-> type, ref |-> ref])]
  BY DEF Logged, DbOK, Items
<1> QED
  BY <1>2, <1>3 DEF DbOK, Items

-----------------------------------------------------------------------------
(* Type correctness.                                                       *)

LEMMA DbStays == ASSUME DbOK, DbStep PROVE DbOK'
<1>1. CASE UNCHANGED db
  BY <1>1 DEF db, DbOK
<1>2. CASE Proposed
  <2>1. NewRow \in Row /\ << [type |-> "proposed", ref |-> 0] >> \in Seq(Event)
    BY DEF NewRow, Row, Event, Events
  <2>2. items' \in Seq(Row) /\ Len(items') = Len(items) + 1
    BY <1>2, <2>1 DEF Proposed, DbOK
  <2>3. log' \in Seq(Seq(Event)) /\ Len(log') = Len(log) + 1
    BY <1>2, <2>1 DEF Proposed, DbOK
  <2> QED
    BY <1>2, <2>2, <2>3, JudgmentAssumption DEF Proposed, DbOK
<1>3. CASE SourceStep
  BY <1>3, JudgmentAssumption DEF SourceStep, DbOK
<1>4. ASSUME NEW i \in Items, ApproveStep(i) PROVE DbOK'
  BY <1>4, ApproveRow, LogGrows DEF ApproveStep, Rest, OnlyRow, DbOK, Events
<1>5. ASSUME NEW i \in Items, RejectStep(i) PROVE DbOK'
  BY <1>5, RejectRow, LogGrows DEF RejectStep, Rest, OnlyRow, DbOK, Events
<1>6. ASSUME NEW i \in Items, CommitStep(i) PROVE DbOK'
  BY <1>6, CommitRow, LogGrows DEF CommitStep, Rest, OnlyRow, DbOK, Events
<1>7. ASSUME NEW i \in Items, RevokeStep(i) PROVE DbOK'
  BY <1>7, RevokeRow, LogGrows DEF RevokeStep, Rest, OnlyRow, DbOK, Events
<1>8. ASSUME NEW i \in Items, ExpireStep(i) PROVE DbOK'
  BY <1>8, ExpireRow, LogGrows DEF ExpireStep, Rest, OnlyRow, DbOK, Events
<1>9. ASSUME NEW i \in Items, NEW s \in 1 .. sources, LinkStep(i, s) PROVE DbOK'
  <2>1. OnlyRow(i, LinkedRow(i, s))
    BY <1>9, LinkRowWritten DEF LinkStep
  <2>2. log' \in Seq(Seq(Event)) /\ Len(log') = Len(log)
    <3>1. Len(links) + 1 \in Nat /\ "evidence.linked" \in Events
      BY DEF DbOK, Events
    <3> QED BY <1>9, <3>1, LogGrows DEF LinkStep
  <2>3. [judgment_id |-> i, source_id |-> s] \in LinkRow
    BY JudgmentAssumption DEF DbOK, LinkRow, Item, Items, Source
  <2>4. links' \in Seq(LinkRow) /\ Len(links') = Len(links) + 1
    BY <1>9, <2>3 DEF LinkStep, DbOK
  <2>5. sources' = sources /\ edges' = edges /\ Len(links) < MaxLinks
    BY <1>9 DEF LinkStep
  <2> QED
    BY <2>1, <2>2, <2>4, <2>5, JudgmentAssumption DEF OnlyRow, DbOK
<1>10. ASSUME NEW old \in Items, NEW new \in Items, SupersedeStep(old, new) PROVE DbOK'
  <2>1. items' \in Seq(Row) /\ Len(items') = Len(items)
    BY <1>10, SupersedeRows DEF SupersedeStep
  <2>2. log' \in Seq(Seq(Event)) /\ Len(log') = Len(log)
    <3>1. new \in Nat /\ "superseded" \in Events
      BY DEF DbOK, Items, Events
    <3> QED BY <1>10, <3>1, LogGrows DEF SupersedeStep
  <2>3. old \in Item /\ new \in Item
    BY JudgmentAssumption DEF DbOK, Items, Item
  <2>4. Edge(new, old) \in [from : Item, to : Item]
    BY <2>3 DEF Edge
  <2>5. edges' \subseteq [from : Item, to : Item]
    BY <1>10, <2>4 DEF SupersedeStep, DbOK
  <2> QED
    BY <1>10, <2>1, <2>2, <2>5 DEF SupersedeStep, DbOK
<1> QED
  BY <1>1, <1>2, <1>3, <1>4, <1>5, <1>6, <1>7, <1>8, <1>9, <1>10 DEF DbStep

JobOK == job \in Job /\ shown \subseteq Id /\ crashes \in 0 .. MaxCrashes

LEMMA TypeIsBoth == TypeOK <=> DbOK /\ JobOK
  BY DEF TypeOK, DbOK, JobOK, LinkRow

(* Ids that can be written, and jobs that can be claimed, are well formed.  *)
LEMMA KnownIds == ASSUME JobOK, NEW t \in {"judgment", "source"} PROVE Known(t) \subseteq Id
<1>1. \A n \in Nat : Whole(t, n) \in Id
  BY DEF Whole, Id
<1>2. CASE ReadsDatabase
  <2>1. PICK k \in Nat : Known(t) = {Whole(t, n) : n \in 1 .. k}
    <3>1. CASE t = "judgment"
      BY <1>2, <3>1, JudgmentAssumption DEF Known
    <3>2. CASE t = "source"
      BY <1>2, <3>2, JudgmentAssumption DEF Known
    <3> QED BY <3>1, <3>2
  <2> QED BY <1>1, <2>1
<1>3. CASE ~ReadsDatabase
  BY <1>3 DEF Known, JobOK
<1> QED BY <1>2, <1>3

LEMMA DisplayedIds ==
  ASSUME NEW t \in {"judgment", "source"}, NEW n \in Nat PROVE Displayed(t, n) \in Id
  BY DEF Displayed, Whole, Id

LEMMA IdleOK == Idle \in Job
  BY JudgmentAssumption DEF Idle, Job, Id, NoId, Commands, Reads, Transitions

LEMMA JobStays == ASSUME TypeOK, [Next]_vars PROVE JobOK'
<1> USE TypeIsBoth, JudgmentAssumption
<1>0. JobOK /\ DbOK /\ job \in Job
  BY DEF JobOK
<1>a. ASSUME NEW ids \in SUBSET Id, Done(ids), UNCHANGED <<shown, crashes>> PROVE JobOK'
  <2>1. job' = [job EXCEPT !.phase = "answered", !.answer = "ok",
                           !.effects = job.effects + 1, !.fresh = ids]
    BY <1>a DEF Done
  <2>2. job.effects + 1 \in Nat /\ ids \in SUBSET Id
    BY <1>0 DEF Job
  <2>3. job' \in Job
    BY <1>0, <2>1, <2>2 DEF Job
  <2> QED BY <1>0, <1>a, <2>3 DEF JobOK
<1>b. ASSUME NEW code \in {"refused", "not_found"}, Declined(code), UNCHANGED <<shown, crashes>>
      PROVE JobOK'
  BY <1>0, <1>b DEF Declined, JobOK, Job
<1>1. CASE Claim
  <2>1. PICK op \in Commands, target \in Id, other \in Id :
          job' = [Idle EXCEPT !.op = op, !.target = target, !.other = other,
                              !.phase = "claimed", !.claims = 1]
    <3>1. NoId \in Id
      BY DEF NoId, Id
    <3>2. Known("judgment") \subseteq Id /\ Known("source") \subseteq Id
      BY <1>0, KnownIds
    <3>3. \A op \in Commands :
            /\ (IF op \in NamesItem THEN Known("judgment") ELSE {NoId}) \subseteq Id
            /\ (CASE op = "link" -> Known("source") [] op = "supersede" -> Known("judgment")
                  [] OTHER -> {NoId}) \subseteq Id
      BY <3>1, <3>2
    <3>4. PICK op \in Commands :
            \E target \in (IF op \in NamesItem THEN Known("judgment") ELSE {NoId}),
               other \in (CASE op = "link" -> Known("source")
                            [] op = "supersede" -> Known("judgment")
                            [] OTHER -> {NoId}) :
              job' = [Idle EXCEPT !.op = op, !.target = target, !.other = other,
                                  !.phase = "claimed", !.claims = 1]
      BY <1>1 DEF Claim
    <3> QED BY <3>3, <3>4
  <2>2. 1 \in 0 .. MaxAttempts
    BY JudgmentAssumption
  <2>3. job' \in Job
    BY <2>1, <2>2, IdleOK DEF Job, Idle
  <2> QED BY <1>0, <1>1, <2>3 DEF Claim, JobOK
<1>2. CASE Settle
  BY <1>0, <1>2 DEF Settle, JobOK, Job
<1>3. CASE Tell
  BY <1>0, <1>3, IdleOK DEF Tell, JobOK, Job
<1>4. CASE Crash
  <2>1. CASE job.phase # "settled" /\ job.claims < MaxAttempts
    <3>1. job.claims + 1 \in 0 .. MaxAttempts
      BY <1>0, <2>1, JudgmentAssumption DEF Job
    <3>2. job' = [job EXCEPT !.phase = "claimed", !.claims = job.claims + 1,
                             !.answer = "none", !.fresh = {}]
      BY <1>4, <2>1 DEF Crash
    <3>3. job' \in Job
      BY <1>0, <3>1, <3>2 DEF Job
    <3> QED BY <1>0, <1>4, <3>3 DEF Crash, JobOK
  <2>2. CASE ~(job.phase # "settled" /\ job.claims < MaxAttempts)
    BY <1>0, <1>4, <2>2, IdleOK DEF Crash, JobOK
  <2> QED BY <2>1, <2>2
<1>5. CASE Propose
  <2>1. {Displayed("judgment", Len(items) + 1)} \in SUBSET Id
    BY <1>0, DisplayedIds DEF DbOK
  <2> QED BY <1>5, <1>a, <2>1 DEF Propose
<1>6. CASE RecordSource
  <2>1. {Displayed("source", sources + 1)} \in SUBSET Id
    BY <1>0, DisplayedIds DEF DbOK
  <2> QED BY <1>6, <1>a, <2>1 DEF RecordSource
<1>7. CASE Approve
  BY <1>7, <1>a, <1>b DEF Approve, Declines
<1>8. CASE Reject
  BY <1>8, <1>a, <1>b DEF Reject, Declines
<1>9. CASE LinkEvidence
  BY <1>9, <1>a, <1>b DEF LinkEvidence, Declines
<1>10. CASE Commit
  BY <1>10, <1>a, <1>b DEF Commit, Declines
<1>11. CASE Supersede
  BY <1>11, <1>a, <1>b DEF Supersede, Declines
<1>12. CASE Revoke
  BY <1>12, <1>a, <1>b DEF Revoke, Declines
<1>13. CASE Expire
  BY <1>13, <1>a, <1>b DEF Expire, Declines
<1>14. CASE List
  <2>1. PICK S \in Listings : Done({Displayed("judgment", i) : i \in S})
    BY <1>14 DEF List
  <2>2. S \subseteq Nat
    BY <1>0 DEF Listings, Active, Items, DbOK
  <2>3. {Displayed("judgment", i) : i \in S} \in SUBSET Id
    BY <2>2, DisplayedIds
  <2> QED BY <1>14, <1>a, <2>1, <2>3 DEF List
<1>15. CASE Explain
  BY <1>15, <1>a, <1>b DEF Explain
<1>16. CASE Summarise
  <2>1. PICK n \in 1 .. MaxBatch :
          job' = [Idle EXCEPT !.op = "summary", !.phase = "settled", !.left = n]
    BY <1>16 DEF Summarise
  <2>2. n \in 0 .. MaxBatch
    OBVIOUS
  <2>3. job' \in Job
    BY <2>1, <2>2, IdleOK DEF Job, Idle
  <2> QED BY <1>0, <1>16, <2>3 DEF Summarise, JobOK
<1>17. CASE SummaryProposes
  <2>1. Displayed("judgment", Len(items) + 1) \in Id
    BY <1>0, DisplayedIds DEF DbOK
  <2>2. job.left - 1 \in 0 .. MaxBatch
    BY <1>0, <1>17 DEF SummaryProposes, Job
  <2>3. job' = [job EXCEPT !.left = job.left - 1,
                           !.fresh = job.fresh \cup {Displayed("judgment", Len(items) + 1)}]
    BY <1>17 DEF SummaryProposes
  <2>4. job' \in Job
    BY <1>0, <2>1, <2>2, <2>3 DEF Job
  <2> QED BY <1>0, <1>17, <2>4 DEF SummaryProposes, JobOK
<1>18. CASE SummarySkips
  BY <1>0, <1>18 DEF SummarySkips, JobOK, Job
<1>19. CASE UNCHANGED vars
  BY <1>0, <1>19 DEF vars, JobOK
<1> QED
  BY <1>1, <1>2, <1>3, <1>4, <1>5, <1>6, <1>7, <1>8, <1>9, <1>10, <1>11, <1>12, <1>13, <1>14,
     <1>15, <1>16, <1>17, <1>18, <1>19 DEF Next, Review, Retire

(* Every reachable state has its type.                                     *)
THEOREM TypeCorrect == Spec => []TypeOK
<1>1. Init => TypeOK
  BY IdleOK, JudgmentAssumption DEF Init, TypeOK
<1>2. TypeOK /\ [Next]_vars => TypeOK'
  <2> SUFFICES ASSUME TypeOK, [Next]_vars PROVE TypeOK'
    OBVIOUS
  <2>1. DbOK'
    BY TypeIsBoth, OneOfTen, DbStays
  <2> QED BY <2>1, JobStays, TypeIsBoth DEF TypeOK, DbOK, JobOK, LinkRow
<1> QED BY <1>1, <1>2, PTL DEF Spec

-----------------------------------------------------------------------------
(* Rows out of use.                                                        *)

LEMMA ProposedRows ==
  ASSUME DbOK, Proposed
  PROVE  /\ Items' = Items \cup {Len(items) + 1} /\ Len(items) + 1 \notin Items
         /\ \A i \in Items : items'[i] = items[i] /\ log'[i] = log[i]
         /\ items'[Len(items) + 1] = NewRow
         /\ log'[Len(items) + 1] = << [type |-> "proposed", ref |-> 0] >>
         /\ UNCHANGED <<sources, links, edges>>
  BY DEF DbOK, Proposed, Items

(* A link is added to the links of its judgment and to no others.          *)
LEMMA LinkAdded ==
  ASSUME DbOK, NEW i, NEW s, links' = Append(links, [judgment_id |-> i, source_id |-> s])
  PROVE  /\ DOMAIN links' = DOMAIN links \cup {Len(links) + 1}
         /\ \A l \in DOMAIN links : links'[l] = links[l]
         /\ links'[Len(links) + 1] = [judgment_id |-> i, source_id |-> s]
         /\ LinksOf(i)' = LinksOf(i) \cup {Len(links) + 1}
         /\ \A j : j # i => LinksOf(j)' = LinksOf(j)
<1>1. /\ DOMAIN links' = DOMAIN links \cup {Len(links) + 1}
      /\ \A l \in DOMAIN links : links'[l] = links[l]
      /\ links'[Len(links) + 1] = [judgment_id |-> i, source_id |-> s]
      /\ Len(links) + 1 \notin DOMAIN links
  BY DEF DbOK
<1>2. LinksOf(i)' = LinksOf(i) \cup {Len(links) + 1}
  BY <1>1 DEF LinksOf
<1>3. ASSUME NEW j, j # i PROVE LinksOf(j)' = LinksOf(j)
  BY <1>1, <1>3 DEF LinksOf
<1> QED BY <1>1, <1>2, <1>3

LEMMA SameLinks == ASSUME UNCHANGED links, NEW j PROVE LinksOf(j)' = LinksOf(j)
  BY DEF LinksOf

RetiredStep ==
  \A i \in Items : items[i].activation_state = "excluded" =>
    i \in Items' /\ items'[i] = items[i] /\ LinksOf(i)' = LinksOf(i)

LEMMA RetiredStays == ASSUME DbOK, DbStep PROVE RetiredStep
<1>0. SUFFICES ASSUME NEW i \in Items, items[i].activation_state = "excluded"
               PROVE  i \in Items' /\ items'[i] = items[i] /\ LinksOf(i)' = LinksOf(i)
  BY DEF RetiredStep
<1>1. CASE UNCHANGED db
  BY <1>1, SameLinks DEF db, Items
<1>2. CASE Proposed
  BY <1>2, ProposedRows, SameLinks
<1>3. CASE SourceStep
  BY <1>3, SameLinks DEF SourceStep, Items
<1>4. ASSUME NEW j \in Items,
             ApproveStep(j) \/ RejectStep(j) \/ CommitStep(j) \/ RevokeStep(j) \/ ExpireStep(j)
      PROVE  i \in Items' /\ items'[i] = items[i] /\ LinksOf(i)' = LinksOf(i)
  <2>1. j # i
    BY <1>0, <1>4 DEF ApproveStep, RejectStep, CommitStep, RevokeStep, ExpireStep,
                      Reviewable, Committable, ActiveEligible
  <2>2. \E r : OnlyRow(j, r)
    BY <1>4, ApproveRow, RejectRow, CommitRow, RevokeRow, ExpireRow
       DEF ApproveStep, RejectStep, CommitStep, RevokeStep, ExpireStep
  <2>3. UNCHANGED links
    BY <1>4 DEF ApproveStep, RejectStep, CommitStep, RevokeStep, ExpireStep, Rest
  <2> QED BY <2>1, <2>2, <2>3, SameLinks DEF OnlyRow
<1>5. ASSUME NEW j \in Items, NEW s \in 1 .. sources, LinkStep(j, s)
      PROVE  i \in Items' /\ items'[i] = items[i] /\ LinksOf(i)' = LinksOf(i)
  <2>1. j # i
    BY <1>0, <1>5 DEF LinkStep, Linkable
  <2>2. OnlyRow(j, LinkedRow(j, s))
    BY <1>5, LinkRowWritten DEF LinkStep
  <2>3. LinksOf(i)' = LinksOf(i)
    BY <1>5, <2>1, LinkAdded DEF LinkStep
  <2> QED BY <2>1, <2>2, <2>3 DEF OnlyRow
<1>6. ASSUME NEW old \in Items, NEW new \in Items, SupersedeStep(old, new)
      PROVE  i \in Items' /\ items'[i] = items[i] /\ LinksOf(i)' = LinksOf(i)
  <2>1. old # i /\ new # i
    BY <1>0, <1>6 DEF SupersedeStep, MayReplace, ActiveEligible
  <2>2. UNCHANGED links
    BY <1>6 DEF SupersedeStep
  <2> QED BY <1>6, <2>1, <2>2, SupersedeRows, SameLinks DEF SupersedeStep
<1> QED
  BY <1>1, <1>2, <1>3, <1>4, <1>5, <1>6 DEF DbStep

(* RetiredForGood: a row out of use and its evidence never change again.    *)
THEOREM RetiredIsFinal == Spec => RetiredForGood
<1>1. TypeOK /\ [Next]_vars => RetiredStep
  BY TypeIsBoth, OneOfTen, RetiredStays
<1>2. RetiredStep => [\A i \in Items : items[i].activation_state = "excluded" =>
                       i \in Items' /\ items'[i] = items[i] /\ LinksOf(i)' = LinksOf(i)]_vars
  BY DEF RetiredStep
<1> QED BY <1>1, <1>2, TypeCorrect, PTL DEF Spec, RetiredForGood

-----------------------------------------------------------------------------
(* Supersession.  The new edge goes from a row that is not replaced to one  *)
(* that was not, so it closes no circle: in a set of rows that the old one  *)
(* shares with its replacement, the replacement is not replaced from        *)
(* within.                                                                 *)

SupersessionInv ==
  /\ edges \subseteq [from : Items, to : Items]
  /\ \A i \in Items : items[i].lifecycle_status = "active" =>
                        items[i].authority_source = "user_confirmed"
  /\ Mirrored
  /\ NoCycle

(* Writing a row without touching what the invariant is about keeps it.    *)
LEMMA SupersessionFrame ==
  ASSUME SupersessionInv, NEW i \in Items, NEW r, OnlyRow(i, r), UNCHANGED edges,
         r.superseded_by = items[i].superseded_by, r.supersedes = items[i].supersedes,
         r.lifecycle_status = "superseded" <=> items[i].lifecycle_status = "superseded",
         r.lifecycle_status = "active" => r.authority_source = "user_confirmed",
         items[i].authority_source = "user_confirmed" => r.authority_source = "user_confirmed"
  PROVE  SupersessionInv'
<1>1. /\ Items' = Items
      /\ \A j \in Items :
           /\ items'[j].superseded_by = items[j].superseded_by
           /\ items'[j].supersedes = items[j].supersedes
           /\ items'[j].lifecycle_status = "superseded"
                <=> items[j].lifecycle_status = "superseded"
           /\ items'[j].lifecycle_status = "active" => items'[j].authority_source = "user_confirmed"
           /\ items[j].authority_source = "user_confirmed"
                => items'[j].authority_source = "user_confirmed"
  BY DEF OnlyRow, SupersessionInv
<1>2. \A j \in Items : items[j].superseded_by \subseteq Items
  BY DEF SupersessionInv, Mirrored
<1>3. Mirrored'
  BY <1>1, <1>2 DEF Mirrored, SupersessionInv
<1>4. NoCycle'
  BY <1>1 DEF NoCycle, SupersessionInv
<1> QED BY <1>1, <1>3, <1>4 DEF SupersessionInv

LEMMA SupersessionStays == ASSUME DbOK, SupersessionInv, DbStep PROVE SupersessionInv'
<1>1. CASE UNCHANGED db \/ SourceStep
  <2>1. UNCHANGED <<items, edges>>
    BY <1>1 DEF db, SourceStep
  <2> QED BY <2>1 DEF SupersessionInv, Mirrored, NoCycle, Items
<1>2. CASE Proposed
  <2> DEFINE n == Len(items) + 1
  <2>1. /\ Items' = Items \cup {n} /\ n \notin Items /\ edges' = edges
        /\ \A i \in Items : items'[i] = items[i]
        /\ items'[n] = NewRow
    BY <1>2, ProposedRows
  <2>2. \A j \in Items : items[j].superseded_by \subseteq Items
    BY DEF SupersessionInv, Mirrored
  <2>3. \A e \in edges : e.from # n /\ e.to # n
    BY <2>1 DEF SupersessionInv
  <2> HIDE DEF n
  <2>4. Mirrored'
    <3>1. SUFFICES ASSUME NEW i \in Items'
          PROVE  /\ items'[i].superseded_by = {e.from : e \in {d \in edges' : d.to = i}}
                 /\ items'[i].supersedes = {e.to : e \in {d \in edges' : d.from = i}}
                 /\ items'[i].superseded_by # {} <=> items'[i].lifecycle_status = "superseded"
                 /\ \A r, q \in items'[i].superseded_by :
                      r = q /\ items'[r].authority_source = "user_confirmed"
      BY DEF Mirrored
    <3>2. CASE i = n
      BY <2>1, <2>3, <3>2 DEF NewRow
    <3>3. CASE i \in Items
      BY <2>1, <2>2, <3>3 DEF SupersessionInv, Mirrored
    <3> QED BY <2>1, <3>2, <3>3
  <2>5. NoCycle'
    <3>1. SUFFICES ASSUME NEW S \in SUBSET Items', S # {}
          PROVE  \E i \in S : items'[i].superseded_by \cap S = {}
      BY DEF NoCycle
    <3>2. CASE n \in S
      BY <2>1, <3>2 DEF NewRow
    <3>3. CASE n \notin S
      <4>1. S \in SUBSET Items
        BY <2>1, <3>3
      <4> QED BY <2>1, <3>1, <4>1 DEF SupersessionInv, NoCycle
    <3> QED BY <3>2, <3>3
  <2>6. edges' \subseteq [from : Items', to : Items']
    BY <2>1 DEF SupersessionInv
  <2>7. \A i \in Items' : items'[i].lifecycle_status = "active" =>
                           items'[i].authority_source = "user_confirmed"
    BY <2>1 DEF SupersessionInv, NewRow
  <2> QED BY <2>4, <2>5, <2>6, <2>7 DEF SupersessionInv
<1>3. ASSUME NEW i \in Items, ApproveStep(i) PROVE SupersessionInv'
  <2>1. OnlyRow(i, ApprovedRow(i)) /\ UNCHANGED edges /\ Reviewable(i)
    BY <1>3, ApproveRow DEF ApproveStep, Rest
  <2>2. items[i] \in Row
    BY RowOK
  <2> QED BY <2>1, <2>2, SupersessionFrame DEF ApprovedRow, Row, Reviewable
<1>4. ASSUME NEW i \in Items, RejectStep(i) PROVE SupersessionInv'
  <2>1. OnlyRow(i, RejectedRow(i)) /\ UNCHANGED edges /\ Reviewable(i)
    BY <1>4, RejectRow DEF RejectStep, Rest
  <2>2. items[i] \in Row
    BY RowOK
  <2> QED BY <2>1, <2>2, SupersessionFrame DEF RejectedRow, Row, Reviewable
<1>5. ASSUME NEW i \in Items, CommitStep(i) PROVE SupersessionInv'
  <2>1. OnlyRow(i, CommittedRow(i)) /\ UNCHANGED edges /\ Committable(i)
    BY <1>5, CommitRow DEF CommitStep, Rest
  <2>2. items[i] \in Row
    BY RowOK
  <2> QED BY <2>1, <2>2, SupersessionFrame DEF CommittedRow, Row, Committable
<1>6. ASSUME NEW i \in Items, RevokeStep(i) PROVE SupersessionInv'
  <2>1. OnlyRow(i, RevokedRow(i)) /\ UNCHANGED edges /\ ActiveEligible(i)
    BY <1>6, RevokeRow DEF RevokeStep, Rest
  <2>2. items[i] \in Row
    BY RowOK
  <2> QED BY <2>1, <2>2, SupersessionFrame DEF RevokedRow, Row, ActiveEligible
<1>7. ASSUME NEW i \in Items, ExpireStep(i) PROVE SupersessionInv'
  <2>1. OnlyRow(i, ExpiredRow(i)) /\ UNCHANGED edges /\ ActiveEligible(i)
    BY <1>7, ExpireRow DEF ExpireStep, Rest
  <2>2. items[i] \in Row
    BY RowOK
  <2> QED BY <2>1, <2>2, SupersessionFrame DEF ExpiredRow, Row, ActiveEligible
<1>8. ASSUME NEW i \in Items, NEW s \in 1 .. sources, LinkStep(i, s) PROVE SupersessionInv'
  <2>1. OnlyRow(i, LinkedRow(i, s)) /\ UNCHANGED edges /\ Linkable(i)
    BY <1>8, LinkRowWritten DEF LinkStep
  <2>2. items[i] \in Row
    BY RowOK
  <2> QED BY <2>1, <2>2, SupersessionFrame DEF LinkedRow, Row, Linkable
<1>9. ASSUME NEW old \in Items, NEW new \in Items, SupersedeStep(old, new)
      PROVE  SupersessionInv'
  <2>1. /\ old # new /\ ActiveEligible(old) /\ ActiveEligible(new)
        /\ edges' = edges \cup {Edge(new, old)}
    BY <1>9 DEF SupersedeStep, MayReplace
  <2>2. /\ Items' = Items
        /\ items'[old] = OldRow(old, new) /\ items'[new] = NewerRow(old, new)
        /\ \A j \in Items : j # old /\ j # new => items'[j] = items[j]
    BY <1>9, <2>1, SupersedeRows DEF SupersedeStep
  <2>3. items[old] \in Row /\ items[new] \in Row
    BY RowOK
  <2>4. items[old].superseded_by = {} /\ items[new].superseded_by = {}
    BY <2>1 DEF SupersessionInv, Mirrored, ActiveEligible
  <2>5. /\ items'[old].superseded_by = {new} /\ items'[new].superseded_by = {}
        /\ items'[old].lifecycle_status = "superseded"
        /\ items'[new].lifecycle_status = "active"
        /\ items'[new].authority_source = "user_confirmed"
        /\ items'[old].supersedes = items[old].supersedes
        /\ items'[new].supersedes = items[new].supersedes \cup {old}
        /\ items'[old].authority_source = items[old].authority_source
    BY <2>1, <2>2, <2>3, <2>4 DEF OldRow, NewerRow, Row, ActiveEligible, SupersessionInv
  <2>6. \A e \in [from : Items, to : Items] : e.from \in Items /\ e.to \in Items
    OBVIOUS
  <2>7. Edge(new, old).from = new /\ Edge(new, old).to = old
        /\ Edge(new, old) \in [from : Items, to : Items]
    BY DEF Edge
  <2>8. Mirrored'
    <3>1. SUFFICES ASSUME NEW i \in Items
          PROVE  /\ items'[i].superseded_by = {e.from : e \in {d \in edges' : d.to = i}}
                 /\ items'[i].supersedes = {e.to : e \in {d \in edges' : d.from = i}}
                 /\ items'[i].superseded_by # {} <=> items'[i].lifecycle_status = "superseded"
                 /\ \A r, q \in items'[i].superseded_by :
                      r = q /\ items'[r].authority_source = "user_confirmed"
      BY <2>2 DEF Mirrored
    <3>2. /\ items[i].superseded_by = {e.from : e \in {d \in edges : d.to = i}}
          /\ items[i].supersedes = {e.to : e \in {d \in edges : d.from = i}}
          /\ items[i].superseded_by # {} <=> items[i].lifecycle_status = "superseded"
          /\ \A r, q \in items[i].superseded_by :
               r = q /\ items[r].authority_source = "user_confirmed"
          /\ items[i].superseded_by \subseteq Items
      BY DEF SupersessionInv, Mirrored
    <3>3. CASE i = old
      <4>1. {e.from : e \in {d \in edges' : d.to = i}} = {new}
        BY <2>1, <2>4, <2>7, <3>2, <3>3
      <4>2. {e.to : e \in {d \in edges' : d.from = i}} = items[i].supersedes
        BY <2>1, <2>7, <3>2, <3>3
      <4> QED BY <2>5, <3>3, <4>1, <4>2
    <3>4. CASE i = new
      <4>1. {e.from : e \in {d \in edges' : d.to = i}} = {}
        BY <2>1, <2>4, <2>7, <3>2, <3>4
      <4>2. {e.to : e \in {d \in edges' : d.from = i}} = items[i].supersedes \cup {old}
        BY <2>1, <2>7, <3>2, <3>4
      <4> QED BY <2>5, <3>4, <4>1, <4>2
    <3>5. CASE i # old /\ i # new
      <4>1. {d \in edges' : d.to = i} = {d \in edges : d.to = i}
            /\ {d \in edges' : d.from = i} = {d \in edges : d.from = i}
        BY <2>1, <2>7, <3>5
      <4>2. \A r \in Items : items[r].authority_source = "user_confirmed"
                             => items'[r].authority_source = "user_confirmed"
        BY <2>2, <2>5
      <4>3. items'[i] = items[i]
        BY <2>2, <3>5
      <4> QED BY <3>2, <4>1, <4>2, <4>3
    <3> QED BY <3>3, <3>4, <3>5
  <2>9. NoCycle'
    <3>1. SUFFICES ASSUME NEW S \in SUBSET Items, S # {}
          PROVE  \E i \in S : items'[i].superseded_by \cap S = {}
      BY <2>2 DEF NoCycle
    <3>2. PICK w \in S : items[w].superseded_by \cap S = {}
      BY <3>1 DEF SupersessionInv, NoCycle
    <3>3. CASE w = old /\ new \in S
      BY <2>5, <3>3
    <3>4. CASE w = old /\ new \notin S
      BY <2>5, <3>4
    <3>5. CASE w # old
      BY <2>2, <2>5, <3>2, <3>5
    <3> QED BY <3>3, <3>4, <3>5
  <2>10. edges' \subseteq [from : Items', to : Items']
    BY <2>1, <2>2, <2>7 DEF SupersessionInv
  <2>11. \A i \in Items' : items'[i].lifecycle_status = "active" =>
                            items'[i].authority_source = "user_confirmed"
    BY <2>2, <2>5 DEF SupersessionInv
  <2> QED BY <2>8, <2>9, <2>10, <2>11 DEF SupersessionInv
<1> QED
  BY <1>1, <1>2, <1>3, <1>4, <1>5, <1>6, <1>7, <1>8, <1>9 DEF DbStep

(* The three records of a supersession agree (Mirrored), and               *)
(* judgments never replace each other in a circle (NoCycle).               *)
THEOREM SupersessionIsSound == Spec => []ReplacementsAreSound
<1>1. Init => SupersessionInv
  BY DEF Init, SupersessionInv, Mirrored, NoCycle, Items
<1>2. TypeOK /\ SupersessionInv /\ [Next]_vars => SupersessionInv'
  BY TypeIsBoth, OneOfTen, SupersessionStays
<1>3. SupersessionInv => ReplacementsAreSound
  BY DEF SupersessionInv, ReplacementsAreSound
<1> QED BY <1>1, <1>2, <1>3, TypeCorrect, PTL DEF Spec

-----------------------------------------------------------------------------
(* The rows, the links and the log.                                        *)

(* Links are of known rows and known sources.                              *)
LinksKnown ==
  \A l \in DOMAIN links : links[l].judgment_id \in Items /\ links[l].source_id \in 1 .. sources

Explained(i) == Explainable(i) /\ items[i].evidence_ids = LinksOf(i)

(* A row of which the approval is recorded has the event.                  *)
ApprovalLogged(i) ==
  items[i].approval_state = "approved" => \E a \in DOMAIN log[i] : At(i, a, "approved")

(* Event c committed the row, which had been approved, and no link follows. *)
CommittedAt(i, c) ==
  /\ At(i, c, "committed")
  /\ \E a \in 1 .. c : At(i, a, "approved")
  /\ \A k \in DOMAIN log[i] : At(i, k, "evidence.linked") => k < c

CommitLogged(i) ==
  items[i].lifecycle_status = "active" =>
    LinksOf(i) # {} /\ \E c \in DOMAIN log[i] : CommittedAt(i, c)

(* The event n is appended to the log of row i.                            *)
LEMMA Appended ==
  ASSUME DbOK, NEW i \in Items, NEW type \in Events, NEW ref \in Nat, Logged(i, type, ref),
         NEW n, n = Len(log[i]) + 1
  PROVE  /\ n \in Nat \ {0} /\ n \notin DOMAIN log[i] /\ DOMAIN log'[i] = DOMAIN log[i] \cup {n}
         /\ \A k \in DOMAIN log[i] : log'[i][k] = log[i][k] /\ k \in 1 .. n /\ k < n
         /\ log'[i][n].type = type /\ log'[i][n].ref = ref
         /\ \A j \in Items : j # i => log'[j] = log[j]
<1>1. log[i] \in Seq(Event)
  BY DEF DbOK, Items
<1>2. /\ log'[i] = Append(log[i], [type |-> type, ref |-> ref])
      /\ \A j \in Items : j # i => log'[j] = log[j]
  BY LogGrows
<1>3. /\ DOMAIN log[i] = 1 .. Len(log[i]) /\ Len(log[i]) \in Nat
      /\ DOMAIN log'[i] = 1 .. n /\ log'[i][n] = [type |-> type, ref |-> ref]
      /\ \A k \in 1 .. Len(log[i]) : log'[i][k] = log[i][k]
  BY <1>1, <1>2
<1> QED
  BY <1>2, <1>3

(* An event adds what it names to its row's references, and to no other's.   *)
LEMMA RefsGrow ==
  ASSUME DbOK, NEW i \in Items, NEW type \in Events, NEW ref \in Nat, Logged(i, type, ref)
  PROVE  /\ RefsOf(i, type)' = RefsOf(i, type) \cup {ref}
         /\ \A t : t # type => RefsOf(i, t)' = RefsOf(i, t)
         /\ \A j \in Items : j # i => \A t : RefsOf(j, t)' = RefsOf(j, t)
<1> PICK n : n = Len(log[i]) + 1
  OBVIOUS
<1>1. /\ n \notin DOMAIN log[i] /\ DOMAIN log'[i] = DOMAIN log[i] \cup {n}
      /\ \A k \in DOMAIN log[i] : log'[i][k] = log[i][k]
      /\ log'[i][n].type = type /\ log'[i][n].ref = ref
      /\ \A j \in Items : j # i => log'[j] = log[j]
  BY Appended
<1>2. RefsOf(i, type)' = RefsOf(i, type) \cup {ref}
  BY <1>1 DEF RefsOf, At
<1>3. ASSUME NEW t, t # type PROVE RefsOf(i, t)' = RefsOf(i, t)
  BY <1>1, <1>3 DEF RefsOf, At
<1>4. ASSUME NEW j \in Items, NEW t, j # i PROVE RefsOf(j, t)' = RefsOf(j, t)
  BY <1>1, <1>4 DEF RefsOf, At
<1> QED
  BY <1>2, <1>3, <1>4

(* The state of a row is what it became at event k, and only links follow.  *)
StateAt(i, k) ==
  /\ log[i][k].type # "evidence.linked" /\ Axes(i) = After(log[i][k].type)
  /\ \A h \in DOMAIN log[i] : h > k => At(i, h, "evidence.linked")

(* Row i as the log says it is.                                            *)
Replays(i) ==
  /\ \E k \in DOMAIN log[i] : StateAt(i, k)
  /\ items[i].evidence_ids = RefsOf(i, "evidence.linked")
  /\ items[i].superseded_by = RefsOf(i, "superseded")

LEMMA StateKnown ==
  ASSUME DbOK, NEW i \in Items, Replays(i)
  PROVE  \E k \in DOMAIN log[i] : StateAt(i, k) /\ log[i][k].type \in Events
<1>1. PICK k \in DOMAIN log[i] : StateAt(i, k)
  BY DEF Replays
<1>2. log[i][k] \in Event
  BY DEF DbOK, Items
<1> QED BY <1>1, <1>2 DEF Event

LEMMA AfterEach ==
  /\ After("proposed") = <<"proposed", "pending", "history_only", "none", "open">>
  /\ After("approved") = <<"proposed", "approved", "history_only", "none", "open">>
  /\ After("rejected") = <<"rejected", "rejected", "excluded", "none", "open">>
  /\ After("committed") = <<"active", "approved", "eligible", "user_confirmed", "open">>
  /\ After("superseded") = <<"superseded", "approved", "excluded", "user_confirmed", "open">>
  /\ After("revoked") = <<"revoked", "approved", "excluded", "user_confirmed", "open">>
  /\ After("expired") = <<"expired", "approved", "excluded", "user_confirmed", "closed">>
  BY DEF After

(* The state of a row, axis by axis.                                       *)
Axis(i, a, b, c, d, e) ==
  /\ items[i].lifecycle_status = a /\ items[i].approval_state = b
  /\ items[i].activation_state = c /\ items[i].authority_source = d
  /\ items[i].valid_until = e

LEMMA AxisAfter ==
  ASSUME NEW i, NEW a, NEW b, NEW c, NEW d, NEW e
  PROVE  Axes(i) = <<a, b, c, d, e>> <=> Axis(i, a, b, c, d, e)
  BY DEF Axes, Axis

(* What the other axes are, given where the row is.                        *)
LEMMA AxesKnown ==
  ASSUME DbOK, NEW i \in Items, Replays(i)
  PROVE  /\ items[i].lifecycle_status = "proposed" =>
              items[i].authority_source = "none" /\ items[i].valid_until = "open"
         /\ items[i].lifecycle_status = "active" =>
              /\ items[i].approval_state = "approved"
              /\ items[i].authority_source = "user_confirmed" /\ items[i].valid_until = "open"
<1>1. PICK k \in DOMAIN log[i] : StateAt(i, k) /\ log[i][k].type \in Events
  BY StateKnown
<1>2. /\ Axes(i) = After(log[i][k].type) /\ log[i][k].type # "evidence.linked"
      /\ log[i][k].type \in Events
  BY <1>1 DEF StateAt
<1>3. \/ Axis(i, "proposed", "pending", "history_only", "none", "open")
      \/ Axis(i, "proposed", "approved", "history_only", "none", "open")
      \/ Axis(i, "rejected", "rejected", "excluded", "none", "open")
      \/ Axis(i, "active", "approved", "eligible", "user_confirmed", "open")
      \/ Axis(i, "superseded", "approved", "excluded", "user_confirmed", "open")
      \/ Axis(i, "revoked", "approved", "excluded", "user_confirmed", "open")
      \/ Axis(i, "expired", "approved", "excluded", "user_confirmed", "closed")
  BY <1>2, AfterEach, AxisAfter DEF Events
<1> QED BY <1>3 DEF Axis

-----------------------------------------------------------------------------
(* The rows are what the log says.                                         *)

LEMMA ReplaysAll == LogReplays <=> \A i \in Items : Replays(i)
  BY DEF LogReplays, Replays, StateAt

(* A row that keeps its state and its log replays as before.               *)
LEMMA ReplaysKept ==
  ASSUME NEW i, Replays(i), log'[i] = log[i], Axes(i)' = Axes(i),
         items'[i].evidence_ids = items[i].evidence_ids,
         items'[i].superseded_by = items[i].superseded_by
  PROVE  Replays(i)'
<1>1. \A t : RefsOf(i, t)' = RefsOf(i, t)
  BY DEF RefsOf, At
<1> QED BY <1>1 DEF Replays, StateAt, At

(* A transition: the state of the row is that of the event.                *)
LEMMA EventReplays ==
  ASSUME DbOK, NEW i \in Items, NEW type \in Events, NEW ref \in Nat,
         Logged(i, type, ref), type # "evidence.linked", Axes(i)' = After(type)
  PROVE  \E k \in DOMAIN log'[i] : StateAt(i, k)'
<1> PICK n : n = Len(log[i]) + 1
  OBVIOUS
<1>1. /\ n \in Nat /\ DOMAIN log'[i] = DOMAIN log[i] \cup {n}
      /\ \A k \in DOMAIN log[i] : k \in 1 .. n /\ k < n
      /\ log'[i][n].type = type
  BY Appended
<1>2. \A h \in DOMAIN log'[i] : ~(h > n)
  BY <1>1
<1> QED BY <1>1, <1>2 DEF StateAt

LEMMA ReplaysEvent ==
  ASSUME DbOK, NEW i \in Items, Replays(i), NEW type \in Events, NEW ref \in Nat,
         Logged(i, type, ref), type \notin {"evidence.linked", "superseded"},
         Axes(i)' = After(type),
         items'[i].evidence_ids = items[i].evidence_ids,
         items'[i].superseded_by = items[i].superseded_by
  PROVE  Replays(i)'
<1>1. /\ RefsOf(i, "evidence.linked")' = RefsOf(i, "evidence.linked")
      /\ RefsOf(i, "superseded")' = RefsOf(i, "superseded")
  BY RefsGrow
<1>2. \E k \in DOMAIN log'[i] : StateAt(i, k)'
  BY EventReplays
<1> QED BY <1>1, <1>2 DEF Replays

LEMMA ReplaysSuperseded ==
  ASSUME DbOK, NEW i \in Items, Replays(i), NEW ref \in Nat,
         Logged(i, "superseded", ref), Axes(i)' = After("superseded"),
         items'[i].evidence_ids = items[i].evidence_ids,
         items'[i].superseded_by = items[i].superseded_by \cup {ref}
  PROVE  Replays(i)'
<1>0. "superseded" \in Events
  BY DEF Events
<1>1. /\ RefsOf(i, "evidence.linked")' = RefsOf(i, "evidence.linked")
      /\ RefsOf(i, "superseded")' = RefsOf(i, "superseded") \cup {ref}
  BY <1>0, RefsGrow
<1>2. \E k \in DOMAIN log'[i] : StateAt(i, k)'
  BY <1>0, EventReplays
<1> QED BY <1>1, <1>2 DEF Replays

(* A link leaves the state where it was.                                   *)
LEMMA ReplaysLinked ==
  ASSUME DbOK, NEW i \in Items, Replays(i), NEW ref \in Nat,
         Logged(i, "evidence.linked", ref), Axes(i)' = Axes(i),
         items'[i].evidence_ids = items[i].evidence_ids \cup {ref},
         items'[i].superseded_by = items[i].superseded_by
  PROVE  Replays(i)'
<1>0. "evidence.linked" \in Events
  BY DEF Events
<1>1. /\ RefsOf(i, "evidence.linked")' = RefsOf(i, "evidence.linked") \cup {ref}
      /\ RefsOf(i, "superseded")' = RefsOf(i, "superseded")
  BY <1>0, RefsGrow
<1> PICK n : n = Len(log[i]) + 1
  OBVIOUS
<1>2. /\ n \in Nat /\ DOMAIN log'[i] = DOMAIN log[i] \cup {n}
      /\ \A k \in DOMAIN log[i] : log'[i][k] = log[i][k]
      /\ log'[i][n].type = "evidence.linked"
  BY <1>0, Appended
<1>3. PICK k \in DOMAIN log[i] : StateAt(i, k)
  BY DEF Replays
<1>4. StateAt(i, k)'
  <2>1. log'[i][k].type # "evidence.linked" /\ Axes(i)' = After(log'[i][k].type)
    BY <1>2, <1>3 DEF StateAt
  <2>2. ASSUME NEW h \in DOMAIN log'[i], h > k PROVE At(i, h, "evidence.linked")'
    <3>1. CASE h = n
      BY <1>2, <3>1 DEF At
    <3>2. CASE h \in DOMAIN log[i]
      BY <1>2, <1>3, <2>2, <3>2 DEF StateAt, At
    <3> QED BY <1>2, <3>1, <3>2
  <2> QED BY <2>1, <2>2 DEF StateAt
<1>5. k \in DOMAIN log'[i]
  BY <1>2
<1> QED BY <1>1, <1>4, <1>5 DEF Replays

-----------------------------------------------------------------------------
(* What is kept of each row.                                               *)

RowInv(i) == Replays(i) /\ Explained(i) /\ ApprovalLogged(i) /\ CommitLogged(i)

LogInv == LinksKnown /\ \A i \in Items : RowInv(i)

(* A row with the same state, arrays, links and log.                       *)
SameStory(i) ==
  /\ Axes(i)' = Axes(i)
  /\ items'[i].lifecycle_status = items[i].lifecycle_status
  /\ items'[i].approval_state = items[i].approval_state
  /\ items'[i].evidence_ids = items[i].evidence_ids
  /\ items'[i].source_ids = items[i].source_ids
  /\ items'[i].superseded_by = items[i].superseded_by
  /\ log'[i] = log[i]

LEMMA SameRowSameStory ==
  ASSUME NEW i, items'[i] = items[i], log'[i] = log[i] PROVE SameStory(i)
  BY DEF SameStory, Axes

SameEvidence(i) == LinksOf(i)' = LinksOf(i) /\ SourcesOf(i)' = SourcesOf(i)

LEMMA SameLinksEvidence == ASSUME UNCHANGED links, NEW i PROVE SameEvidence(i)
  BY DEF SameEvidence, SourcesOf, LinksOf

LEMMA RowKept ==
  ASSUME DbOK, NEW i, RowInv(i), SameStory(i), SameEvidence(i), sources' \in Nat, sources <= sources'
  PROVE  RowInv(i)'
<1>1. Replays(i)'
  BY ReplaysKept DEF RowInv, SameStory
<1>2. Explained(i)'
  BY DEF RowInv, Explained, Explainable, SameStory, SameEvidence, DbOK
<1>3. ApprovalLogged(i)'
  BY DEF RowInv, ApprovalLogged, SameStory, At
<1>4. CommitLogged(i)'
  BY DEF RowInv, CommitLogged, CommittedAt, SameStory, SameEvidence, At
<1> QED BY <1>1, <1>2, <1>3, <1>4 DEF RowInv

LEMMA AtStays ==
  ASSUME DbOK, NEW i \in Items, NEW type \in Events, NEW ref \in Nat, Logged(i, type, ref),
         NEW k \in DOMAIN log[i], NEW t, At(i, k, t)
  PROVE  At(i, k, t)'
<1> PICK n : n = Len(log[i]) + 1
  OBVIOUS
<1>1. DOMAIN log'[i] = DOMAIN log[i] \cup {n} /\ log'[i][k] = log[i][k]
  BY Appended
<1> QED BY <1>1 DEF At

(* A row that is not active after its event, and whose approval stands.    *)
LEMMA RowLeft ==
  ASSUME DbOK, NEW i \in Items, RowInv(i), Replays(i)', Explained(i)',
         NEW type \in Events, NEW ref \in Nat, Logged(i, type, ref),
         items'[i].lifecycle_status # "active",
         items'[i].approval_state = "approved" => items[i].approval_state = "approved"
  PROVE  RowInv(i)'
<1>1. ApprovalLogged(i)'
  <2>1. SUFFICES ASSUME items'[i].approval_state = "approved"
                 PROVE  \E a \in DOMAIN log'[i] : At(i, a, "approved")'
    BY DEF ApprovalLogged
  <2>2. PICK a \in DOMAIN log[i] : At(i, a, "approved")
    BY <2>1 DEF RowInv, ApprovalLogged
  <2>3. At(i, a, "approved")'
    BY <2>2, AtStays
  <2> QED BY <2>3 DEF At
<1>2. CommitLogged(i)'
  BY DEF CommitLogged
<1> QED BY <1>1, <1>2 DEF RowInv

(* What a step that touches no link does to the evidence of its row.       *)
LEMMA ExplainedKept ==
  ASSUME NEW i, Explained(i), UNCHANGED <<links, sources>>,
         items'[i].evidence_ids = items[i].evidence_ids,
         items'[i].source_ids = items[i].source_ids
  PROVE  Explained(i)'
<1>1. SameEvidence(i)
  BY SameLinksEvidence
<1> QED BY <1>1 DEF Explained, Explainable, SameEvidence

LEMMA ApproveKeepsRow ==
  ASSUME DbOK, NEW i \in Items, RowInv(i), ApproveStep(i) PROVE RowInv(i)'
<1>0. /\ items[i] \in Row /\ Reviewable(i) /\ UNCHANGED <<links, sources>>
      /\ Logged(i, "approved", 0) /\ "approved" \in Events
      /\ items'[i] = ApprovedRow(i)
  BY RowOK, ApproveRow DEF ApproveStep, Rest, Events, OnlyRow
<1>1. /\ items'[i].lifecycle_status = "proposed" /\ items'[i].approval_state = "approved"
      /\ items'[i].activation_state = "history_only"
      /\ items'[i].authority_source = items[i].authority_source
      /\ items'[i].valid_until = items[i].valid_until
      /\ items'[i].evidence_ids = items[i].evidence_ids
      /\ items'[i].source_ids = items[i].source_ids
      /\ items'[i].superseded_by = items[i].superseded_by
  BY <1>0 DEF ApprovedRow, Row, Reviewable
<1>2. items[i].authority_source = "none" /\ items[i].valid_until = "open"
  BY <1>0, AxesKnown DEF RowInv, Reviewable
<1>3. Axes(i)' = After("approved")
  BY <1>1, <1>2, AfterEach DEF Axes
<1>4. Replays(i)'
  BY <1>0, <1>1, <1>3, ReplaysEvent DEF RowInv
<1>5. Explained(i)'
  BY <1>0, <1>1, ExplainedKept DEF RowInv
<1>6. ApprovalLogged(i)'
  <2> PICK n : n = Len(log[i]) + 1
    OBVIOUS
  <2>1. n \in DOMAIN log'[i] /\ log'[i][n].type = "approved"
    BY <1>0, Appended
  <2> QED BY <2>1 DEF ApprovalLogged, At
<1>7. CommitLogged(i)'
  BY <1>1 DEF CommitLogged
<1> QED BY <1>4, <1>5, <1>6, <1>7 DEF RowInv

LEMMA RejectKeepsRow ==
  ASSUME DbOK, NEW i \in Items, RowInv(i), RejectStep(i) PROVE RowInv(i)'
<1>0. /\ items[i] \in Row /\ Reviewable(i) /\ UNCHANGED <<links, sources>>
      /\ Logged(i, "rejected", 0) /\ "rejected" \in Events
      /\ items'[i] = RejectedRow(i)
  BY RowOK, RejectRow DEF RejectStep, Rest, Events, OnlyRow
<1>1. /\ items'[i].lifecycle_status = "rejected" /\ items'[i].approval_state = "rejected"
      /\ items'[i].activation_state = "excluded"
      /\ items'[i].authority_source = items[i].authority_source
      /\ items'[i].valid_until = items[i].valid_until
      /\ items'[i].evidence_ids = items[i].evidence_ids
      /\ items'[i].source_ids = items[i].source_ids
      /\ items'[i].superseded_by = items[i].superseded_by
  BY <1>0 DEF RejectedRow, Row, Reviewable
<1>2. items[i].authority_source = "none" /\ items[i].valid_until = "open"
  BY <1>0, AxesKnown DEF RowInv, Reviewable
<1>3. Axes(i)' = After("rejected")
  BY <1>1, <1>2, AfterEach DEF Axes
<1>4. Replays(i)'
  BY <1>0, <1>1, <1>3, ReplaysEvent DEF RowInv
<1>5. Explained(i)'
  BY <1>0, <1>1, ExplainedKept DEF RowInv
<1> QED BY <1>0, <1>1, <1>4, <1>5, RowLeft

(* A row that is retired by revoke or expire.                              *)
LEMMA RevokeKeepsRow ==
  ASSUME DbOK, NEW i \in Items, RowInv(i), RevokeStep(i) PROVE RowInv(i)'
<1>0. /\ items[i] \in Row /\ ActiveEligible(i) /\ UNCHANGED <<links, sources>>
      /\ Logged(i, "revoked", 0) /\ "revoked" \in Events
      /\ items'[i] = RevokedRow(i)
  BY RowOK, RevokeRow DEF RevokeStep, Rest, Events, OnlyRow
<1>1. /\ items'[i].lifecycle_status = "revoked" /\ items'[i].approval_state = "approved"
      /\ items'[i].activation_state = "excluded"
      /\ items'[i].authority_source = items[i].authority_source
      /\ items'[i].valid_until = items[i].valid_until
      /\ items'[i].evidence_ids = items[i].evidence_ids
      /\ items'[i].source_ids = items[i].source_ids
      /\ items'[i].superseded_by = items[i].superseded_by
  BY <1>0 DEF RevokedRow, Row, ActiveEligible
<1>2. items[i].authority_source = "user_confirmed" /\ items[i].valid_until = "open"
  BY <1>0, AxesKnown DEF RowInv, ActiveEligible
<1>3. Axes(i)' = After("revoked")
  BY <1>1, <1>2, AfterEach DEF Axes
<1>4. Replays(i)'
  BY <1>0, <1>1, <1>3, ReplaysEvent DEF RowInv
<1>5. Explained(i)'
  BY <1>0, <1>1, ExplainedKept DEF RowInv
<1>6. items[i].approval_state = "approved"
  BY <1>0 DEF ActiveEligible
<1> QED BY <1>0, <1>1, <1>4, <1>5, <1>6, RowLeft

LEMMA ExpireKeepsRow ==
  ASSUME DbOK, NEW i \in Items, RowInv(i), ExpireStep(i) PROVE RowInv(i)'
<1>0. /\ items[i] \in Row /\ ActiveEligible(i) /\ UNCHANGED <<links, sources>>
      /\ Logged(i, "expired", 0) /\ "expired" \in Events
      /\ items'[i] = ExpiredRow(i)
  BY RowOK, ExpireRow DEF ExpireStep, Rest, Events, OnlyRow
<1>1. /\ items'[i].lifecycle_status = "expired" /\ items'[i].approval_state = "approved"
      /\ items'[i].activation_state = "excluded" /\ items'[i].valid_until = "closed"
      /\ items'[i].authority_source = items[i].authority_source
      /\ items'[i].evidence_ids = items[i].evidence_ids
      /\ items'[i].source_ids = items[i].source_ids
      /\ items'[i].superseded_by = items[i].superseded_by
  BY <1>0 DEF ExpiredRow, Row, ActiveEligible
<1>2. items[i].authority_source = "user_confirmed"
  BY <1>0, AxesKnown DEF RowInv, ActiveEligible
<1>3. Axes(i)' = After("expired")
  BY <1>1, <1>2, AfterEach DEF Axes
<1>4. Replays(i)'
  BY <1>0, <1>1, <1>3, ReplaysEvent DEF RowInv
<1>5. Explained(i)'
  BY <1>0, <1>1, ExplainedKept DEF RowInv
<1>6. items[i].approval_state = "approved"
  BY <1>0 DEF ActiveEligible
<1> QED BY <1>0, <1>1, <1>4, <1>5, <1>6, RowLeft

(* The row that is replaced, and the one that replaces it.                 *)
LEMMA SupersedeKeepsRows ==
  ASSUME DbOK, NEW old \in Items, NEW new \in Items, RowInv(old), RowInv(new),
         SupersedeStep(old, new)
  PROVE  RowInv(old)' /\ RowInv(new)'
<1>0. /\ items[old] \in Row /\ items[new] \in Row /\ ActiveEligible(old)
      /\ UNCHANGED <<links, sources>> /\ sources \in Nat /\ old # new
      /\ Logged(old, "superseded", new) /\ "superseded" \in Events /\ new \in Nat
      /\ items'[old] = OldRow(old, new) /\ items'[new] = NewerRow(old, new)
  BY RowOK, SupersedeRows DEF SupersedeStep, Events, DbOK, Items
<1>1. /\ items'[old].lifecycle_status = "superseded" /\ items'[old].approval_state = "approved"
      /\ items'[old].activation_state = "excluded"
      /\ items'[old].authority_source = items[old].authority_source
      /\ items'[old].valid_until = items[old].valid_until
      /\ items'[old].evidence_ids = items[old].evidence_ids
      /\ items'[old].source_ids = items[old].source_ids
      /\ items'[old].superseded_by = items[old].superseded_by \cup {new}
  BY <1>0 DEF OldRow, Row, ActiveEligible
<1>2. items[old].authority_source = "user_confirmed" /\ items[old].valid_until = "open"
  BY <1>0, AxesKnown DEF RowInv, ActiveEligible
<1>3. Axes(old)' = After("superseded")
  BY <1>1, <1>2, AfterEach DEF Axes
<1>4. Replays(old)'
  BY <1>0, <1>1, <1>3, ReplaysSuperseded DEF RowInv
<1>5. Explained(old)'
  BY <1>0, <1>1, ExplainedKept DEF RowInv
<1>6. items[old].approval_state = "approved"
  BY <1>0 DEF ActiveEligible
<1>7. RowInv(old)'
  BY <1>0, <1>1, <1>4, <1>5, <1>6, RowLeft
<1>8. log'[new] = log[new]
  BY <1>0, LogGrows
<1>9. SameStory(new)
  BY <1>0, <1>8 DEF SameStory, Axes, NewerRow, Row
<1>10. SameEvidence(new)
  BY <1>0, SameLinksEvidence
<1>11. RowInv(new)'
  BY <1>0, <1>9, <1>10, RowKept
<1> QED BY <1>7, <1>11

LEMMA CommitKeepsRow ==
  ASSUME DbOK, NEW i \in Items, RowInv(i), CommitStep(i) PROVE RowInv(i)'
<1>0. /\ items[i] \in Row /\ Committable(i) /\ UNCHANGED <<links, sources>>
      /\ Logged(i, "committed", 0) /\ "committed" \in Events
      /\ items'[i] = CommittedRow(i)
  BY RowOK, CommitRow DEF CommitStep, Rest, Events, OnlyRow
<1>1. /\ items'[i].lifecycle_status = "active" /\ items'[i].approval_state = "approved"
      /\ items'[i].activation_state = "eligible"
      /\ items'[i].authority_source = "user_confirmed"
      /\ items'[i].valid_until = items[i].valid_until
      /\ items'[i].evidence_ids = LinksOf(i)
      /\ items'[i].source_ids = SourcesOf(i)
      /\ items'[i].superseded_by = items[i].superseded_by
  BY <1>0 DEF CommittedRow, Row, Committable
<1>2. items[i].valid_until = "open"
  BY <1>0, AxesKnown DEF RowInv, Committable
<1>3. Axes(i)' = After("committed")
  BY <1>1, <1>2, AfterEach DEF Axes
<1>4. items'[i].evidence_ids = items[i].evidence_ids
  BY <1>1 DEF RowInv, Explained
<1>5. Replays(i)'
  BY <1>0, <1>1, <1>3, <1>4, ReplaysEvent DEF RowInv
<1>6. SameEvidence(i)
  BY <1>0, SameLinksEvidence
<1>7. Explained(i)'
  BY <1>0, <1>1, <1>6 DEF RowInv, Explained, Explainable, SameEvidence
<1> PICK n : n = Len(log[i]) + 1
  OBVIOUS
<1>8. /\ n \in Nat /\ DOMAIN log'[i] = DOMAIN log[i] \cup {n}
      /\ \A k \in DOMAIN log[i] : k \in 1 .. n /\ k < n
      /\ log'[i][n].type = "committed"
  BY <1>0, Appended
<1>9. PICK a \in DOMAIN log[i] : At(i, a, "approved")
  BY <1>0 DEF RowInv, ApprovalLogged, Committable
<1>10. At(i, a, "approved")'
  BY <1>0, <1>9, AtStays
<1>11. ApprovalLogged(i)'
  BY <1>8, <1>10 DEF ApprovalLogged
<1>12. CommittedAt(i, n)'
  <2>1. At(i, n, "committed")'
    BY <1>8 DEF At
  <2>2. \E b \in 1 .. n : At(i, b, "approved")'
    BY <1>8, <1>10
  <2>3. \A k \in DOMAIN log'[i] : At(i, k, "evidence.linked")' => k < n
    BY <1>8 DEF At
  <2> QED BY <2>1, <2>2, <2>3 DEF CommittedAt
<1>13. LinksOf(i)' # {}
  BY <1>0, <1>6 DEF Committable, SameEvidence
<1>14. CommitLogged(i)'
  BY <1>8, <1>12, <1>13 DEF CommitLogged
<1> QED BY <1>5, <1>7, <1>11, <1>14 DEF RowInv

LEMMA LinkKeepsRow ==
  ASSUME DbOK, NEW i \in Items, NEW s \in 1 .. sources, RowInv(i), LinkStep(i, s)
  PROVE  /\ RowInv(i)' /\ \A j : j # i => SameEvidence(j)
<1> PICK l : l = Len(links) + 1
  OBVIOUS
<1>0. /\ items[i] \in Row /\ Linkable(i) /\ sources' = sources
      /\ Logged(i, "evidence.linked", l) /\ "evidence.linked" \in Events /\ l \in Nat
      /\ items'[i] = LinkedRow(i, s)
  BY RowOK, LinkRowWritten DEF LinkStep, Events, OnlyRow, DbOK
<1>1. /\ items'[i].lifecycle_status = "proposed"
      /\ items'[i].lifecycle_status = items[i].lifecycle_status
      /\ items'[i].approval_state = items[i].approval_state
      /\ items'[i].activation_state = items[i].activation_state
      /\ items'[i].authority_source = items[i].authority_source
      /\ items'[i].valid_until = items[i].valid_until
      /\ items'[i].evidence_ids = items[i].evidence_ids \cup {l}
      /\ items'[i].source_ids = items[i].source_ids \cup {s}
      /\ items'[i].superseded_by = items[i].superseded_by
  BY <1>0 DEF LinkedRow, Row, Linkable
<1>2. Axes(i)' = Axes(i)
  BY <1>1 DEF Axes
<1>3. Replays(i)'
  BY <1>0, <1>1, <1>2, ReplaysLinked DEF RowInv
<1>4. /\ DOMAIN links' = DOMAIN links \cup {l}
      /\ \A k \in DOMAIN links : links'[k] = links[k]
      /\ links'[l].judgment_id = i /\ links'[l].source_id = s
      /\ LinksOf(i)' = LinksOf(i) \cup {l}
      /\ \A j : j # i => LinksOf(j)' = LinksOf(j)
  BY LinkAdded DEF LinkStep
<1>5. SourcesOf(i)' = SourcesOf(i) \cup {s}
  BY <1>4 DEF SourcesOf, LinksOf
<1>6. ASSUME NEW j, j # i PROVE SameEvidence(j)
  BY <1>4, <1>6 DEF SameEvidence, SourcesOf, LinksOf
<1>7. Explained(i)'
  BY <1>0, <1>1, <1>4, <1>5 DEF RowInv, Explained, Explainable
<1>8. RowInv(i)'
  BY <1>0, <1>1, <1>3, <1>7, RowLeft
<1> QED BY <1>6, <1>8

LEMMA ProposedRowKept ==
  ASSUME DbOK, LinksKnown, Proposed, NEW n, n = Len(items) + 1
  PROVE  RowInv(n)'
<1>1. /\ n \notin Items /\ items'[n] = NewRow /\ links' = links
      /\ log'[n] = << [type |-> "proposed", ref |-> 0] >>
  BY ProposedRows DEF Proposed, DbOK
<1>2. DOMAIN log'[n] = {1} /\ log'[n][1].type = "proposed"
  BY <1>1
<1>3. \A t : t # "proposed" => RefsOf(n, t)' = {}
  BY <1>2 DEF RefsOf, At
<1>4. LinksOf(n)' = {} /\ SourcesOf(n)' = {}
  BY <1>1 DEF LinksKnown, LinksOf, SourcesOf
<1>5. Axes(n)' = After("proposed")
  BY <1>1, AfterEach DEF Axes, NewRow
<1>6. StateAt(n, 1)'
  <2>1. \A h \in DOMAIN log'[n] : ~(h > 1)
    BY <1>2
  <2> QED BY <1>2, <1>5, <2>1 DEF StateAt
<1>7. Replays(n)'
  <2>1. /\ items'[n].evidence_ids = {} /\ items'[n].superseded_by = {}
    BY <1>1 DEF NewRow
  <2> QED BY <1>2, <1>3, <1>6, <2>1 DEF Replays
<1>8. Explained(n)'
  BY <1>1, <1>4 DEF Explained, Explainable, NewRow
<1>9. ApprovalLogged(n)' /\ CommitLogged(n)'
  BY <1>1 DEF ApprovalLogged, CommitLogged, NewRow
<1> QED BY <1>7, <1>8, <1>9 DEF RowInv

(* Only the log and the row of i change.                                   *)
LEMMA OthersKept ==
  ASSUME DbOK, NEW i \in Items, NEW r, OnlyRow(i, r), NEW type \in Events, NEW ref \in Nat,
         Logged(i, type, ref), sources' = sources,
         \A j : j # i => SameEvidence(j), \A j \in Items : RowInv(j), RowInv(i)'
  PROVE  \A j \in Items' : RowInv(j)'
<1>1. Items' = Items /\ sources' \in Nat /\ sources <= sources'
  BY DEF OnlyRow, DbOK
<1>2. ASSUME NEW j \in Items, j # i PROVE RowInv(j)'
  <2>1. items'[j] = items[j] /\ log'[j] = log[j]
    BY <1>2, LogGrows DEF OnlyRow
  <2>2. SameStory(j) /\ SameEvidence(j)
    BY <1>2, <2>1, SameRowSameStory
  <2> QED BY <1>1, <2>2, RowKept
<1> QED BY <1>1, <1>2

LEMMA LinksStay ==
  ASSUME LinksKnown, UNCHANGED links, Items \subseteq Items', sources \in Nat, sources' \in Nat,
         sources <= sources'
  PROVE  LinksKnown'
  BY DEF LinksKnown

LEMMA LogStays == ASSUME DbOK, LogInv, DbStep PROVE LogInv'
<1>0. LinksKnown /\ \A i \in Items : RowInv(i)
  BY DEF LogInv
<1>a. sources \in Nat
  BY DEF DbOK
<1>b. ASSUME NEW i \in Items, NEW r, OnlyRow(i, r), NEW type \in Events,
             Logged(i, type, 0), Rest, RowInv(i)'
      PROVE  LogInv'
  <2>1. \A j : SameEvidence(j)
    BY <1>b, SameLinksEvidence DEF Rest
  <2>2. \A j \in Items' : RowInv(j)'
    BY <1>0, <1>b, <2>1, OthersKept DEF Rest
  <2>3. LinksKnown'
    BY <1>0, <1>a, <1>b, LinksStay DEF Rest, OnlyRow
  <2> QED BY <2>2, <2>3 DEF LogInv
<1>1. CASE UNCHANGED db
  BY <1>1 DEF db, LogInv, LinksKnown, RowInv, Replays, StateAt, Axes, RefsOf, At, Explained, Explainable,
              ApprovalLogged, CommitLogged, CommittedAt, LinksOf, SourcesOf, Items
<1>2. CASE Proposed
  <2> PICK n : n = Len(items) + 1
    OBVIOUS
  <2>1. /\ Items' = Items \cup {n} /\ UNCHANGED <<links, sources>>
        /\ \A j \in Items : items'[j] = items[j] /\ log'[j] = log[j]
    BY <1>2, ProposedRows DEF Proposed, DbOK, Items
  <2>2. RowInv(n)'
    BY <1>0, <1>2, ProposedRowKept
  <2>3. ASSUME NEW j \in Items PROVE RowInv(j)'
    <3>1. SameStory(j) /\ SameEvidence(j)
      BY <2>1, SameRowSameStory, SameLinksEvidence
    <3> QED BY <1>0, <1>a, <2>1, <3>1, RowKept
  <2>4. LinksKnown'
    BY <1>0, <1>a, <2>1, LinksStay
  <2> QED BY <2>1, <2>2, <2>3, <2>4 DEF LogInv
<1>3. CASE SourceStep
  <2>1. /\ Items' = Items /\ UNCHANGED <<items, links, log>>
        /\ sources' \in Nat /\ sources <= sources'
    BY <1>a, <1>3 DEF SourceStep, Items
  <2>2. ASSUME NEW j \in Items PROVE RowInv(j)'
    <3>1. SameStory(j) /\ SameEvidence(j)
      BY <2>1, SameRowSameStory, SameLinksEvidence
    <3> QED BY <1>0, <2>1, <3>1, RowKept
  <2>3. LinksKnown'
    BY <1>0, <1>a, <2>1, LinksStay
  <2> QED BY <2>1, <2>2, <2>3 DEF LogInv
<1>4. ASSUME NEW i \in Items, ApproveStep(i) PROVE LogInv'
  BY <1>0, <1>b, <1>4, ApproveRow, ApproveKeepsRow DEF ApproveStep, Events
<1>5. ASSUME NEW i \in Items, RejectStep(i) PROVE LogInv'
  BY <1>0, <1>b, <1>5, RejectRow, RejectKeepsRow DEF RejectStep, Events
<1>6. ASSUME NEW i \in Items, CommitStep(i) PROVE LogInv'
  BY <1>0, <1>b, <1>6, CommitRow, CommitKeepsRow DEF CommitStep, Events
<1>7. ASSUME NEW i \in Items, RevokeStep(i) PROVE LogInv'
  BY <1>0, <1>b, <1>7, RevokeRow, RevokeKeepsRow DEF RevokeStep, Events
<1>8. ASSUME NEW i \in Items, ExpireStep(i) PROVE LogInv'
  BY <1>0, <1>b, <1>8, ExpireRow, ExpireKeepsRow DEF ExpireStep, Events
<1>9. ASSUME NEW i \in Items, NEW s \in 1 .. sources, LinkStep(i, s) PROVE LogInv'
  <2>1. RowInv(i)' /\ \A j : j # i => SameEvidence(j)
    BY <1>0, <1>9, LinkKeepsRow
  <2>2. OnlyRow(i, LinkedRow(i, s)) /\ sources' = sources
    BY <1>9, LinkRowWritten DEF LinkStep
  <2> PICK l : l = Len(links) + 1
    OBVIOUS
  <2>3. Logged(i, "evidence.linked", l) /\ "evidence.linked" \in Events /\ l \in Nat
    BY <1>9 DEF LinkStep, Events, DbOK
  <2>4. \A j \in Items' : RowInv(j)'
    BY <1>0, <2>1, <2>2, <2>3, OthersKept
  <2>5. LinksKnown'
    <3>1. /\ DOMAIN links' = DOMAIN links \cup {l}
          /\ \A k \in DOMAIN links : links'[k] = links[k]
          /\ links'[l].judgment_id = i /\ links'[l].source_id = s
      BY <1>9, LinkAdded DEF LinkStep
    <3> QED BY <1>0, <2>2, <3>1 DEF LinksKnown, OnlyRow
  <2> QED BY <2>4, <2>5 DEF LogInv
<1>10. ASSUME NEW old \in Items, NEW new \in Items, SupersedeStep(old, new) PROVE LogInv'
  <2>1. RowInv(old)' /\ RowInv(new)'
    BY <1>0, <1>10, SupersedeKeepsRows
  <2>2. /\ Items' = Items /\ UNCHANGED <<links, sources>>
        /\ \A j \in Items : j # old /\ j # new => items'[j] = items[j] /\ log'[j] = log[j]
    <3>1. old # new /\ Superseded(old, new) /\ Logged(old, "superseded", new)
          /\ UNCHANGED <<links, sources>>
      BY <1>10 DEF SupersedeStep
    <3>2. new \in Nat /\ "superseded" \in Events
      BY DEF Items, DbOK, Events
    <3> QED BY <3>1, <3>2, SupersedeRows, LogGrows
  <2>3. ASSUME NEW j \in Items, j # old, j # new PROVE RowInv(j)'
    <3>1. SameStory(j) /\ SameEvidence(j)
      BY <2>2, <2>3, SameRowSameStory, SameLinksEvidence
    <3> QED BY <1>0, <1>a, <2>2, <3>1, RowKept
  <2>4. LinksKnown'
    BY <1>0, <1>a, <2>2, LinksStay
  <2> QED BY <2>1, <2>2, <2>3, <2>4 DEF LogInv
<1> QED
  BY <1>1, <1>2, <1>3, <1>4, <1>5, <1>6, <1>7, <1>8, <1>9, <1>10 DEF DbStep

-----------------------------------------------------------------------------
(* A command that took effect cannot take effect again: what it did to its  *)
(* row is what the operation refuses.                                      *)

TakenBy(op, i) ==
  \/ op \in {"approve", "reject"} /\ Reviewable(i)
  \/ op = "commit" /\ Committable(i)
  \/ op \in {"supersede", "revoke", "expire"} /\ ActiveEligible(i)

JobInv ==
  job.op \in Transitions =>
    \/ job.effects = 0
    \/ job.effects = 1 /\ \A i \in Target : ~TakenBy(job.op, i)

SameCommand == job'.op = job.op /\ job'.target = job.target

LEMMA DoneJob ==
  ASSUME JobOK, NEW ids, Done(ids) PROVE SameCommand /\ job'.effects = job.effects + 1
  BY DEF JobOK, Job, Done, SameCommand

LEMMA DeclinedJob ==
  ASSUME JobOK, NEW code, Declined(code)
  PROVE  SameCommand /\ job'.effects = job.effects /\ UNCHANGED db
  BY DEF JobOK, Job, Declined, SameCommand

(* An id names one row.                                                    *)
LEMMA OneTarget == ASSUME NEW i \in Target, NEW j \in Target PROVE i = j
  BY DEF Target, FoundItems, Whole

LEMMA SameTarget == ASSUME SameCommand, Items' = Items PROVE Target' = Target
  BY DEF SameCommand, Target, FoundItems

(* Nothing happened to the command or to the database.                     *)
LEMMA JobInvKept ==
  ASSUME JobInv, SameCommand, job'.effects = job.effects, UNCHANGED db PROVE JobInv'
<1>1. Target' = Target
  BY SameTarget DEF db, Items
<1>2. \A i : TakenBy(job.op, i)' <=> TakenBy(job.op, i)
  BY DEF SameCommand, TakenBy, Reviewable, Committable, ActiveEligible, db, LinksOf, SourcesOf
<1> QED BY <1>1, <1>2 DEF JobInv, SameCommand, db

(* The operation on row i took effect.                                     *)
LEMMA JobInvDone ==
  ASSUME JobOK, JobInv, NEW i \in Target, TakenBy(job.op, i), NEW ids, Done(ids), Items' = Items,
         job.op \in Transitions, ~TakenBy(job.op, i)'
  PROVE  JobInv'
<1>1. SameCommand /\ job'.effects = job.effects + 1
  BY DoneJob
<1>2. job'.effects = 1
  BY <1>1 DEF JobInv
<1>3. \A j \in Target' : j = i
  BY <1>1, SameTarget, OneTarget
<1> QED BY <1>2, <1>3 DEF JobInv

ClaimedAs(op, target, other) ==
  job' = [Idle EXCEPT !.op = op, !.target = target, !.other = other,
                      !.phase = "claimed", !.claims = 1]

LEMMA JobInvStays == ASSUME TypeOK, JobInv, [Next]_vars PROVE JobInv'
<1>0. DbOK /\ JobOK
  BY TypeIsBoth
<1>a. ASSUME NEW legal, Declines(legal) PROVE JobInv'
  BY <1>0, <1>a, DeclinedJob, JobInvKept DEF Declines
<1>b. ASSUME SameCommand, job'.effects = job.effects, UNCHANGED db PROVE JobInv'
  BY <1>b, JobInvKept
<1>c. ASSUME job'.op \notin Transitions \/ job'.effects = 0 PROVE JobInv'
  BY <1>c DEF JobInv
<1>d. Target \subseteq Items
  BY DEF Target, FoundItems
<1>1. CASE Claim
  <2> DEFINE Targets(op) == IF op \in NamesItem THEN Known("judgment") ELSE {NoId}
             Others(op) == CASE op = "link" -> Known("source")
                             [] op = "supersede" -> Known("judgment")
                             [] OTHER -> {NoId}
  <2>1. PICK op : \E target \in Targets(op), other \in Others(op) : ClaimedAs(op, target, other)
    BY <1>1 DEF Claim, ClaimedAs
  <2> HIDE DEF Targets, Others
  <2>2. job'.effects = 0
    <3>1. ASSUME NEW target, NEW other, ClaimedAs(op, target, other) PROVE job'.effects = 0
      BY <3>1 DEF Idle, ClaimedAs
    <3> QED BY <2>1, <3>1
  <2> QED BY <1>c, <2>2
<1>2. CASE Tell \/ Summarise
  <2>1. CASE Tell
    BY <1>c, <2>1 DEF Tell, Idle
  <2>2. CASE Summarise
    <3>1. PICK n : job' = [Idle EXCEPT !.op = "summary", !.phase = "settled", !.left = n]
      BY <2>2, Zenon DEF Summarise
    <3>2. job'.effects = 0
      BY <3>1 DEF Idle
    <3> QED BY <1>c, <3>2
  <2> QED BY <1>2, <2>1, <2>2
<1>3. CASE Settle
  <2>1. SameCommand /\ job'.effects = job.effects /\ UNCHANGED db
    BY <1>0, <1>3 DEF Settle, SameCommand, JobOK, Job, db
  <2> QED BY <1>b, <2>1
<1>4. CASE Crash
  <2>1. CASE job' = Idle
    BY <1>c, <2>1 DEF Idle
  <2>2. CASE job' = [job EXCEPT !.phase = "claimed", !.claims = @ + 1, !.answer = "none", !.fresh = {}]
    <3>1. SameCommand /\ job'.effects = job.effects
      BY <1>0, <2>2 DEF JobOK, Job, SameCommand
    <3> QED BY <1>4, <1>b, <3>1 DEF Crash
  <2> QED BY <1>4, <2>1, <2>2 DEF Crash
<1>5. CASE Propose \/ RecordSource \/ LinkEvidence \/ List \/ Explain
  <2>1. job.op \notin Transitions
    BY <1>5 DEF Propose, RecordSource, LinkEvidence, List, Explain, Runs, Transitions
  <2>2. job'.op = job.op
    BY <1>0, <1>5, DoneJob, DeclinedJob
       DEF Propose, RecordSource, LinkEvidence, List, Explain, Declines, SameCommand
  <2> QED BY <1>c, <2>1, <2>2
<1>6. CASE SummaryProposes \/ SummarySkips
  <2>1. job.op = "summary" /\ job'.op = job.op
    BY <1>0, <1>6 DEF SummaryProposes, SummarySkips, JobOK, Job
  <2> QED BY <1>c, <2>1 DEF Transitions
<1>7. CASE Approve
  <2>1. CASE Declines({i \in Items : Reviewable(i)})
    BY <1>a, <2>1
  <2>2. ASSUME NEW i \in Target, Reviewable(i), Approved(i), Done({}) PROVE JobInv'
    <3>1. items[i] \in Row /\ items'[i] = ApprovedRow(i) /\ Items' = Items
      BY <1>0, <1>d, <2>2, RowOK, ApproveRow DEF OnlyRow
    <3>2. job.op = "approve" /\ job'.op = "approve"
      BY <1>0, <1>7, <2>2, DoneJob DEF Approve, Runs, SameCommand
    <3>3. ~Reviewable(i)'
      BY <3>1 DEF ApprovedRow, Row, Reviewable
    <3>4. TakenBy(job.op, i) /\ ~TakenBy(job.op, i)' /\ job.op \in Transitions
      BY <2>2, <3>2, <3>3 DEF TakenBy, Transitions
    <3> QED BY <1>0, <2>2, <3>1, <3>4, JobInvDone
  <2> QED BY <1>7, <2>1, <2>2 DEF Approve
<1>8. CASE Reject
  <2>1. CASE Declines({i \in Items : Reviewable(i)})
    BY <1>a, <2>1
  <2>2. ASSUME NEW i \in Target, Reviewable(i), Rejected(i), Done({}) PROVE JobInv'
    <3>1. items[i] \in Row /\ items'[i] = RejectedRow(i) /\ Items' = Items
      BY <1>0, <1>d, <2>2, RowOK, RejectRow DEF OnlyRow
    <3>2. job.op = "reject" /\ job'.op = "reject"
      BY <1>0, <1>8, <2>2, DoneJob DEF Reject, Runs, SameCommand
    <3>3. ~Reviewable(i)'
      BY <3>1 DEF RejectedRow, Row, Reviewable
    <3>4. TakenBy(job.op, i) /\ ~TakenBy(job.op, i)' /\ job.op \in Transitions
      BY <2>2, <3>2, <3>3 DEF TakenBy, Transitions
    <3> QED BY <1>0, <2>2, <3>1, <3>4, JobInvDone
  <2> QED BY <1>8, <2>1, <2>2 DEF Reject
<1>9. CASE Commit
  <2>1. CASE Declines({i \in Items : Committable(i)})
    BY <1>a, <2>1
  <2>2. ASSUME NEW i \in Target, Committable(i), Committed(i), Done({}) PROVE JobInv'
    <3>1. items[i] \in Row /\ items'[i] = CommittedRow(i) /\ Items' = Items
      BY <1>0, <1>d, <2>2, RowOK, CommitRow DEF OnlyRow
    <3>2. job.op = "commit" /\ job'.op = "commit"
      BY <1>0, <1>9, <2>2, DoneJob DEF Commit, Runs, SameCommand
    <3>3. items'[i].lifecycle_status = "active"
      BY <3>1 DEF CommittedRow, Row
    <3>4. ~Committable(i)'
      BY <3>3 DEF Committable
    <3>5. TakenBy(job.op, i) /\ ~TakenBy(job.op, i)' /\ job.op \in Transitions
      BY <2>2, <3>2, <3>4 DEF TakenBy, Transitions
    <3> QED BY <1>0, <2>2, <3>1, <3>5, JobInvDone
  <2> QED BY <1>9, <2>1, <2>2 DEF Commit
<1>10. CASE Supersede
  <2>1. CASE \E code : Declined(code)
    BY <1>0, <2>1, DeclinedJob, JobInvKept
  <2>2. ASSUME NEW old \in Target, NEW new \in Items, old # new, ActiveEligible(old),
               Superseded(old, new), Done({})
        PROVE  JobInv'
    <3>1. items[old] \in Row /\ items'[old] = OldRow(old, new) /\ Items' = Items
      BY <1>0, <1>d, <2>2, RowOK, SupersedeRows
    <3>2. job.op = "supersede" /\ job'.op = "supersede"
      BY <1>0, <1>10, <2>2, DoneJob DEF Supersede, Runs, SameCommand
    <3>3. ~ActiveEligible(old)'
      BY <3>1 DEF OldRow, Row, ActiveEligible
    <3>4. TakenBy(job.op, old) /\ ~TakenBy(job.op, old)' /\ job.op \in Transitions
      BY <2>2, <3>2, <3>3 DEF TakenBy, Transitions
    <3> QED BY <1>0, <2>2, <3>1, <3>4, JobInvDone
  <2>3. Other \subseteq Items
    BY <1>10 DEF Supersede, Runs, Other, FoundItems
  <2> QED BY <1>10, <2>1, <2>2, <2>3 DEF Supersede, Declines
<1>11. CASE Revoke
  <2>1. CASE Declines({i \in Items : ActiveEligible(i)})
    BY <1>a, <2>1
  <2>2. ASSUME NEW i \in Target, ActiveEligible(i), Revoked(i), Done({}) PROVE JobInv'
    <3>1. items[i] \in Row /\ items'[i] = RevokedRow(i) /\ Items' = Items
      BY <1>0, <1>d, <2>2, RowOK, RevokeRow DEF OnlyRow
    <3>2. job.op = "revoke" /\ job'.op = "revoke"
      BY <1>0, <1>11, <2>2, DoneJob DEF Revoke, Runs, SameCommand
    <3>3. ~ActiveEligible(i)'
      BY <3>1 DEF RevokedRow, Row, ActiveEligible
    <3>4. TakenBy(job.op, i) /\ ~TakenBy(job.op, i)' /\ job.op \in Transitions
      BY <2>2, <3>2, <3>3 DEF TakenBy, Transitions
    <3> QED BY <1>0, <2>2, <3>1, <3>4, JobInvDone
  <2> QED BY <1>11, <2>1, <2>2 DEF Revoke
<1>12. CASE Expire
  <2>1. CASE Declines({i \in Items : ActiveEligible(i)})
    BY <1>a, <2>1
  <2>2. ASSUME NEW i \in Target, ActiveEligible(i), Expired(i), Done({}) PROVE JobInv'
    <3>1. items[i] \in Row /\ items'[i] = ExpiredRow(i) /\ Items' = Items
      BY <1>0, <1>d, <2>2, RowOK, ExpireRow DEF OnlyRow
    <3>2. job.op = "expire" /\ job'.op = "expire"
      BY <1>0, <1>12, <2>2, DoneJob DEF Expire, Runs, SameCommand
    <3>3. ~ActiveEligible(i)'
      BY <3>1 DEF ExpiredRow, Row, ActiveEligible
    <3>4. TakenBy(job.op, i) /\ ~TakenBy(job.op, i)' /\ job.op \in Transitions
      BY <2>2, <3>2, <3>3 DEF TakenBy, Transitions
    <3> QED BY <1>0, <2>2, <3>1, <3>4, JobInvDone
  <2> QED BY <1>12, <2>1, <2>2 DEF Expire
<1>13. CASE UNCHANGED vars
  <2>1. SameCommand /\ job'.effects = job.effects /\ UNCHANGED db
    BY <1>13 DEF vars, db, SameCommand
  <2> QED BY <1>b, <2>1
<1> QED
  BY <1>1, <1>2, <1>3, <1>4, <1>5, <1>6, <1>7, <1>8, <1>9, <1>10, <1>11, <1>12, <1>13
     DEF Next, Review, Retire

LEMMA LogHolds == Spec => [](TypeOK /\ LogInv /\ JobInv)
<1>1. Init => LogInv /\ JobInv
  BY DEF Init, LogInv, LinksKnown, Items, JobInv, Idle
<1>2. TypeOK /\ LogInv /\ JobInv /\ [Next]_vars => LogInv' /\ JobInv'
  BY TypeIsBoth, OneOfTen, LogStays, JobInvStays
<1> QED BY <1>1, <1>2, TypeCorrect, PTL DEF Spec

(* EligibleIsBacked: a judgment that shapes the answers was approved, and   *)
(* linked to a source that exists, before it was committed, and has gained  *)
(* no link since.                                                          *)
THEOREM EligibleRestsOnEvidence == Spec => []EligibleIsBacked
<1>1. TypeOK /\ LogInv => EligibleIsBacked
  <2> SUFFICES ASSUME TypeOK, LogInv, NEW i \in Active
      PROVE  /\ items[i].approval_state = "approved" /\ items[i].authority_source = "user_confirmed"
             /\ SourcesOf(i) # {} /\ SourcesOf(i) \subseteq 1 .. sources
             /\ \E c \in DOMAIN log[i] : CommittedAt(i, c)
    BY DEF EligibleIsBacked, CommittedAt
  <2>1. i \in Items /\ items[i].lifecycle_status = "active" /\ RowInv(i) /\ DbOK
    BY TypeIsBoth DEF Active, LogInv
  <2>2. items[i].approval_state = "approved" /\ items[i].authority_source = "user_confirmed"
    BY <2>1, AxesKnown DEF RowInv
  <2>3. LinksOf(i) # {} /\ \E c \in DOMAIN log[i] : CommittedAt(i, c)
    BY <2>1 DEF RowInv, CommitLogged
  <2>4. SourcesOf(i) # {}
    BY <2>3 DEF SourcesOf
  <2>5. SourcesOf(i) \subseteq 1 .. sources
    BY <2>1 DEF RowInv, Explained, Explainable
  <2> QED BY <2>2, <2>3, <2>4, <2>5
<1> QED BY <1>1, LogHolds, PTL

(* LogIsTrue: every row is what its events say, its arrays agree with the   *)
(* links, and a command that is run again takes effect at most once.       *)
THEOREM LogTellsTheTruth == Spec => []LogIsTrue
<1>1. LogInv => LogReplays /\ AlwaysExplained
  <2>1. LogInv => LogReplays
    BY ReplaysAll DEF LogInv, RowInv
  <2>2. LogInv => AlwaysExplained
    BY DEF LogInv, RowInv, Explained, AlwaysExplained
  <2> QED BY <2>1, <2>2
<1>2. JobInv => TransitionsOnce
  BY DEF JobInv, TransitionsOnce
<1>3. LogInv /\ JobInv => LogIsTrue
  BY <1>1, <1>2 DEF LogIsTrue
<1> QED BY <1>3, LogHolds, PTL
=============================================================================
