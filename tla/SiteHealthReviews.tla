--------------------------- MODULE SiteHealthReviews ---------------------------
(* The reviews of one completed SiteHealth checkup: technicians edit, publish *)
(* and send its versions, record the client's answer and mark the approved    *)
(* proposals as begun.  Operations read rows in some statements and write     *)
(* whole rows in others; only publishing, sending and answers are transactions.*)
EXTENDS Naturals, FiniteSets

CONSTANTS
    Calls,              \* operations that may run at once
    Recommendations,    \* the recommendations of the checkup
    MaxVersions,        \* bound: versions of the review
    MaxCalls            \* bound: operations in a behaviour

ReviewAssumption == MaxVersions \in Nat \ {0} /\ MaxCalls \in Nat

Versions == 1 .. MaxVersions

NoVersion == 0

VARIABLES
    proposed,       \* sitehealth_recommendations in status proposed
    review,         \* sitehealth_reviews, by version: status and content
    approvals,      \* sitehealth_approvals: version and answer
    proposal,       \* sitehealth_cleanup_proposals, by version and recommendation
    mailed,         \* messages sitehealth-review:<id>:v<version>, with what they say
    operation,      \* where each operation is, and what it has read
    begun,          \* operations begun (bound)
    shown,          \* ghost: the contents each version was published with
    overlapped      \* ghost: two operations ran at once

vars == <<proposed, review, approvals, proposal, mailed, operation, begun, shown, overlapped>>

tables == <<proposed, review, approvals, proposal, mailed, shown>>

Statuses == {"none", "draft", "published", "sent", "superseded"}

Review == [status : Statuses, content : SUBSET Recommendations]

NoReview == [status |-> "none", content |-> {}]

Answers == {"approved-all", "declined"}

Kinds == {"none", "save", "update", "publish", "send", "approve", "initiate"}

Operation == [at : {"idle", "find", "list", "build", "number", "write", "rewrite", "content", "publish",
                    "send", "approve", "initiate"},
              kind : Kinds, version : Versions \cup {NoVersion}, row : Review,
              recommendations : SUBSET Recommendations, answer : Answers]

IdleOperation == [at |-> "idle", kind |-> "none", version |-> NoVersion, row |-> NoReview,
                  recommendations |-> {}, answer |-> "declined"]

--------------------------------------------------------------------------------

InStatus(S) == {v \in Versions : review[v].status \in S}

Current == InStatus({"published", "sent"})

\* Mutant: the newest version is taken for the draft.
NewestReview ==
    CHOOSE v \in InStatus(Statuses \ {"none"}) : \A u \in InStatus(Statuses \ {"none"}) : u <= v

\* listReviewsForCheckup is in descending order of versions.
NewestDraft ==
    IF InStatus({"draft"}) = {} THEN NoVersion
    ELSE CHOOSE v \in InStatus({"draft"}) : \A u \in InStatus({"draft"}) : u <= v

Goto(c, step) == operation' = [operation EXCEPT ![c].at = step]

Done(c) == operation' = [operation EXCEPT ![c] = IdleOperation]

Start(c, o) ==
    /\ operation[c].at = "idle"
    /\ begun < MaxCalls /\ begun' = begun + 1
    /\ operation' = [operation EXCEPT ![c] = o]
    /\ overlapped' = (overlapped \/ \E d \in Calls : operation[d].at # "idle")

\* saveFinding and saveRecommendation: the row is written, the draft refreshed.
SaveRecommendation(c, r) ==
    /\ Start(c, [IdleOperation EXCEPT !.at = "list", !.kind = "save"])
    /\ proposed' = IF r \in proposed THEN proposed \ {r} ELSE proposed \cup {r}
    /\ UNCHANGED <<review, approvals, proposal, mailed, shown>>

UpdateDraft(c) ==
    /\ Start(c, [IdleOperation EXCEPT !.at = "list", !.kind = "update"])
    /\ UNCHANGED tables

Publish(c) ==
    /\ Start(c, [IdleOperation EXCEPT !.at = "find", !.kind = "publish"])
    /\ UNCHANGED tables

\* publish takes the draft there is, or has one made.
FindDraft(c) ==
    /\ operation[c].at = "find"
    /\ operation' = [operation EXCEPT
         ![c].at = IF NewestDraft = NoVersion THEN "list" ELSE "content",
         ![c].version = NewestDraft,
         ![c].row = IF NewestDraft = NoVersion THEN NoReview ELSE review[NewestDraft]]
    /\ UNCHANGED <<tables, begun, overlapped>>

--------------------------------------------------------------------------------
(* createOrRefreshDraft *)

ListReviews(c) ==
    /\ operation[c].at = "list"
    /\ operation' = [operation EXCEPT
         ![c].at = "build",
         ![c].version = NewestDraft,
         ![c].row = IF NewestDraft = NoVersion THEN [NoReview EXCEPT !.status = "draft"] ELSE review[NewestDraft]]
    /\ UNCHANGED <<tables, begun, overlapped>>

\* buildReviewContent: the recommendations that are proposed now.
BuildContent(c) ==
    /\ operation[c].at \in {"build", "content"}
    /\ operation' = [operation EXCEPT
         ![c].at = IF operation[c].at = "content" THEN "publish"
                   ELSE IF operation[c].version = NoVersion THEN "number" ELSE "write",
         ![c].row.content = proposed]
    /\ UNCHANGED <<tables, begun, overlapped>>

\* Mutant: a version is skipped.
NextButOne == Cardinality(InStatus(Statuses \ {"none"})) + 2

\* The highest version and one.
NextVersion == Cardinality(InStatus(Statuses \ {"none"})) + 1

\* nextReviewVersion, a statement of its own.
NumberDraft(c) ==
    /\ operation[c].at = "number"
    /\ NextVersion \in Versions
    /\ operation' = [operation EXCEPT ![c].at = "write", ![c].version = NextVersion, ![c].row.status = "none"]
    /\ UNCHANGED <<tables, begun, overlapped>>

\* After the draft is written saving is done, updateDraft writes the row again
\* with its texts, and publish goes on.
AfterDraft(c, row) ==
    operation' = CASE operation[c].kind = "save" -> [operation EXCEPT ![c] = IdleOperation]
                   [] operation[c].kind = "update" -> [operation EXCEPT ![c].at = "rewrite", ![c].row = row]
                   [] OTHER -> [operation EXCEPT ![c].at = "content", ![c].row = row]

\* A draft that was found is written as a whole row; a new one is inserted unless
\* another operation has taken its version.
WriteDraft(c) ==
    LET v == operation[c].version
        row == [operation[c].row EXCEPT !.status = "draft"] IN
    /\ operation[c].at = "write"
    /\ IF operation[c].row.status = "none" /\ review[v].status # "none"
         THEN Done(c) /\ UNCHANGED review
         ELSE review' = [review EXCEPT ![v] = row] /\ AfterDraft(c, row)
    /\ UNCHANGED <<proposed, approvals, proposal, mailed, shown, begun, overlapped>>

RewriteDraft(c) ==
    /\ operation[c].at = "rewrite"
    /\ review' = [review EXCEPT ![operation[c].version] = operation[c].row]
    /\ Done(c)
    /\ UNCHANGED <<proposed, approvals, proposal, mailed, shown, begun, overlapped>>

--------------------------------------------------------------------------------
(* Publication, sending and the client's answer *)

\* Mutant: a review that was sent stays current.
SupersedePublished(v) == InStatus({"published"}) \ {v}

\* supersedePublishedReviews.
Superseded(v) == Current \ {v}

\* One transaction publishes the draft and supersedes what was current.
CommitPublish(c) ==
    LET v == operation[c].version
        content == operation[c].row.content IN
    /\ operation[c].at = "publish"
    /\ review' = [u \in Versions |->
                    CASE u = v -> [status |-> "published", content |-> content]
                      [] u \in Superseded(v) -> [review[u] EXCEPT !.status = "superseded"]
                      [] OTHER -> review[u]]
    /\ shown' = [shown EXCEPT ![v] = @ \cup {content}]
    /\ Done(c)
    /\ UNCHANGED <<proposed, approvals, proposal, mailed, begun, overlapped>>

\* Mutant: a draft may be sent and answered.
DraftAnswerable(v) == review[v].status \in {"draft", "published", "sent"}

\* sendReview and recordApproval take the current version only.
Answerable(v) == v \in Current

SendReview(c, v) ==
    /\ Answerable(v)
    /\ Start(c, [IdleOperation EXCEPT !.at = "send", !.kind = "send", !.version = v, !.row = review[v]])
    /\ UNCHANGED tables

\* One transaction: the message, unless its key is taken, and the whole row.
CommitSend(c) ==
    LET v == operation[c].version IN
    /\ operation[c].at = "send"
    /\ mailed' = IF \E m \in mailed : m.version = v THEN mailed
                 ELSE mailed \cup {[version |-> v, content |-> operation[c].row.content]}
    /\ review' = [review EXCEPT ![v] = [operation[c].row EXCEPT !.status = "sent"]]
    /\ Done(c)
    /\ UNCHANGED <<proposed, approvals, proposal, shown, begun, overlapped>>

RecordApproval(c, v, answer) ==
    /\ Answerable(v)
    /\ Start(c, [IdleOperation EXCEPT !.at = "approve", !.kind = "approve", !.version = v,
                                      !.row = review[v], !.answer = answer])
    /\ UNCHANGED tables

\* Mutant: every answer opens the proposals.
OpenedByAny(answer, content) == content

\* The recommendations of the review as it was read, if all were approved.
Opened(answer, content) == IF answer = "approved-all" THEN content ELSE {}

\* One transaction: the answer, and a proposal for each recommendation approved.
CommitApproval(c) ==
    LET v == operation[c].version
        opened == Opened(operation[c].answer, operation[c].row.content) IN
    /\ operation[c].at = "approve"
    /\ approvals' = approvals \cup {[version |-> v, answer |-> operation[c].answer]}
    /\ proposal' = [proposal EXCEPT ![v] = [r \in Recommendations |-> IF r \in opened THEN "approved" ELSE @[r]]]
    /\ Done(c)
    /\ UNCHANGED <<proposed, review, mailed, shown, begun, overlapped>>

InitiateCleanup(c, v, r) ==
    /\ proposal[v][r] = "approved"
    /\ Start(c, [IdleOperation EXCEPT !.at = "initiate", !.kind = "initiate", !.version = v,
                                      !.recommendations = {r}])
    /\ UNCHANGED tables

CommitInitiate(c) ==
    /\ operation[c].at = "initiate"
    /\ proposal' = [proposal EXCEPT ![operation[c].version] =
                      [r \in Recommendations |-> IF r \in operation[c].recommendations THEN "initiated" ELSE @[r]]]
    /\ Done(c)
    /\ UNCHANGED <<proposed, review, approvals, mailed, shown, begun, overlapped>>

\* A statement fails or the process ends; an open transaction rolls back.
Abort(c) ==
    /\ operation[c].at # "idle"
    /\ Done(c)
    /\ UNCHANGED <<tables, begun, overlapped>>

\* runCheckup leaves a draft of what it found.
Init ==
    /\ proposed = Recommendations
    /\ review = [v \in Versions |-> IF v = 1 THEN [status |-> "draft", content |-> Recommendations] ELSE NoReview]
    /\ approvals = {}
    /\ proposal = [v \in Versions |-> [r \in Recommendations |-> "none"]]
    /\ mailed = {}
    /\ operation = [c \in Calls |-> IdleOperation]
    /\ begun = 0
    /\ shown = [v \in Versions |-> {}]
    /\ overlapped = FALSE

Begin(c) ==
    \/ \E r \in Recommendations : SaveRecommendation(c, r)
    \/ UpdateDraft(c) \/ Publish(c)
    \/ \E v \in Versions : SendReview(c, v)
    \/ \E v \in Versions, answer \in Answers : RecordApproval(c, v, answer)
    \/ \E v \in Versions, r \in Recommendations : InitiateCleanup(c, v, r)

Continue(c) ==
    \/ FindDraft(c) \/ ListReviews(c) \/ BuildContent(c) \/ NumberDraft(c) \/ WriteDraft(c) \/ RewriteDraft(c)
    \/ CommitPublish(c) \/ CommitSend(c) \/ CommitApproval(c) \/ CommitInitiate(c)
    \/ Abort(c)

Next == \E c \in Calls : Begin(c) \/ Continue(c)

Spec == Init /\ [][Next]_vars

--------------------------------------------------------------------------------
(* What reviews promise *)

\* Rows and the memory of operations have the shape of their tables and types, and
\* versions are numbered without gaps.
ReviewsTypeOK ==
    /\ proposed \subseteq Recommendations
    /\ review \in [Versions -> Review]
    /\ \A v \in InStatus(Statuses \ {"none"}) : \A u \in 1 .. v : review[u].status # "none"
    /\ approvals \subseteq [version : Versions, answer : Answers]
    /\ proposal \in [Versions -> [Recommendations -> {"none", "approved", "initiated"}]]
    /\ mailed \subseteq [version : Versions, content : SUBSET Recommendations]
    /\ operation \in [Calls -> Operation]
    /\ begun \in 0 .. MaxCalls
    /\ shown \in [Versions -> SUBSET SUBSET Recommendations]
    /\ overlapped \in BOOLEAN

\* Cleanup rests on an answer that approved all of a version, and on nothing that
\* version did not say when it was published, however operations overlap.
CleanupIsApproved ==
    \A v \in Versions, r \in Recommendations :
        proposal[v][r] # "none" =>
            /\ [version |-> v, answer |-> "approved-all"] \in approvals
            /\ \E content \in shown[v] : r \in content

\* The client is mailed what a version was published with.
MailedAsPublished == \A m \in mailed : m.content \in shown[m.version]

\* What cleanup and mail rest on was published and, for cleanup, approved.
RestsOnPublished == ReviewsTypeOK /\ CleanupIsApproved /\ MailedAsPublished

\* One version is current and none after it was current before, while operations
\* do not overlap.
NewestIsCurrent ==
    ~overlapped =>
        \A v \in Current, u \in InStatus({"published", "sent", "superseded"}) : u <= v

\* What was published stays as it was, while operations do not overlap.
StaysPublished ==
    \A v \in InStatus({"published", "sent", "superseded"}) :
        ~overlapped => review'[v].content = review[v].content
                       /\ review'[v].status \in {"published", "sent", "superseded"}

PublishedUnlessOverlapped == [][StaysPublished]_vars

\* docs/SITEHEALTH_CHECKUPS_AND_REVIEWS.md: published versions remain immutable.
PublishedIsImmutable ==
    [][\A v \in InStatus({"published", "sent", "superseded"}) :
          review'[v].content = review[v].content /\ review'[v].status # "draft"]_vars

================================================================================
