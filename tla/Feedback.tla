------------------------------ MODULE Feedback ------------------------------
(***************************************************************************)
(* What members leave on projects, and what becomes of it: reviews and     *)
(* replies, reports, the automatic hiding after three of them, moderation, *)
(* upvotes, the maker's notifications, and the two signals that stand on   *)
(* them: the derived ladderEligible and the admin's featured flag.         *)
(*                                                                         *)
(* Every operation is one synchronous step of ProjectsService.  Reviews    *)
(* are never removed, so a review's id is its position; 0 is no parent.    *)
(***************************************************************************)
EXTENDS Integers, Sequences, FiniteSets

CONSTANTS
  Projects,
  Members,       \* e-mails of the members, makers among them
  Owner,         \* [Projects -> Members]
  HideAt,        \* reports that hide a review (3 in the code)
  MinUpvotes,    \* LADDER_THRESHOLD.minUpvotes
  MinReviewers,  \* LADDER_THRESHOLD.minReviewers
  MaxReviews,    \* bound: reviews written
  MaxUpvotes,    \* bound: upvotes given, taken back or not
  MaxAudit,      \* bound: audit entries written
  MaxNotices     \* bound: notifications written

ASSUME OwnerAssumption == Owner \in [Projects -> Members]
ASSUME ThresholdAssumption ==
  HideAt \in Nat \ {0} /\ MinUpvotes \in Nat /\ MinReviewers \in Nat
ASSUME BoundsAssumption ==
  /\ MaxReviews \in Nat /\ MaxUpvotes \in Nat
  /\ MaxAudit \in Nat /\ MaxNotices \in Nat

VARIABLES
  reviews,
  audit,          \* the entries about reviews
  upvotes,        \* set of [id, project, email]
  nextUpvoteId,
  valid,          \* validation.success of each project
  featured,
  notifications   \* unread or read, by id

vars == <<reviews, audit, upvotes, nextUpvoteId, valid, featured, notifications>>

Statuses == {"visible", "reported", "hidden"}
Moderations == {"keep", "hide", "restore"}
ReviewIds == 1 .. Len(reviews)

Init ==
  /\ reviews = <<>>
  /\ audit = <<>>
  /\ upvotes = {}
  /\ nextUpvoteId = 1
  /\ valid = [p \in Projects |-> TRUE]
  /\ featured = {}
  /\ notifications = <<>>

------------------------------------------------------------------------------
\* notifyMaker: the owner is told, but not about what he does himself.  There
\* is no actor when an admin features a project.
Note(p, type) == [to |-> Owner[p], project |-> p, type |-> type, read |-> FALSE]

Notify(p, type) ==
  /\ Len(notifications) < MaxNotices
  /\ notifications' = Append(notifications, Note(p, type))

NotifyMaker(p, type, actor) ==
  IF actor = Owner[p] THEN UNCHANGED notifications ELSE Notify(p, type)

\* createProjectReview: a root review, or a reply to a root of the same project
\* (hidden or not).
CreateProjectReview(p, parent, author) ==
  /\ Len(reviews) < MaxReviews
  /\ parent # 0 => /\ parent \in ReviewIds
                   /\ reviews[parent].project = p
                   /\ reviews[parent].parent = 0
  /\ reviews' = Append(reviews, [project |-> p, parent |-> parent, author |-> author,
                                 status |-> "visible", count |-> 0, reportedBy |-> {}])
  /\ NotifyMaker(p, "review", author)
  /\ UNCHANGED <<audit, upvotes, nextUpvoteId, valid, featured>>

Log(action, id) ==
  /\ Len(audit) < MaxAudit
  /\ audit' = Append(audit, [action |-> action, review |-> id])

StatusAt(count) == IF count >= HideAt THEN "hidden" ELSE "reported"

\* reportProjectReview; anybody who is logged in, the author too.
ReportProjectReview(id, reporter) ==
  /\ id \in ReviewIds
  /\ reviews[id].status # "hidden"
  /\ reporter \notin reviews[id].reportedBy
  /\ LET count == reviews[id].count + 1 IN
       /\ reviews' = [reviews EXCEPT ![id].reportedBy = @ \cup {reporter},
                                     ![id].count = count,
                                     ![id].status = StatusAt(count)]
       /\ Log(IF StatusAt(count) = "hidden" THEN "hidden_auto" ELSE "reported", id)
  /\ UNCHANGED <<upvotes, nextUpvoteId, valid, featured, notifications>>

\* Mutant of Moderated: restoring a review forgets to wipe its reporters.
ModeratedKeepsReporters(review, action) ==
  IF action = "hide"
  THEN [review EXCEPT !.status = "hidden"]
  ELSE [review EXCEPT !.status = "visible", !.count = 0]

\* Mutant of Moderated: keep means "as it is".
ModeratedKeepIsNoOp(review, action) ==
  IF action = "hide" THEN [review EXCEPT !.status = "hidden"]
  ELSE IF action = "keep" THEN review
  ELSE [review EXCEPT !.status = "visible", !.count = 0, !.reportedBy = {}]

\* moderateProjectReview: hide leaves the reports, keep and restore wipe them.
Moderated(review, action) ==
  IF action = "hide"
  THEN [review EXCEPT !.status = "hidden"]
  ELSE [review EXCEPT !.status = "visible", !.count = 0, !.reportedBy = {}]

ModerateProjectReview(id, action) ==
  /\ id \in ReviewIds
  /\ reviews' = [reviews EXCEPT ![id] = Moderated(@, action)]
  /\ Log(action, id)
  /\ UNCHANGED <<upvotes, nextUpvoteId, valid, featured, notifications>>

\* Mutant of UpvotesOf: the lookup compares the wrong field and finds nothing.
UpvotesOfNobody(p, email) == {u \in upvotes : u.project = p /\ u.id = email}

\* toggleUpvote: an upvote that is there is taken back, by its id.
UpvotesOf(p, email) == {u \in upvotes : u.project = p /\ u.email = email}

ToggleUpvote(p, email) ==
  /\ email # Owner[p]
  /\ \/ \E existing \in UpvotesOf(p, email) :
          /\ upvotes' = {u \in upvotes : u.id # existing.id}
          /\ UNCHANGED <<nextUpvoteId, notifications>>
     \/ /\ UpvotesOf(p, email) = {}
        /\ nextUpvoteId <= MaxUpvotes
        /\ upvotes' = upvotes \cup {[id |-> nextUpvoteId, project |-> p, email |-> email]}
        /\ nextUpvoteId' = nextUpvoteId + 1
        /\ NotifyMaker(p, "upvote", email)
  /\ UNCHANGED <<reviews, audit, valid, featured>>

\* refreshProjectRecord records what the probe of the live URL found.
Refresh(p, success) ==
  /\ valid' = [valid EXCEPT ![p] = success]
  /\ UNCHANGED <<reviews, audit, upvotes, nextUpvoteId, featured, notifications>>

\* setProjectFeatured: the maker is told when the flag rises.
SetProjectFeatured(p, on) ==
  /\ featured' = IF on THEN featured \cup {p} ELSE featured \ {p}
  /\ IF on /\ p \notin featured THEN Notify(p, "featured") ELSE UNCHANGED notifications
  /\ UNCHANGED <<reviews, audit, upvotes, nextUpvoteId, valid>>

\* markNotificationsRead, for one member: all, or the ids given.
MarkNotificationsRead(email, ids) ==
  /\ notifications' = [k \in DOMAIN notifications |->
                         IF notifications[k].to = email /\ k \in ids
                         THEN [notifications[k] EXCEPT !.read = TRUE] ELSE notifications[k]]
  /\ UNCHANGED <<reviews, audit, upvotes, nextUpvoteId, valid, featured>>

------------------------------------------------------------------------------
(* What is shown.                                                          *)

\* Mutant of VisibleReviews: each review for itself.
VisibleReviewsFlat(p) ==
  {id \in ReviewIds : reviews[id].project = p /\ reviews[id].status # "hidden"}

\* filterVisibleReviews: a hidden review takes its replies along.
VisibleReviews(p) ==
  {id \in ReviewIds :
     /\ reviews[id].project = p
     /\ reviews[id].status # "hidden"
     /\ reviews[id].parent # 0 => reviews[reviews[id].parent].status # "hidden"}

UpvoteCount(p) == Cardinality({u \in upvotes : u.project = p})

\* hydrateProject: the authors of visible roots count once each.
DistinctReviewers(p) ==
  {reviews[id].author : id \in {r \in VisibleReviews(p) : reviews[r].parent = 0}}

LadderEligible(p) ==
  /\ valid[p]
  /\ UpvoteCount(p) >= MinUpvotes
  /\ Cardinality(DistinctReviewers(p)) >= MinReviewers

------------------------------------------------------------------------------
Next ==
  \/ \E p \in Projects, parent \in 0 .. Len(reviews), author \in Members :
       CreateProjectReview(p, parent, author)
  \/ \E id \in ReviewIds, reporter \in Members : ReportProjectReview(id, reporter)
  \/ \E id \in ReviewIds, action \in Moderations : ModerateProjectReview(id, action)
  \/ \E p \in Projects, email \in Members : ToggleUpvote(p, email)
  \/ \E p \in Projects, success \in BOOLEAN : Refresh(p, success)
  \/ \E p \in Projects, on \in BOOLEAN : SetProjectFeatured(p, on)
  \/ \E email \in Members, ids \in SUBSET DOMAIN notifications :
       MarkNotificationsRead(email, ids)

Spec == Init /\ [][Next]_vars

------------------------------------------------------------------------------
(* Properties.                                                             *)

Review == [project : Projects, parent : Nat, author : Members, status : Statuses,
           count : Nat, reportedBy : SUBSET Members]
Entry == [action : {"reported", "hidden_auto"} \cup Moderations, review : Nat]
Notification == [to : Members, project : Projects,
                 type : {"review", "upvote", "featured"}, read : BOOLEAN]

\* Types; a reply stands after its root, and the audit log is about existing
\* reviews.
TypeOK ==
  /\ reviews \in Seq(Review)
  /\ \A id \in ReviewIds : reviews[id].parent < id
  /\ audit \in Seq(Entry)
  /\ \A k \in 1 .. Len(audit) : audit[k].review \in ReviewIds
  /\ upvotes \subseteq [id : 1 .. nextUpvoteId - 1, project : Projects, email : Members]
  /\ nextUpvoteId \in Nat \ {0}
  /\ valid \in [Projects -> BOOLEAN]
  /\ featured \subseteq Projects
  /\ notifications \in Seq(Notification)

\* The status in which an entry leaves its review.
Outcome(action) ==
  CASE action = "reported" -> "reported"
    [] action \in {"hidden_auto", "hide"} -> "hidden"
    [] OTHER -> "visible"

\* The status that the last entry about a review in log left it in.
StatusAfter(log, id) ==
  LET about == {k \in 1 .. Len(log) : log[k].review = id}
      last == CHOOSE k \in about : \A l \in about : l <= k
  IN IF about = {} THEN "visible" ELSE Outcome(log[last].action)

\* README.md:171: every report, automatic hiding and moderation is in the audit
\* log, so the log alone tells the status of each review.
AuditTellsStatus == \A id \in ReviewIds : reviews[id].status = StatusAfter(audit, id)

\* However reports and moderations alternate, the counter that decides about
\* hiding counts different members.
CountsDifferentReporters ==
  \A id \in ReviewIds : reviews[id].count = Cardinality(reviews[id].reportedBy)

\* A review stays shown below the threshold unless an admin hides it, and never
\* stays shown at the threshold.
HiddenAtThreshold ==
  \A id \in ReviewIds :
    /\ reviews[id].count >= HideAt => reviews[id].status = "hidden"
    /\ reviews[id].status = "hidden" /\ reviews[id].count < HideAt
         => \E k \in 1 .. Len(audit) : audit[k] = [action |-> "hide", review |-> id]

\* Nothing is shown out of its context: a shown reply has its root shown in the
\* same project, and replies do not nest.
RepliesShownUnderRoots ==
  \A p \in Projects : \A id \in VisibleReviews(p) :
    reviews[id].parent # 0 => /\ reviews[id].parent \in VisibleReviews(p)
                              /\ reviews[reviews[id].parent].parent = 0

\* A project climbs the ladder by the upvotes of as many different members, none
\* of them its owner, however upvotes are given and taken back.
LadderNeedsOthers ==
  \A p \in Projects :
    LadderEligible(p) =>
      Cardinality({u.email : u \in {v \in upvotes : v.project = p}} \ {Owner[p]}) >= MinUpvotes

Notices(p, type) ==
  {k \in DOMAIN notifications : notifications[k].project = p /\ notifications[k].type = type}

\* The owner hears of each review by somebody else, once, and of no other.
ReviewsAreAnnounced ==
  \A p \in Projects :
    Cardinality(Notices(p, "review")) =
      Cardinality({id \in ReviewIds : reviews[id].project = p /\ reviews[id].author # Owner[p]})
==============================================================================
