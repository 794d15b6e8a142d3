--------------------------- MODULE FeedbackProofs ---------------------------
(***************************************************************************)
(* Proofs about Feedback, for any projects, members, thresholds and bounds, *)
(* and about the operators' console, where what was reported is judged, for *)
(* any projects, events, inputs, queue and bounds.                         *)
(***************************************************************************)
EXTENDS Feedback, Console, FiniteFacts, TLAPS

\* What is counted is finite.
FinitelyMany ==
  /\ IsFiniteSet(upvotes)
  /\ \A id \in ReviewIds : IsFiniteSet(reviews[id].reportedBy)

\* A reply answers an earlier root of its own project.
RepliesAnswerRoots ==
  \A id \in ReviewIds :
    reviews[id].parent # 0 =>
      /\ reviews[id].parent \in ReviewIds
      /\ reviews[reviews[id].parent].project = reviews[id].project
      /\ reviews[reviews[id].parent].parent = 0

\* One upvote per member and project, none by the owner, each with its own id.
OneVoteEach ==
  \A u \in upvotes :
    /\ u.email # Owner[u.project]
    /\ \A v \in upvotes :
         u.id = v.id \/ (u.project = v.project /\ u.email = v.email) => u = v

\* The entries about a review have a last one.
About(log, id) == {k \in 1 .. Len(log) : log[k].review = id}
IsLast(log, id, k) == k \in About(log, id) /\ \A l \in About(log, id) : l <= k
EntriesHaveLast ==
  \A id \in ReviewIds : About(audit, id) # {} => \E k \in Nat : IsLast(audit, id, k)

FInv ==
  /\ TypeOK
  /\ EntriesHaveLast
  /\ FinitelyMany
  /\ RepliesAnswerRoots
  /\ OneVoteEach
  /\ AuditTellsStatus
  /\ CountsDifferentReporters
  /\ HiddenAtThreshold
  /\ ReviewsAreAnnounced

------------------------------------------------------------------------------
(* The audit log.                                                          *)

\* A review without entries is visible, any other as its last entry says.
LEMMA StatusByLast ==
  ASSUME NEW log, NEW id
  PROVE  /\ About(log, id) = {} => StatusAfter(log, id) = "visible"
         /\ \A k \in Nat : IsLast(log, id, k) => StatusAfter(log, id) = Outcome(log[k].action)
<1>1. ASSUME About(log, id) = {} PROVE StatusAfter(log, id) = "visible"
  BY <1>1 DEF StatusAfter, About
<1>2. ASSUME NEW k \in Nat, IsLast(log, id, k)
      PROVE  StatusAfter(log, id) = Outcome(log[k].action)
  <2> DEFINE last == CHOOSE n \in About(log, id) : \A l \in About(log, id) : l <= n
  <2>1. last \in About(log, id) /\ \A l \in About(log, id) : l <= last
    BY <1>2 DEF IsLast
  <2>2. About(log, id) \subseteq Int
    BY DEF About
  <2>3. last = k
    BY <1>2, <2>1, <2>2 DEF IsLast
  <2>4. StatusAfter(log, id) = Outcome(log[last].action)
    BY <2>1 DEF StatusAfter, About
  <2> QED BY <2>3, <2>4
<1> QED BY <1>1, <1>2

\* What one more entry changes.
LEMMA StatusOfAppended ==
  ASSUME NEW log \in Seq(Entry), NEW e \in Entry, NEW id,
         About(log, id) # {} => \E k \in Nat : IsLast(log, id, k)
  PROVE  /\ StatusAfter(Append(log, e), id) =
              IF e.review = id THEN Outcome(e.action) ELSE StatusAfter(log, id)
         /\ About(Append(log, e), id) # {}
              => \E k \in Nat : IsLast(Append(log, e), id, k)
<1> DEFINE new == Append(log, e)
<1>1. /\ Len(new) = Len(log) + 1 /\ Len(log) \in Nat
      /\ \A k \in 1 .. Len(log) : new[k] = log[k]
      /\ new[Len(log) + 1] = e
  OBVIOUS
<1> HIDE DEF new
<1>2. CASE e.review = id
  <2>1. IsLast(new, id, Len(log) + 1)
    BY <1>1, <1>2 DEF IsLast, About
  <2>2. About(new, id) # {} /\ StatusAfter(new, id) = Outcome(new[Len(log) + 1].action)
    BY <1>1, <2>1, StatusByLast DEF IsLast
  <2> QED BY <1>1, <1>2, <2>1, <2>2 DEF new
<1>3. CASE e.review # id
  <2>1. About(new, id) = About(log, id)
    BY <1>1, <1>3 DEF About
  <2>2. ASSUME About(log, id) = {}
        PROVE  StatusAfter(new, id) = StatusAfter(log, id)
    BY <2>1, <2>2, StatusByLast
  <2>3. ASSUME About(log, id) # {}
        PROVE  /\ StatusAfter(new, id) = StatusAfter(log, id)
               /\ \E k \in Nat : IsLast(new, id, k)
    <3>1. PICK k \in Nat : IsLast(log, id, k)
      BY <2>3
    <3>2. IsLast(new, id, k) /\ new[k] = log[k]
      BY <1>1, <2>1, <3>1 DEF IsLast, About
    <3> QED BY <3>1, <3>2, StatusByLast
  <2>4. StatusAfter(new, id) = StatusAfter(log, id)
        /\ (About(new, id) # {} => \E k \in Nat : IsLast(new, id, k))
    BY <2>1, <2>2, <2>3
  <2> QED BY <1>3, <2>4 DEF new
<1> QED BY <1>2, <1>3

------------------------------------------------------------------------------
(* Reviews.                                                                *)

LEMMA InitInv == ASSUME Init PROVE FInv
<1>1. TypeOK
  BY ThresholdAssumption DEF Init, TypeOK, ReviewIds
<1>2. ReviewIds = {} /\ notifications = <<>> /\ upvotes = {}
  BY DEF Init, ReviewIds
<1>3. ReviewsAreAnnounced
  <2>1. ASSUME NEW p \in Projects
        PROVE  Notices(p, "review") = {}
    BY <1>2 DEF Notices
  <2> QED BY <1>2, <2>1, FS_EmptySet DEF ReviewsAreAnnounced
<1> QED
  BY <1>1, <1>2, <1>3, FS_EmptySet
  DEF FInv, FinitelyMany, RepliesAnswerRoots, OneVoteEach, AuditTellsStatus,
      CountsDifferentReporters, HiddenAtThreshold, EntriesHaveLast

\* A report or a moderation rewrites one review; who wrote it and where stays.
LEMMA Rewriting ==
  ASSUME TypeOK, RepliesAnswerRoots, NEW id \in ReviewIds, NEW r \in Review,
         r.project = reviews[id].project, r.parent = reviews[id].parent,
         r.author = reviews[id].author, reviews' = [reviews EXCEPT ![id] = r]
  PROVE  /\ reviews' \in Seq(Review) /\ ReviewIds' = ReviewIds
         /\ \A k \in ReviewIds : reviews'[k] = IF k = id THEN r ELSE reviews[k]
         /\ \A k \in ReviewIds : /\ reviews'[k].project = reviews[k].project
                                 /\ reviews'[k].parent = reviews[k].parent
                                 /\ reviews'[k].author = reviews[k].author
         /\ RepliesAnswerRoots'
<1>1. reviews \in Seq(Review) /\ id \in 1 .. Len(reviews)
  BY DEF TypeOK, ReviewIds
<1>2. reviews' \in Seq(Review) /\ Len(reviews') = Len(reviews)
  BY <1>1
<1>3. \A k \in ReviewIds : reviews'[k] = IF k = id THEN r ELSE reviews[k]
  BY <1>1 DEF ReviewIds
<1>4. \A k \in ReviewIds : /\ reviews'[k].project = reviews[k].project
                          /\ reviews'[k].parent = reviews[k].parent
                          /\ reviews'[k].author = reviews[k].author
  BY <1>3
<1>5. ReviewIds' = ReviewIds
  BY <1>2 DEF ReviewIds
<1>6. RepliesAnswerRoots'
  BY <1>4, <1>5 DEF RepliesAnswerRoots
<1> QED BY <1>2, <1>3, <1>4, <1>5, <1>6

\* One entry more about the rewritten review, which says its new status.
LEMMA Logging ==
  ASSUME FInv, NEW id \in ReviewIds, NEW action, ReviewIds' = ReviewIds,
         [action |-> action, review |-> id] \in Entry, Log(action, id),
         reviews'[id].status = Outcome(action),
         \A k \in ReviewIds : k # id => reviews'[k].status = reviews[k].status
  PROVE  /\ audit' \in Seq(Entry)
         /\ \A k \in 1 .. Len(audit') : audit'[k].review \in ReviewIds
         /\ EntriesHaveLast' /\ AuditTellsStatus'
<1> DEFINE e == [action |-> action, review |-> id]
<1>1. audit \in Seq(Entry) /\ e \in Entry /\ audit' = Append(audit, e)
  BY DEF FInv, TypeOK, Log
<1>2. audit' \in Seq(Entry)
  BY <1>1
<1>3. \A k \in 1 .. Len(audit') : audit'[k].review \in ReviewIds
  BY <1>1 DEF FInv, TypeOK
<1>4. ASSUME NEW k \in ReviewIds
      PROVE  /\ StatusAfter(audit', k) = IF k = id THEN Outcome(action) ELSE StatusAfter(audit, k)
             /\ About(audit', k) # {} => \E n \in Nat : IsLast(audit', k, n)
  <2>1. About(audit, k) # {} => \E n \in Nat : IsLast(audit, k, n)
    BY DEF FInv, EntriesHaveLast
  <2> QED BY <1>1, <2>1, StatusOfAppended
<1>5. EntriesHaveLast'
  BY <1>4 DEF EntriesHaveLast
<1>6. AuditTellsStatus'
  BY <1>4 DEF FInv, AuditTellsStatus
<1> QED BY <1>2, <1>3, <1>5, <1>6

LEMMA ReportInv ==
  ASSUME FInv, NEW id \in ReviewIds, NEW reporter \in Members,
         ReportProjectReview(id, reporter)
  PROVE  FInv'
<1> DEFINE count == reviews[id].count + 1
           r == [reviews[id] EXCEPT !.reportedBy = @ \cup {reporter}, !.count = count,
                                    !.status = StatusAt(count)]
           action == IF StatusAt(count) = "hidden" THEN "hidden_auto" ELSE "reported"
<1> USE DEF FInv
<1>1. reviews[id] \in Review /\ id \in Nat /\ reviews \in Seq(Review)
  BY DEF TypeOK, ReviewIds
<1>2. /\ r \in Review /\ r.project = reviews[id].project /\ r.parent = reviews[id].parent
      /\ r.author = reviews[id].author /\ r.count = count /\ r.status = StatusAt(count)
      /\ r.reportedBy = reviews[id].reportedBy \cup {reporter}
  <2>1. count \in Nat /\ StatusAt(count) \in Statuses
    BY <1>1 DEF Review, StatusAt, Statuses
  <2> HIDE DEF count
  <2> QED BY <1>1, <2>1 DEF Review
<1>3. reviews' = [reviews EXCEPT ![id] = r] /\ Log(action, id)
  BY <1>1 DEF ReportProjectReview, ReviewIds
<1>4. /\ reviews' \in Seq(Review) /\ ReviewIds' = ReviewIds
      /\ \A k \in ReviewIds : reviews'[k] = IF k = id THEN r ELSE reviews[k]
      /\ \A k \in ReviewIds : /\ reviews'[k].project = reviews[k].project
                              /\ reviews'[k].parent = reviews[k].parent
                              /\ reviews'[k].author = reviews[k].author
      /\ RepliesAnswerRoots'
  BY <1>2, <1>3, Rewriting
<1>5. reviews[id].status # "hidden" /\ reporter \notin reviews[id].reportedBy
  BY DEF ReportProjectReview
<1>6. UNCHANGED <<upvotes, nextUpvoteId, valid, featured, notifications>>
  BY DEF ReportProjectReview
<1> HIDE DEF r, action
<1>7. /\ audit' \in Seq(Entry)
      /\ \A k \in 1 .. Len(audit') : audit'[k].review \in ReviewIds
      /\ EntriesHaveLast' /\ AuditTellsStatus'
  <2>1. /\ [action |-> action, review |-> id] \in Entry
        /\ Outcome(action) = StatusAt(count)
    BY <1>1 DEF Entry, Outcome, StatusAt, action
  <2>2. reviews'[id].status = Outcome(action)
    BY <1>2, <1>4, <2>1
  <2> QED BY <1>3, <1>4, <2>1, <2>2, Logging
<1>8. TypeOK'
  BY <1>4, <1>6, <1>7 DEF TypeOK
<1>9. FinitelyMany'
  BY <1>2, <1>4, <1>6, FS_AddElement DEF FinitelyMany
<1>10. CountsDifferentReporters'
  <2>1. Cardinality(r.reportedBy) = Cardinality(reviews[id].reportedBy) + 1
    BY <1>2, <1>5, FS_AddElement DEF FinitelyMany
  <2> QED BY <1>2, <1>4, <2>1 DEF CountsDifferentReporters
<1>11. HiddenAtThreshold'
  <2>1. \A k \in 1 .. Len(audit) : audit'[k] = audit[k] /\ k \in 1 .. Len(audit')
    BY <1>3 DEF Log, TypeOK
  <2>2. ASSUME NEW k \in ReviewIds, k # id
        PROVE  /\ reviews'[k].count >= HideAt => reviews'[k].status = "hidden"
               /\ reviews'[k].status = "hidden" /\ reviews'[k].count < HideAt
                    => \E n \in 1 .. Len(audit') : audit'[n] = [action |-> "hide", review |-> k]
    BY <1>4, <2>1, <2>2 DEF HiddenAtThreshold
  <2>3. r.count \in Nat /\ (r.count >= HideAt <=> r.status = "hidden")
    BY <1>2 DEF StatusAt, Review
  <2> QED BY <1>4, <2>2, <2>3, ThresholdAssumption DEF HiddenAtThreshold
<1>12. ReviewsAreAnnounced'
  BY <1>4, <1>6 DEF ReviewsAreAnnounced, Notices
<1>13. OneVoteEach'
  BY <1>6 DEF OneVoteEach
<1> QED BY <1>4, <1>7, <1>8, <1>9, <1>10, <1>11, <1>12, <1>13

LEMMA ModerateInv ==
  ASSUME FInv, NEW id \in ReviewIds, NEW action \in Moderations,
         ModerateProjectReview(id, action)
  PROVE  FInv'
<1> DEFINE r == Moderated(reviews[id], action)
<1> USE DEF FInv
<1>1. reviews[id] \in Review /\ id \in Nat /\ reviews \in Seq(Review)
  BY DEF TypeOK, ReviewIds
<1>2. /\ r \in Review /\ r.project = reviews[id].project /\ r.parent = reviews[id].parent
      /\ r.author = reviews[id].author
      /\ action = "hide" => /\ r.status = "hidden" /\ r.count = reviews[id].count
                            /\ r.reportedBy = reviews[id].reportedBy
      /\ action # "hide" => r.status = "visible" /\ r.count = 0 /\ r.reportedBy = {}
  BY <1>1 DEF Review, Moderated, Statuses
<1>3. reviews' = [reviews EXCEPT ![id] = r] /\ Log(action, id)
  BY <1>1 DEF ModerateProjectReview, ReviewIds
<1>4. /\ reviews' \in Seq(Review) /\ ReviewIds' = ReviewIds
      /\ \A k \in ReviewIds : reviews'[k] = IF k = id THEN r ELSE reviews[k]
      /\ \A k \in ReviewIds : /\ reviews'[k].project = reviews[k].project
                              /\ reviews'[k].parent = reviews[k].parent
                              /\ reviews'[k].author = reviews[k].author
      /\ RepliesAnswerRoots'
  BY <1>2, <1>3, Rewriting
<1>5. UNCHANGED <<upvotes, nextUpvoteId, valid, featured, notifications>>
  BY DEF ModerateProjectReview
<1> HIDE DEF r
<1>6. /\ audit' \in Seq(Entry)
      /\ \A k \in 1 .. Len(audit') : audit'[k].review \in ReviewIds
      /\ EntriesHaveLast' /\ AuditTellsStatus'
  <2>1. /\ [action |-> action, review |-> id] \in Entry
        /\ Outcome(action) = r.status
    BY <1>1, <1>2 DEF Entry, Outcome, Moderations
  <2>2. reviews'[id].status = Outcome(action)
    BY <1>4, <2>1
  <2> QED BY <1>3, <1>4, <2>1, <2>2, Logging
<1>7. TypeOK'
  BY <1>4, <1>5, <1>6 DEF TypeOK
<1>8. FinitelyMany'
  BY <1>2, <1>4, <1>5, FS_EmptySet DEF FinitelyMany
<1>9. CountsDifferentReporters'
  BY <1>2, <1>4, FS_EmptySet DEF CountsDifferentReporters
<1>10. HiddenAtThreshold'
  <2>1. \A k \in 1 .. Len(audit) : audit'[k] = audit[k] /\ k \in 1 .. Len(audit')
    BY <1>3 DEF Log, TypeOK
  <2>2. \E n \in 1 .. Len(audit') : audit'[n] = [action |-> action, review |-> id]
    BY <1>3 DEF Log, TypeOK
  <2>3. ASSUME NEW k \in ReviewIds, k # id
        PROVE  /\ reviews'[k].count >= HideAt => reviews'[k].status = "hidden"
               /\ reviews'[k].status = "hidden" /\ reviews'[k].count < HideAt
                    => \E n \in 1 .. Len(audit') : audit'[n] = [action |-> "hide", review |-> k]
    BY <1>4, <2>1, <2>3 DEF HiddenAtThreshold
  <2>4. /\ r.count >= HideAt => r.status = "hidden"
        /\ r.status = "hidden" => action = "hide"
    BY <1>2, ThresholdAssumption
  <2> QED BY <1>4, <2>2, <2>3, <2>4 DEF HiddenAtThreshold
<1>11. ReviewsAreAnnounced'
  BY <1>4, <1>5 DEF ReviewsAreAnnounced, Notices
<1>12. OneVoteEach'
  BY <1>5 DEF OneVoteEach
<1> QED BY <1>4, <1>6, <1>7, <1>8, <1>9, <1>10, <1>11, <1>12

------------------------------------------------------------------------------
(* Notifications and upvotes.                                              *)

LEMMA NoticesFinite ==
  ASSUME notifications \in Seq(Notification), NEW p, NEW type
  PROVE  IsFiniteSet(Notices(p, type)) /\ Notices(p, type) \subseteq 1 .. Len(notifications)
<1>1. Notices(p, type) \subseteq 1 .. Len(notifications)
  BY DEF Notices
<1>2. Len(notifications) \in Int /\ 1 \in Int
  OBVIOUS
<1> QED BY <1>1, <1>2, FS_Interval, FS_Subset

\* A notification is of the project and the type it was written for.
LEMMA Notifying ==
  ASSUME notifications \in Seq(Notification), NEW p \in Projects,
         NEW type \in {"review", "upvote", "featured"}, Notify(p, type)
  PROVE  /\ notifications' \in Seq(Notification)
         /\ \A q \in Projects : Notices(q, "review")' =
              IF q = p /\ type = "review"
              THEN Notices(q, "review") \cup {Len(notifications) + 1} ELSE Notices(q, "review")
<1>1. Note(p, type) \in Notification
  BY OwnerAssumption DEF Note, Notification
<1>2. notifications' = Append(notifications, Note(p, type))
  BY DEF Notify
<1>3. /\ Len(notifications) \in Nat /\ DOMAIN notifications' = 1 .. Len(notifications) + 1
      /\ DOMAIN notifications = 1 .. Len(notifications)
      /\ notifications'[Len(notifications) + 1] = Note(p, type)
      /\ \A k \in 1 .. Len(notifications) : notifications'[k] = notifications[k]
  BY <1>2
<1>4. Note(p, type).project = p /\ Note(p, type).type = type
  BY DEF Note
<1> QED BY <1>1, <1>2, <1>3, <1>4 DEF Notices

\* What is not announced is not counted.
LEMMA QuietStep ==
  ASSUME FInv, UNCHANGED <<reviews, audit>>,
         \A p \in Projects : Notices(p, "review")' = Notices(p, "review"),
         TypeOK', IsFiniteSet(upvotes'), OneVoteEach'
  PROVE  FInv'
<1>1. ReviewIds' = ReviewIds
  BY DEF ReviewIds
<1>2. FinitelyMany' /\ RepliesAnswerRoots'
  BY <1>1 DEF FInv, FinitelyMany, RepliesAnswerRoots
<1>3. EntriesHaveLast' /\ AuditTellsStatus'
  BY <1>1 DEF FInv, EntriesHaveLast, AuditTellsStatus
<1>4. CountsDifferentReporters' /\ HiddenAtThreshold'
  BY <1>1 DEF FInv, CountsDifferentReporters, HiddenAtThreshold
<1>5. ReviewsAreAnnounced'
  BY <1>1 DEF FInv, ReviewsAreAnnounced
<1> QED BY <1>2, <1>3, <1>4, <1>5 DEF FInv

LEMMA CreateInv ==
  ASSUME FInv, NEW p \in Projects, NEW parent \in 0 .. Len(reviews), NEW author \in Members,
         CreateProjectReview(p, parent, author)
  PROVE  FInv'
<1> DEFINE n == Len(reviews) + 1
           r == [project |-> p, parent |-> parent, author |-> author,
                 status |-> "visible", count |-> 0, reportedBy |-> {}]
<1> USE DEF FInv
<1>1. /\ reviews \in Seq(Review) /\ r \in Review /\ Len(reviews) \in Nat
      /\ reviews' = Append(reviews, r)
  BY DEF TypeOK, Review, Statuses, CreateProjectReview
<1>2. /\ reviews' \in Seq(Review) /\ ReviewIds' = ReviewIds \cup {n} /\ n \notin ReviewIds
      /\ reviews'[n] = r /\ \A k \in ReviewIds : reviews'[k] = reviews[k]
  BY <1>1 DEF ReviewIds
<1>3. /\ parent # 0 => /\ parent \in ReviewIds
                       /\ reviews[parent].project = p /\ reviews[parent].parent = 0
      /\ NotifyMaker(p, "review", author)
      /\ UNCHANGED <<audit, upvotes, nextUpvoteId, valid, featured>>
  BY DEF CreateProjectReview
<1>4. /\ r.project = p /\ r.parent = parent /\ r.author = author
      /\ r.status = "visible" /\ r.count = 0 /\ r.reportedBy = {}
  OBVIOUS
<1> HIDE DEF r
<1>5. notifications \in Seq(Notification)
  BY DEF TypeOK
<1>6. /\ notifications' \in Seq(Notification)
      /\ \A q \in Projects : Notices(q, "review")' =
           IF q = p /\ author # Owner[p]
           THEN Notices(q, "review") \cup {Len(notifications) + 1} ELSE Notices(q, "review")
  <2>1. CASE author = Owner[p]
    BY <1>3, <1>5, <2>1 DEF NotifyMaker, Notices
  <2>2. CASE author # Owner[p]
    BY <1>3, <1>5, <2>2, Notifying DEF NotifyMaker
  <2> QED BY <2>1, <2>2
<1>7. TypeOK'
  <2>1. \A k \in ReviewIds' : reviews'[k].parent < k
    <3>1. \A k \in ReviewIds : reviews[k].parent < k
      BY DEF TypeOK
    <3>2. reviews'[n].parent < n
      BY <1>1, <1>2, <1>4
    <3> QED BY <1>2, <3>1, <3>2
  <2>2. \A k \in 1 .. Len(audit') : audit'[k].review \in ReviewIds'
    BY <1>2, <1>3 DEF TypeOK
  <2> QED BY <1>2, <1>3, <1>6, <2>1, <2>2 DEF TypeOK
<1>8. FinitelyMany'
  BY <1>2, <1>3, <1>4, FS_EmptySet DEF FinitelyMany
<1>9. RepliesAnswerRoots'
  BY <1>2, <1>3, <1>4 DEF RepliesAnswerRoots
<1>10. OneVoteEach'
  BY <1>3 DEF OneVoteEach
<1>11. About(audit, n) = {}
  BY <1>2 DEF About, TypeOK
<1>12. EntriesHaveLast'
  BY <1>2, <1>3, <1>11 DEF EntriesHaveLast
<1>13. AuditTellsStatus'
  BY <1>2, <1>3, <1>4, <1>11, StatusByLast DEF AuditTellsStatus
<1>14. CountsDifferentReporters'
  BY <1>2, <1>4, FS_EmptySet DEF CountsDifferentReporters
<1>15. HiddenAtThreshold'
  BY <1>2, <1>3, <1>4, ThresholdAssumption DEF HiddenAtThreshold
<1>16. ReviewsAreAnnounced'
  <2> DEFINE By(q) == {k \in ReviewIds : reviews[k].project = q /\ reviews[k].author # Owner[q]}
  <2>1. ASSUME NEW q \in Projects
        PROVE  Cardinality(Notices(q, "review")') = Cardinality(By(q)')
    <3>1. IsFiniteSet(By(q)) /\ n \notin By(q)
      <4>1. By(q) \subseteq ReviewIds
        OBVIOUS
      <4>2. IsFiniteSet(ReviewIds)
        BY <1>1, FS_Interval DEF ReviewIds
      <4> QED BY <1>2, <4>1, <4>2, FS_Subset
    <3>2. By(q)' = IF q = p /\ author # Owner[p] THEN By(q) \cup {n} ELSE By(q)
      BY <1>2, <1>4
    <3>3. /\ IsFiniteSet(Notices(q, "review"))
          /\ Len(notifications) + 1 \notin Notices(q, "review")
      BY <1>5, NoticesFinite
    <3>4. Cardinality(Notices(q, "review")) = Cardinality(By(q))
      BY DEF ReviewsAreAnnounced
    <3>5. Cardinality(By(q) \cup {n}) = Cardinality(By(q)) + 1
      BY <3>1, FS_AddElement
    <3>6. Cardinality(Notices(q, "review") \cup {Len(notifications) + 1})
            = Cardinality(Notices(q, "review")) + 1
      BY <3>3, FS_AddElement
    <3> HIDE DEF By, n
    <3> QED BY <1>6, <3>2, <3>4, <3>5, <3>6
  <2> QED BY <2>1 DEF ReviewsAreAnnounced
<1> QED BY <1>7, <1>8, <1>9, <1>10, <1>12, <1>13, <1>14, <1>15, <1>16

LEMMA UpvoteInv ==
  ASSUME FInv, NEW p \in Projects, NEW email \in Members, ToggleUpvote(p, email)
  PROVE  FInv'
<1> USE DEF FInv
<1>1. UNCHANGED <<reviews, audit, valid, featured>> /\ email # Owner[p]
  BY DEF ToggleUpvote
<1>2. CASE \E existing \in UpvotesOf(p, email) :
             /\ upvotes' = {u \in upvotes : u.id # existing.id}
             /\ UNCHANGED <<nextUpvoteId, notifications>>
  <2>1. upvotes' \subseteq upvotes /\ UNCHANGED <<nextUpvoteId, notifications>>
    BY <1>2
  <2>2. TypeOK'
    BY <1>1, <2>1 DEF TypeOK, ReviewIds
  <2>3. IsFiniteSet(upvotes') /\ OneVoteEach'
    BY <2>1, FS_Subset DEF FinitelyMany, OneVoteEach
  <2> QED BY <1>1, <2>1, <2>2, <2>3, QuietStep DEF Notices
<1>3. CASE /\ UpvotesOf(p, email) = {}
           /\ nextUpvoteId <= MaxUpvotes
           /\ upvotes' = upvotes \cup {[id |-> nextUpvoteId, project |-> p, email |-> email]}
           /\ nextUpvoteId' = nextUpvoteId + 1
           /\ NotifyMaker(p, "upvote", email)
  <2>1. /\ notifications' \in Seq(Notification)
        /\ \A q \in Projects : Notices(q, "review")' = Notices(q, "review")
    BY <1>1, <1>3, Notifying DEF NotifyMaker, TypeOK
  <2>2. TypeOK'
    BY <1>1, <1>3, <2>1 DEF TypeOK, ReviewIds
  <2>3. IsFiniteSet(upvotes')
    BY <1>3, FS_AddElement DEF FinitelyMany
  <2>4. OneVoteEach'
    BY <1>1, <1>3 DEF OneVoteEach, UpvotesOf, TypeOK
  <2> QED BY <1>1, <2>1, <2>2, <2>3, <2>4, QuietStep
<1> QED BY <1>2, <1>3 DEF ToggleUpvote

LEMMA FeatureInv ==
  ASSUME FInv, NEW p \in Projects, NEW on \in BOOLEAN, SetProjectFeatured(p, on)
  PROVE  FInv'
<1>1. /\ notifications' \in Seq(Notification)
      /\ \A q \in Projects : Notices(q, "review")' = Notices(q, "review")
  <2>1. CASE on /\ p \notin featured
    BY <2>1, Notifying DEF SetProjectFeatured, FInv, TypeOK
  <2>2. CASE ~(on /\ p \notin featured)
    BY <2>2 DEF SetProjectFeatured, FInv, TypeOK, Notices
  <2> QED BY <2>1, <2>2
<1>2. UNCHANGED <<reviews, audit, upvotes, nextUpvoteId, valid>> /\ featured' \subseteq Projects
  BY DEF SetProjectFeatured, FInv, TypeOK
<1>3. TypeOK'
  BY <1>1, <1>2 DEF FInv, TypeOK, ReviewIds
<1>4. IsFiniteSet(upvotes') /\ OneVoteEach'
  BY <1>2 DEF FInv, FinitelyMany, OneVoteEach
<1> QED BY <1>1, <1>2, <1>3, <1>4, QuietStep

LEMMA MarkReadInv ==
  ASSUME FInv, NEW email \in Members, NEW ids \in SUBSET DOMAIN notifications,
         MarkNotificationsRead(email, ids)
  PROVE  FInv'
<1>1. UNCHANGED <<reviews, audit, upvotes, nextUpvoteId, valid, featured>>
  BY DEF MarkNotificationsRead
<1>2. notifications \in Seq(Notification)
  BY DEF FInv, TypeOK
<1>3. /\ DOMAIN notifications' = 1 .. Len(notifications)
      /\ DOMAIN notifications = 1 .. Len(notifications) /\ Len(notifications) \in Nat
      /\ \A k \in 1 .. Len(notifications) :
           /\ notifications'[k] \in Notification
           /\ notifications'[k].project = notifications[k].project
           /\ notifications'[k].type = notifications[k].type
  <2>1. /\ DOMAIN notifications = 1 .. Len(notifications) /\ Len(notifications) \in Nat
        /\ DOMAIN notifications' = DOMAIN notifications
    BY <1>2 DEF MarkNotificationsRead
  <2>2. ASSUME NEW k \in 1 .. Len(notifications)
        PROVE  /\ notifications'[k] \in Notification
               /\ notifications'[k].project = notifications[k].project
               /\ notifications'[k].type = notifications[k].type
    <3>1. notifications[k] \in Notification
      BY <1>2
    <3>2. notifications'[k] \in {notifications[k], [notifications[k] EXCEPT !.read = TRUE]}
      BY <2>1 DEF MarkNotificationsRead
    <3> QED BY <3>1, <3>2 DEF Notification
  <2> QED BY <2>1, <2>2
<1>4. notifications' \in Seq(Notification)
  BY <1>3 DEF MarkNotificationsRead
<1>5. \A q \in Projects : Notices(q, "review")' = Notices(q, "review")
  BY <1>3 DEF Notices
<1>6. TypeOK'
  BY <1>1, <1>4 DEF FInv, TypeOK, ReviewIds
<1>7. IsFiniteSet(upvotes') /\ OneVoteEach'
  BY <1>1 DEF FInv, FinitelyMany, OneVoteEach
<1> QED BY <1>1, <1>5, <1>6, <1>7, QuietStep

LEMMA NextInv ==
  ASSUME FInv, [Next]_vars
  PROVE  FInv'
<1>1. CASE \E p \in Projects, parent \in 0 .. Len(reviews), author \in Members :
             CreateProjectReview(p, parent, author)
  BY <1>1, CreateInv
<1>2. CASE \E id \in ReviewIds, reporter \in Members : ReportProjectReview(id, reporter)
  BY <1>2, ReportInv
<1>3. CASE \E id \in ReviewIds, action \in Moderations : ModerateProjectReview(id, action)
  BY <1>3, ModerateInv
<1>4. CASE \E p \in Projects, email \in Members : ToggleUpvote(p, email)
  BY <1>4, UpvoteInv
<1>5. CASE \E p \in Projects, success \in BOOLEAN : Refresh(p, success)
  <2>1. UNCHANGED <<reviews, audit, upvotes, nextUpvoteId, featured, notifications>>
        /\ valid' \in [Projects -> BOOLEAN]
    BY <1>5 DEF Refresh, FInv, TypeOK
  <2>2. TypeOK'
    BY <2>1 DEF FInv, TypeOK, ReviewIds
  <2>3. IsFiniteSet(upvotes') /\ OneVoteEach'
    BY <2>1 DEF FInv, FinitelyMany, OneVoteEach
  <2> QED BY <2>1, <2>2, <2>3, QuietStep DEF Notices
<1>6. CASE \E p \in Projects, on \in BOOLEAN : SetProjectFeatured(p, on)
  BY <1>6, FeatureInv
<1>7. CASE \E email \in Members, ids \in SUBSET DOMAIN notifications :
             MarkNotificationsRead(email, ids)
  BY <1>7, MarkReadInv
<1>8. CASE UNCHANGED vars
  <2>1. TypeOK' /\ OneVoteEach' /\ IsFiniteSet(upvotes')
    BY <1>8 DEF vars, FInv, TypeOK, ReviewIds, OneVoteEach, FinitelyMany
  <2> QED BY <1>8, <2>1, QuietStep DEF vars, Notices
<1> QED BY <1>1, <1>2, <1>3, <1>4, <1>5, <1>6, <1>7, <1>8 DEF Next

------------------------------------------------------------------------------
\* The invariant is inductive.
THEOREM Invariance == Spec => []FInv
<1>1. Init => FInv
  BY InitInv
<1>2. FInv /\ [Next]_vars => FInv'
  BY NextInv
<1> QED BY <1>1, <1>2, PTL DEF Spec

\* Type correctness; a reply stands after its root and the log names reviews
\* that exist.
THEOREM TypeCorrect == Spec => []TypeOK
<1>1. FInv => TypeOK
  BY DEF FInv
<1> QED BY <1>1, Invariance, PTL

\* The audit log alone tells the status of each review, through any reports,
\* automatic hidings and moderations.
THEOREM LogTellsStatus == Spec => []AuditTellsStatus
<1>1. FInv => AuditTellsStatus
  BY DEF FInv
<1> QED BY <1>1, Invariance, PTL

\* reportCount and reportedBy, which the code changes apart, agree.
THEOREM ReportersCounted == Spec => []CountsDifferentReporters
<1>1. FInv => CountsDifferentReporters
  BY DEF FInv
<1> QED BY <1>1, Invariance, PTL

\* At the threshold a review is hidden, below it only by an admin's hand.
THEOREM HiddenByThreshold == Spec => []HiddenAtThreshold
<1>1. FInv => HiddenAtThreshold
  BY DEF FInv
<1> QED BY <1>1, Invariance, PTL

\* notifyMaker is called once for each review by somebody else.
THEOREM OwnersHear == Spec => []ReviewsAreAnnounced
<1>1. FInv => ReviewsAreAnnounced
  BY DEF FInv
<1> QED BY <1>1, Invariance, PTL

\* filterVisibleReviews shows no reply without its root.
THEOREM RootsShown == Spec => []RepliesShownUnderRoots
<1>1. FInv => RepliesShownUnderRoots
  <2>1. ASSUME FInv, NEW p \in Projects, NEW id \in VisibleReviews(p),
               reviews[id].parent # 0
        PROVE  /\ reviews[id].parent \in VisibleReviews(p)
               /\ reviews[reviews[id].parent].parent = 0
    <3>1. id \in ReviewIds /\ reviews[id].project = p
      BY DEF VisibleReviews
    <3>2. /\ reviews[id].parent \in ReviewIds
          /\ reviews[reviews[id].parent].project = p
          /\ reviews[reviews[id].parent].parent = 0
      BY <2>1, <3>1 DEF FInv, RepliesAnswerRoots
    <3> QED BY <2>1, <3>2 DEF VisibleReviews
  <2> QED BY <2>1 DEF RepliesShownUnderRoots
<1> QED BY <1>1, Invariance, PTL

\* Behind the upvotes that make a project eligible stand as many members other
\* than its owner: upvotes and their e-mails correspond one to one.
THEOREM LadderIsEarned == Spec => []LadderNeedsOthers
<1>1. ASSUME FInv, NEW p \in Projects
      PROVE  UpvoteCount(p)
               = Cardinality({u.email : u \in {v \in upvotes : v.project = p}} \ {Owner[p]})
  <2> DEFINE mine == {v \in upvotes : v.project = p}
             emails == {u.email : u \in mine}
             f == [u \in mine |-> u.email]
  <2>1. emails \ {Owner[p]} = emails
    BY <1>1 DEF FInv, OneVoteEach
  <2>2. IsFiniteSet(mine)
    BY <1>1, FS_Subset DEF FInv, FinitelyMany
  <2>3. \A u, v \in mine : u.email = v.email => u = v
    BY <1>1 DEF FInv, OneVoteEach
  <2>4. f \in Bijection(mine, emails)
    BY <2>3 DEF Bijection, Injection, Surjection, IsInjective
  <2>5. Cardinality(emails) = Cardinality(mine)
    BY <2>2, <2>4, FS_Bijection DEF ExistsBijection
  <2> QED BY <2>1, <2>5 DEF UpvoteCount
<1>2. FInv => LadderNeedsOthers
  BY <1>1 DEF LadderNeedsOthers, LadderEligible
<1> QED BY <1>2, Invariance, PTL

------------------------------------------------------------------------------
(* The operators' console: what it shows of the bundle, the cache and the     *)
(* moderations under way.                                                     *)

\* Every answer on its way or kept is that of the query it is kept for.
AnswersFit ==
  /\ fetch = [key |-> fetch.key, parts |-> fetch.parts]
  /\ "revenue" \in DOMAIN fetch.parts => fetch.parts.revenue.query = fetch.key[1]
  /\ \A k \in DOMAIN cache : cache[k].revenue.query = k

\* The effect has run for the bundle of the query in effect.
BundleInSync ==
  /\ dep = DataOf(Key(applied), cache, open)
  /\ dep # NoBundle => shown = <<dep[2]>>

\* While the console is open, it asks for the query in effect.
AsksWhatIsApplied == open /\ fetch # NoFetch => fetch.key = <<applied>>

\* A queue that is older than another: reviews leave it, and become hidden.
Queues == UNION {[D -> {"reported", "hidden"}] : D \in SUBSET Reported}
Later(new, old) ==
  /\ DOMAIN new \subseteq DOMAIN old
  /\ \A r \in DOMAIN new : new[r] \in {old[r], "hidden"}

\* No queue the console holds is ahead of the server's.
NothingAhead ==
  /\ reported \in Queues
  /\ "queue" \in DOMAIN fetch.parts => Later(reported, fetch.parts.queue)
  /\ \A k \in DOMAIN cache : Later(reported, cache[k].queue)

\* The shape of the moderations under way.
HandlersShaped ==
  \A h \in handlers : h = [n |-> h.n, review |-> h.review, action |-> h.action, key |-> h.key,
                           at |-> h.at]

\* A moderation that was served has left its mark.
LeftItsMark(h) ==
  h.review \in DOMAIN reported => h.action = "hide" /\ reported[h.review] = "hidden"
ServedMarks == \A h \in handlers : h.at = "served" => LeftItsMark(h)

\* A moderation the operator did not run away from is about the query in effect.
NotStrayed ==
  ~strayed => \A h \in handlers : h.key = applied /\ open /\ h.at # "orphan"

\* After the last moderation the bundle was asked for again.
AskedAgain ==
  (~strayed /\ "queue" \in DOMAIN fetch.parts /\ \A h \in handlers : h.at \in {"sent", "loading"})
    => fetch.parts.queue = reported

\* The patches of a queue that was up to date when it came left it so.
PatchedInStep == dep # NoBundle /\ dep[2].queue = reported => queue = reported

CInv ==
  /\ AnswersFit
  /\ BundleInSync
  /\ AsksWhatIsApplied
  /\ NothingAhead
  /\ ServedMarks
  /\ HandlersShaped
  /\ NotStrayed
  /\ AskedAgain
  /\ PatchedInStep

LEMMA LaterTrans ==
  ASSUME NEW a, NEW b, NEW c, Later(a, b), Later(b, c)
  PROVE  Later(a, c)
<1> QED BY DEF Later

LEMMA LaterAntisym ==
  ASSUME NEW a \in Queues, NEW b \in Queues, Later(a, b), Later(b, a)
  PROVE  a = b
<1>1. PICK D \in SUBSET Reported : a \in [D -> {"reported", "hidden"}]
  BY DEF Queues
<1>2. PICK E \in SUBSET Reported : b \in [E -> {"reported", "hidden"}]
  BY DEF Queues
<1>3. D = E /\ \A r \in D : a[r] = b[r]
  BY <1>1, <1>2 DEF Later
<1> QED BY <1>1, <1>2, <1>3

LEMMA LaterSelf == ASSUME NEW a PROVE Later(a, a)
<1> QED BY DEF Later

\* What a moderation makes of the queue.
LEMMA AfterLater ==
  ASSUME NEW q \in Queues, NEW r \in DOMAIN q, NEW action
  PROVE  /\ After(q, r, action) \in Queues
         /\ Later(After(q, r, action), q)
         /\ r \in DOMAIN After(q, r, action) => action = "hide" /\ After(q, r, action)[r] = "hidden"
<1>1. PICK D \in SUBSET Reported : q \in [D -> {"reported", "hidden"}]
  BY DEF Queues
<1>2. CASE action = "hide"
  <2>1. After(q, r, action) = [q EXCEPT ![r] = "hidden"]
    BY <1>2 DEF After
  <2>2. After(q, r, action) \in [D -> {"reported", "hidden"}]
    BY <1>1, <2>1
  <2> QED BY <1>1, <1>2, <2>1, <2>2 DEF Queues, Later
<1>3. CASE action # "hide"
  <2>1. After(q, r, action) = [x \in DOMAIN q \ {r} |-> q[x]]
    BY <1>3 DEF After, Restrict
  <2>2. After(q, r, action) \in [D \ {r} -> {"reported", "hidden"}] /\ D \ {r} \in SUBSET Reported
    BY <1>1, <2>1
  <2> QED BY <1>1, <1>3, <2>1, <2>2 DEF Queues, Later
<1> QED BY <1>2, <1>3

LEMMA ConsoleStart == ASSUME ConsoleInit PROVE CInv
<1>1. fetch = Started(inputs) /\ cache = <<>> /\ dep = NoBundle /\ applied = inputs /\ handlers = {}
  BY DEF ConsoleInit
<1>2. /\ DOMAIN fetch.parts = {} /\ DOMAIN cache = {} /\ fetch.key = <<applied>>
      /\ fetch = [key |-> fetch.key, parts |-> fetch.parts]
  BY <1>1 DEF Started
<1>3. reported \in [Reported -> {"reported", "hidden"}]
  BY DEF ConsoleInit
<1>4. reported \in Queues
  BY <1>3 DEF Queues
<1>5. DataOf(Key(applied), cache, open) = NoBundle
  BY <1>2 DEF DataOf
<1> QED BY <1>1, <1>2, <1>4, <1>5 DEF CInv, AnswersFit, BundleInSync, AsksWhatIsApplied,
          NothingAhead, ServedMarks, HandlersShaped, NotStrayed, AskedAgain, PatchedInStep

\* The effect that shows the bundle, for any bundle of the query in effect.
LEMMA SyncKeeps ==
  ASSUME CInv, NEW d, Sync(d), d = DataOf(Key(applied), cache, open)',
         UNCHANGED reported
  PROVE  BundleInSync' /\ PatchedInStep'
<1>1. CASE d # dep /\ d # NoBundle
  BY <1>1 DEF Sync, BundleInSync, PatchedInStep
<1>2. CASE d = dep \/ d = NoBundle
  BY <1>2 DEF Sync, CInv, BundleInSync, PatchedInStep
<1> QED BY <1>1, <1>2

LEMMA RenderKeeps ==
  ASSUME CInv, NEW q, NEW mounted, Render(q, mounted), UNCHANGED <<reported, handlers>>
  PROVE  CInv'
<1> USE DEF Key
<1>1. fetch' \in {fetch, Started(q)}
  BY DEF Render
<1>2. /\ DOMAIN Started(q).parts = {} /\ Started(q).key = <<q>>
      /\ Started(q) = [key |-> Started(q).key, parts |-> Started(q).parts]
  BY DEF Started
<1>3. DOMAIN cache' \subseteq DOMAIN cache /\ \A k \in DOMAIN cache' : cache'[k] = cache[k]
  BY DEF Render, Restrict
<1>4. AnswersFit'
  BY <1>1, <1>2, <1>3 DEF CInv, AnswersFit
<1>5. BundleInSync' /\ PatchedInStep'
  BY SyncKeeps DEF Render
<1>6. AsksWhatIsApplied'
  BY <1>1, <1>2 DEF Render, CInv, AsksWhatIsApplied
<1>7. NothingAhead'
  BY <1>1, <1>2, <1>3 DEF CInv, NothingAhead
<1>8. ServedMarks' /\ HandlersShaped'
  BY DEF CInv, ServedMarks, LeftItsMark, HandlersShaped
<1>9. NotStrayed'
  <2>1. ~strayed' => ~strayed /\ (handlers # {} => q = applied /\ mounted = open)
    BY DEF Render
  <2> QED BY <2>1 DEF CInv, NotStrayed, Render
<1>10. AskedAgain'
  BY <1>1, <1>2 DEF CInv, AskedAgain, Render
<1> QED BY <1>4, <1>5, <1>6, <1>7, <1>8, <1>9, <1>10 DEF CInv

LEMMA ReloadKeeps == ASSUME CInv, Reload PROVE CInv'
<1>1. /\ DOMAIN fetch'.parts = {} /\ (fetch' # NoFetch => fetch'.key = <<applied'>>)
      /\ fetch' = [key |-> fetch'.key, parts |-> fetch'.parts]
  BY DEF Reload, Started, NoFetch
<1>2. DOMAIN cache' = {} /\ dep' = NoBundle
  BY DEF Reload
<1>3. DataOf(Key(applied), cache, open)' = NoBundle
  BY <1>2 DEF DataOf
<1>4. /\ \A h \in handlers' : h.at = "orphan"
      /\ HandlersShaped'
  <2> SUFFICES ASSUME NEW h \in handlers'
               PROVE  /\ h.at = "orphan"
                      /\ h = [n |-> h.n, review |-> h.review, action |-> h.action, key |-> h.key,
                              at |-> h.at]
    BY DEF HandlersShaped
  <2>1. PICK g \in handlers : g.at \in {"sent", "orphan"} /\ h = [g EXCEPT !.at = "orphan"]
    BY DEF Reload
  <2>2. g = [n |-> g.n, review |-> g.review, action |-> g.action, key |-> g.key, at |-> g.at]
    BY DEF CInv, HandlersShaped
  <2> QED BY <2>1, <2>2
<1>5. ~strayed' => handlers' = {}
  BY DEF Reload
<1> QED BY <1>1, <1>2, <1>3, <1>4, <1>5 DEF Reload, server, CInv, AnswersFit, BundleInSync,
          AsksWhatIsApplied, NothingAhead, ServedMarks, LeftItsMark, HandlersShaped, NotStrayed, AskedAgain, PatchedInStep

\* Steps after which everything but the inputs, the filters and the server's
\* projects and events is as it was.
LEMMA QuietKeeps ==
  ASSUME CInv, UNCHANGED <<reported, applied, open, bundle, handlers, strayed>>
  PROVE  CInv'
<1> QED BY DEF bundle, CInv, AnswersFit, BundleInSync, AsksWhatIsApplied, NothingAhead,
          ServedMarks, LeftItsMark, HandlersShaped, NotStrayed, AskedAgain, PatchedInStep

LEMMA PollKeeps == ASSUME CInv, Poll PROVE CInv'
<1>1. /\ DOMAIN fetch'.parts = {} /\ fetch'.key = <<applied'>>
      /\ fetch' = [key |-> fetch'.key, parts |-> fetch'.parts]
  BY DEF Poll, Started
<1> QED BY <1>1 DEF Poll, server, CInv, AnswersFit, BundleInSync,
          AsksWhatIsApplied, NothingAhead, ServedMarks, LeftItsMark, HandlersShaped, NotStrayed, AskedAgain, PatchedInStep

LEMMA ServedKeeps == ASSUME CInv, Served PROVE CInv'
<1>1. PICK part \in Parts \ DOMAIN fetch.parts :
        /\ fetch # NoFetch
        /\ LET answer == CASE part = "dashboard" -> Server
                           [] part = "revenue"   -> [server |-> Server, query |-> fetch.key[1]]
                           [] part = "queue"     -> reported
           IN fetch' = [fetch EXCEPT !.parts = [x \in DOMAIN @ \cup {part} |->
                                                  IF x = part THEN answer ELSE @[x]]]
  BY DEF Served
<1> DEFINE answer == CASE part = "dashboard" -> Server
                       [] part = "revenue"   -> [server |-> Server, query |-> fetch.key[1]]
                       [] part = "queue"     -> reported
<1>2. /\ fetch'.key = fetch.key
      /\ fetch' = [key |-> fetch'.key, parts |-> fetch'.parts]
      /\ fetch'.parts = [x \in DOMAIN fetch.parts \cup {part} |->
                           IF x = part THEN answer ELSE fetch.parts[x]]
  <2> HIDE DEF answer
  <2>1. fetch' = [fetch EXCEPT !.parts = [x \in DOMAIN fetch.parts \cup {part} |->
                                            IF x = part THEN answer ELSE fetch.parts[x]]]
    BY <1>1 DEF answer
  <2>2. fetch = [key |-> fetch.key, parts |-> fetch.parts]
    BY DEF CInv, AnswersFit
  <2> QED BY <2>1, <2>2
<1>3. /\ part = "revenue" => answer.query = fetch.key[1]
      /\ part = "queue" => answer = reported
  OBVIOUS
<1> HIDE DEF answer
<1>4. UNCHANGED <<server, inputs, applied, open, filters, cache, dep, shown, queue, work>>
  BY DEF Served
<1>5. \A x \in DOMAIN fetch'.parts :
        IF x = part THEN fetch'.parts[x] = answer
                    ELSE x \in DOMAIN fetch.parts /\ fetch'.parts[x] = fetch.parts[x]
  BY <1>2
<1>6. AnswersFit'
  BY <1>2, <1>3, <1>4, <1>5 DEF CInv, AnswersFit
<1>7. NothingAhead'
  BY <1>2, <1>3, <1>4, <1>5, LaterSelf DEF CInv, NothingAhead, server
<1>8. AskedAgain'
  BY <1>2, <1>3, <1>4, <1>5 DEF CInv, AskedAgain, server, work
<1> QED BY <1>1, <1>2, <1>4, <1>6, <1>7, <1>8 DEF server, work, CInv, BundleInSync,
          AsksWhatIsApplied, ServedMarks, LeftItsMark, HandlersShaped, NotStrayed, PatchedInStep

LEMMA ArriveKeeps == ASSUME CInv, Arrive PROVE CInv'
<1> DEFINE key == fetch.key[1]
<1> USE DEF Key
<1>1. /\ fetch # NoFetch /\ DOMAIN fetch.parts = Parts /\ fetch' = NoFetch
      /\ UNCHANGED <<server, inputs, applied, open, filters, work>>
      /\ Sync(DataOf(Key(applied), cache', open))
  BY DEF Arrive
<1>2. /\ DOMAIN cache' = DOMAIN cache \cup {key}
      /\ \A k \in DOMAIN cache' : cache'[k] = IF k = key THEN fetch.parts ELSE cache[k]
  BY DEF Arrive
<1>3. /\ DOMAIN fetch'.parts = {} /\ fetch' = [key |-> fetch'.key, parts |-> fetch'.parts]
  BY <1>1 DEF NoFetch
<1>4. AnswersFit'
  BY <1>1, <1>2, <1>3 DEF CInv, AnswersFit, Parts
<1>5. BundleInSync' /\ PatchedInStep'
  BY <1>1, SyncKeeps DEF server
<1>6. NothingAhead'
  BY <1>1, <1>2, <1>3 DEF CInv, NothingAhead, Parts, server
<1> QED BY <1>1, <1>3, <1>4, <1>5, <1>6 DEF server, work, CInv,
          AsksWhatIsApplied, ServedMarks, LeftItsMark, HandlersShaped, NotStrayed, AskedAgain

LEMMA FailsKeeps == ASSUME CInv, Fails PROVE CInv'
<1>1. /\ DOMAIN fetch'.parts = {} /\ fetch' = [key |-> fetch'.key, parts |-> fetch'.parts]
      /\ fetch' = NoFetch
  BY DEF Fails, NoFetch
<1> QED BY <1>1 DEF Fails, server, work, CInv, AnswersFit, BundleInSync, AsksWhatIsApplied,
          NothingAhead, ServedMarks, LeftItsMark, HandlersShaped, NotStrayed, AskedAgain, PatchedInStep

LEMMA MarketShownKeeps == ASSUME CInv, MarketShown PROVE CInv'
<1>1. dep = NoBundle
  BY DEF MarketShown, CInv, BundleInSync, DataOf
<1> QED BY <1>1 DEF MarketShown, server, work, CInv, AnswersFit, BundleInSync, AsksWhatIsApplied,
          NothingAhead, ServedMarks, LeftItsMark, HandlersShaped, NotStrayed, AskedAgain, PatchedInStep

LEMMA ModerateKeeps == ASSUME CInv, Moderate PROVE CInv'
<1>1. PICK r \in DOMAIN queue, action \in {"keep", "hide", "restore"} :
        /\ open
        /\ handlers' = handlers \cup {[n |-> deeds, review |-> r, action |-> action, key |-> applied,
                                       at |-> "sent"]}
        /\ UNCHANGED <<server, inputs, applied, open, filters, bundle, strayed>>
  BY DEF Moderate
<1>2. \A h \in handlers' : h \in handlers \/ (h.at = "sent" /\ h.key = applied)
  BY <1>1
<1>3. handlers \subseteq handlers'
  BY <1>1
<1>4. NotStrayed'
  BY <1>1, <1>2 DEF CInv, NotStrayed
<1>7. HandlersShaped'
  BY <1>1 DEF CInv, HandlersShaped
<1>5. ServedMarks'
  BY <1>1, <1>2 DEF CInv, ServedMarks, LeftItsMark, server
<1>6. AskedAgain'
  BY <1>1, <1>3 DEF CInv, AskedAgain, server, bundle
<1> QED BY <1>1, <1>4, <1>5, <1>6, <1>7 DEF server, bundle, CInv, AnswersFit, BundleInSync,
          AsksWhatIsApplied, NothingAhead, PatchedInStep

\* A moderation goes on to its next request.
LEMMA ProceedShape ==
  ASSUME HandlersShaped, NEW h \in handlers, NEW to, Proceed(h, to)
  PROVE  /\ HandlersShaped'
         /\ \A x \in handlers' : x \in handlers \/ (x.at = to /\ x.review = h.review
                                  /\ x.action = h.action /\ x.key = h.key)
         /\ \A x \in handlers : x = h \/ x \in handlers'
         /\ \E x \in handlers' : x.at = to
<1> DEFINE g == [h EXCEPT !.at = to]
<1>1. h = [n |-> h.n, review |-> h.review, action |-> h.action, key |-> h.key, at |-> h.at]
  BY DEF HandlersShaped
<1>2. g = [n |-> h.n, review |-> h.review, action |-> h.action, key |-> h.key, at |-> to]
  BY <1>1
<1>3. handlers' = (handlers \ {h}) \cup {g}
  BY DEF Proceed
<1> HIDE DEF g
<1> QED BY <1>2, <1>3 DEF HandlersShaped

LEMMA ModerationServedKeeps == ASSUME CInv, ModerationServed PROVE CInv'
<1>1. PICK h \in handlers :
        /\ \/ h.at = "sent" /\ Proceed(h, "served")
           \/ h.at = "orphan" /\ handlers' = handlers \ {h}
        /\ reported' = IF h.review \in DOMAIN reported THEN After(reported, h.review, h.action) ELSE reported
        /\ UNCHANGED <<projects, proposals, events, inputs, applied, open, filters, bundle, moderating, strayed>>
  BY DEF ModerationServed
<1>2. /\ reported' \in Queues /\ Later(reported', reported)
      /\ h.review \in DOMAIN reported' => h.action = "hide" /\ reported'[h.review] = "hidden"
  BY <1>1, AfterLater, LaterSelf DEF CInv, NothingAhead
<1>3. /\ HandlersShaped'
      /\ \A x \in handlers' : \/ x \in handlers
                              \/ h.at = "sent" /\ x.at = "served" /\ x.review = h.review
                                 /\ x.action = h.action /\ x.key = h.key
      /\ h.at = "sent" => \E x \in handlers' : x.at = "served"
  <2>1. CASE h.at = "sent"
    BY <1>1, <2>1, ProceedShape DEF CInv
  <2>2. CASE h.at = "orphan"
    BY <1>1, <2>2 DEF CInv, HandlersShaped
  <2> QED BY <1>1, <2>1, <2>2
<1>5. UNCHANGED <<fetch, cache, dep, queue, shown, applied, open, strayed>>
  BY <1>1 DEF bundle
<1>6. NothingAhead'
  BY <1>2, <1>5, LaterTrans DEF CInv, NothingAhead
<1>7. \A x : LeftItsMark(x) => LeftItsMark(x)'
  BY <1>2 DEF LeftItsMark, Later
<1>8. ServedMarks'
  BY <1>2, <1>3, <1>7 DEF CInv, ServedMarks, LeftItsMark
<1>9. NotStrayed'
  BY <1>3, <1>5 DEF CInv, NotStrayed
<1>10. AskedAgain'
  BY <1>1, <1>3, <1>5 DEF CInv, AskedAgain, NotStrayed
<1>11. PatchedInStep'
  <2> SUFFICES ASSUME dep # NoBundle, dep[2].queue = reported' PROVE queue = reported'
    BY <1>5 DEF PatchedInStep
  <2>1. Later(reported, dep[2].queue)
    BY DEF CInv, BundleInSync, DataOf, NothingAhead
  <2>2. reported' = reported
    BY <1>2, <2>1, LaterAntisym DEF CInv, NothingAhead
  <2> QED BY <2>2 DEF CInv, PatchedInStep
<1> QED BY <1>3, <1>5, <1>6, <1>8, <1>9, <1>10, <1>11 DEF CInv, AnswersFit, BundleInSync,
          AsksWhatIsApplied

LEMMA ModerationArrivesKeeps == ASSUME CInv, ModerationArrives PROVE CInv'
<1>1. PICK h \in handlers :
        /\ h.at = "served" /\ Proceed(h, "auditing")
        /\ queue' = IF h.review \in DOMAIN queue THEN After(queue, h.review, h.action) ELSE queue
        /\ UNCHANGED <<server, inputs, applied, open, filters, cache, fetch, dep, shown,
                       moderating, strayed>>
  BY DEF ModerationArrives
<1>2. /\ HandlersShaped'
      /\ \A x \in handlers' : x \in handlers \/ (x.at = "auditing" /\ x.review = h.review
                                  /\ x.action = h.action /\ x.key = h.key)
      /\ \E x \in handlers' : x.at = "auditing"
  BY <1>1, ProceedShape DEF CInv
<1>3. ServedMarks'
  BY <1>1, <1>2 DEF CInv, ServedMarks, LeftItsMark, server
<1>4. NotStrayed'
  BY <1>1, <1>2 DEF CInv, NotStrayed
<1>5. AskedAgain'
  BY <1>1, <1>2 DEF CInv, AskedAgain
<1>6. PatchedInStep'
  <2> SUFFICES ASSUME dep # NoBundle, dep[2].queue = reported PROVE queue' = reported
    BY <1>1 DEF PatchedInStep, server
  <2>1. queue = reported /\ LeftItsMark(h)
    BY <1>1 DEF CInv, PatchedInStep, ServedMarks
  <2>2. ASSUME h.review \in DOMAIN reported PROVE After(reported, h.review, h.action) = reported
    <3>1. PICK D \in SUBSET Reported : reported \in [D -> {"reported", "hidden"}]
      BY DEF CInv, NothingAhead, Queues
    <3>2. h.action = "hide" /\ reported[h.review] = "hidden"
      BY <2>1, <2>2 DEF LeftItsMark
    <3> QED BY <3>1, <3>2 DEF After
  <2> QED BY <1>1, <2>1, <2>2
<1> QED BY <1>1, <1>2, <1>3, <1>4, <1>5, <1>6 DEF server, CInv, AnswersFit, BundleInSync,
          AsksWhatIsApplied, NothingAhead

LEMMA AuditArrivesKeeps == ASSUME CInv, AuditArrives PROVE CInv'
<1>1. PICK h \in handlers :
        /\ h.at = "auditing" /\ Proceed(h, "loading")
        /\ fetch' = IF h.key = applied /\ open THEN Started(applied) ELSE fetch
        /\ UNCHANGED <<server, inputs, applied, open, filters, cache, dep, shown, queue,
                       moderating, strayed>>
  BY DEF AuditArrives
<1>2. /\ HandlersShaped'
      /\ \A x \in handlers' : x \in handlers \/ (x.at = "loading" /\ x.review = h.review
                                  /\ x.action = h.action /\ x.key = h.key)
  BY <1>1, ProceedShape DEF CInv
<1>3. /\ DOMAIN Started(applied).parts = {} /\ Started(applied).key = <<applied>>
      /\ Started(applied) = [key |-> Started(applied).key, parts |-> Started(applied).parts]
  BY DEF Started
<1>4. ServedMarks'
  BY <1>1, <1>2 DEF CInv, ServedMarks, LeftItsMark, server
<1>5. NotStrayed'
  BY <1>1, <1>2 DEF CInv, NotStrayed
<1>6. AskedAgain'
  BY <1>1, <1>3 DEF CInv, AskedAgain, NotStrayed
<1>7. AnswersFit' /\ NothingAhead' /\ AsksWhatIsApplied'
  BY <1>1, <1>3 DEF CInv, AnswersFit, NothingAhead, AsksWhatIsApplied, server
<1> QED BY <1>1, <1>2, <1>4, <1>5, <1>6, <1>7 DEF server, CInv, BundleInSync, PatchedInStep

LEMMA ModerationEndsKeeps == ASSUME CInv, ModerationEnds \/ ModerationFails PROVE CInv'
<1>1. PICK h \in handlers :
        /\ handlers' = handlers \ {h}
        /\ (h.at = "loading" /\ strayed' = strayed) \/ strayed' = TRUE
        /\ UNCHANGED <<server, inputs, applied, open, filters, bundle>>
  BY DEF ModerationEnds, ModerationFails
<1>2. AskedAgain'
  BY <1>1 DEF CInv, AskedAgain, server, bundle
<1> QED BY <1>1, <1>2 DEF server, bundle, CInv, AnswersFit, BundleInSync, AsksWhatIsApplied,
          NothingAhead, ServedMarks, LeftItsMark, HandlersShaped, NotStrayed, PatchedInStep

LEMMA ConsoleStep == ASSUME CInv, [ConsoleNext]_consoleVars PROVE CInv'
<1>1. CASE Operator
  <2>1. ASSUME NEW next, Edit(next) PROVE CInv'
    BY <2>1, QuietKeeps DEF Edit, server
  <2>2. CASE EditRate \/ EditFee \/ EditTarget \/ EditMultiplier \/ ResetMultipliers \/ ChooseTemplate
    BY <2>1, <2>2 DEF EditRate, EditFee, EditTarget, EditMultiplier, ResetMultipliers, ChooseTemplate
  <2>3. CASE Reload
    BY <2>3, ReloadKeeps
  <2>4. CASE ApplyObserved
    BY <2>1, <2>4 DEF ApplyObserved
  <2>5. ASSUME NEW areas, Apply(areas) PROVE CInv'
    <3> DEFINE moves == SelectSeq(areas, LAMBDA a : a # "revenueModel")
    <3>1. Render(applied, moves = <<>>) /\ UNCHANGED <<server, moderating, handlers>>
      BY <2>5 DEF Apply
    <3> HIDE DEF moves
    <3> QED BY <3>1, RenderKeeps DEF server
  <2>6. CASE ApplyRecommendation \/ ApplyAll
    BY <2>5, <2>6 DEF ApplyRecommendation, ApplyAll
  <2>7. CASE SwitchView
    BY <2>7, RenderKeeps DEF SwitchView, server
  <2>8. CASE Moderate
    BY <2>8, ModerateKeeps
  <2> QED BY <1>1, <2>2, <2>3, <2>4, <2>6, <2>7, <2>8 DEF Operator
<1>2. CASE World
  <2>1. CASE Record \/ Propose \/ Probe
    <3>1. UNCHANGED <<reported, applied, open, bundle, work>>
      <4>1. CASE Record
        BY <4>1 DEF Record
      <4>2. CASE Propose
        BY <4>2 DEF Propose
      <4>3. CASE Probe
        BY <4>3 DEF Probe
      <4> QED BY <2>1, <4>1, <4>2, <4>3
    <3> QED BY <3>1, QuietKeeps DEF work
  <2>2. CASE Fails
    BY <2>2, FailsKeeps
  <2>3. CASE ModerationFails
    BY <2>3, ModerationEndsKeeps
  <2> QED BY <1>2, <2>1, <2>2, <2>3 DEF World
<1>3. CASE Client
  <2>1. CASE Debounce
    BY <2>1, RenderKeeps DEF Debounce, server
  <2> QED BY <1>3, <2>1, PollKeeps, ServedKeeps, ArriveKeeps, MarketShownKeeps, ModerationServedKeeps,
             ModerationArrivesKeeps, AuditArrivesKeeps, ModerationEndsKeeps DEF Client
<1>4. CASE UNCHANGED consoleVars
  BY <1>4, QuietKeeps DEF consoleVars, server, work
<1> QED BY <1>1, <1>2, <1>3, <1>4 DEF ConsoleNext

\* The inductive invariant of the console.
THEOREM ConsoleInvariance == ConsoleSpec => []CInv
<1> QED BY ConsoleStart, ConsoleStep, PTL DEF ConsoleSpec

LEMMA SomeBundle == ASSUME NEW k, NEW b PROVE <<k, b>> # NoBundle /\ <<k, b>>[2] = b
<1> QED BY DEF NoBundle

LEMMA ConsistentByInv == ASSUME CInv PROVE ReportIsConsistent
<1> SUFFICES ASSUME open, shown # <<>>, fetch = NoFetch, inputs = applied, Key(applied) \in DOMAIN cache
             PROVE  /\ Report.projection = Report.query
                    /\ Report.projection.config = Report.assumptions
                    /\ Report.projection.multipliers = Report.multipliers
  BY DEF ReportIsConsistent
<1>1. dep = <<applied, cache[applied]>>
  BY DEF CInv, BundleInSync, DataOf, Key
<1>2. shown = <<cache[applied]>>
  BY <1>1, SomeBundle DEF CInv, BundleInSync
<1>3. shown[1].revenue.query = applied
  BY <1>2 DEF CInv, AnswersFit, Key
<1> QED BY <1>3 DEF Report

\* What the report puts side by side agrees: once the timer has fired and the
\* answer has come, the projection is that of the assumptions, the target and
\* the multipliers in the inputs, whatever was edited, polled, lost or reloaded
\* before.
THEOREM ReportConsistent == ConsoleSpec => []ReportIsConsistent
<1> QED BY ConsoleInvariance, ConsistentByInv, PTL

LEMMA CatchesUpByInv ==
  ASSUME CInv, Arrive, open, ~strayed, \A h \in handlers : h.at = "loading"
  PROVE  queue' = reported
<1>1. /\ fetch # NoFetch /\ DOMAIN fetch.parts = Parts
      /\ Sync(DataOf(Key(applied), cache', open))
  BY DEF Arrive
<1>2. fetch.parts.queue = reported
  BY <1>1 DEF CInv, AskedAgain, Parts
<1>3. fetch.key[1] = applied
  BY <1>1 DEF CInv, AsksWhatIsApplied
<1>4. applied \in DOMAIN cache' /\ cache'[applied] = fetch.parts
  BY <1>3 DEF Arrive, Key
<1> DEFINE d == DataOf(Key(applied), cache', open)
<1>5. d = <<applied, fetch.parts>> /\ d # NoBundle /\ d[2] = fetch.parts
  BY <1>4, SomeBundle DEF DataOf, Key
<1>6. Sync(d)
  BY <1>1
<1> HIDE DEF d
<1>7. CASE d = dep
  BY <1>2, <1>5, <1>6, <1>7 DEF CInv, PatchedInStep, Sync
<1>8. CASE d # dep
  BY <1>2, <1>5, <1>6, <1>8 DEF Sync
<1> QED BY <1>7, <1>8

\* The queue catches up with the server: an answer that was asked for before a
\* moderation does not bring its review back once the moderation is finished,
\* for any number of reviews, moderations and polls.
THEOREM QueueIsCaughtUp == ConsoleSpec => QueueCatchesUp
<1>1. CInv /\ [ConsoleNext]_consoleVars =>
        [(Arrive /\ open /\ ~strayed /\ \A h \in handlers : h.at = "loading")
           => queue' = reported]_consoleVars
  BY CatchesUpByInv
<1> QED BY <1>1, ConsoleInvariance, PTL DEF ConsoleSpec, QueueCatchesUp

------------------------------------------------------------------------------
(* Numbers and counts.                                                        *)

\* The larger and the smaller of two numbers, and a number between bounds.
LEMMA MaxOfTwo ==
  ASSUME NEW x \in Int, NEW y \in Int
  PROVE  Max({x, y}) = IF x >= y THEN x ELSE y
<1> DEFINE m == IF x >= y THEN x ELSE y
<1>1. m \in {x, y} /\ \A z \in {x, y} : m >= z
  OBVIOUS
<1>2. \A n \in {x, y} : (\A z \in {x, y} : n >= z) => n = m
  OBVIOUS
<1> HIDE DEF m
<1>3. (CHOOSE n \in {x, y} : \A z \in {x, y} : n >= z) = m
  BY <1>1, <1>2
<1> QED BY <1>3 DEF Max, m

LEMMA MinOfTwo ==
  ASSUME NEW x \in Int, NEW y \in Int
  PROVE  Min({x, y}) = IF x <= y THEN x ELSE y
<1> DEFINE m == IF x <= y THEN x ELSE y
<1>1. m \in {x, y} /\ \A z \in {x, y} : m =< z
  OBVIOUS
<1>2. \A n \in {x, y} : (\A z \in {x, y} : n =< z) => n = m
  OBVIOUS
<1> HIDE DEF m
<1>3. (CHOOSE n \in {x, y} : \A z \in {x, y} : n =< z) = m
  BY <1>1, <1>2
<1> QED BY <1>3 DEF Min, m

LEMMA ClampBetween ==
  ASSUME NEW x \in Int, NEW lo \in Int, NEW hi \in Int, lo <= hi
  PROVE  Clamp(x, lo, hi) \in Int /\ lo <= Clamp(x, lo, hi) /\ Clamp(x, lo, hi) <= hi
<1>1. Min({hi, x}) = IF hi <= x THEN hi ELSE x
  BY MinOfTwo
<1>2. Min({hi, x}) \in Int
  BY <1>1
<1>3. Max({lo, Min({hi, x})}) = IF lo >= Min({hi, x}) THEN lo ELSE Min({hi, x})
  BY <1>2, MaxOfTwo
<1> QED BY <1>1, <1>3 DEF Clamp

LEMMA RoundDivInt ==
  ASSUME NEW x \in Int, NEW y \in Nat, y # 0
  PROVE  RoundDiv(x, y) \in Int
<1>1. 2 * x + y \in Int /\ 2 * y \in Nat /\ 2 * y > 0
  OBVIOUS
<1>2. \A n \in Int : \A d \in Nat : d > 0 => n \div d \in Int
  OBVIOUS
<1> QED BY <1>1, <1>2 DEF RoundDiv

LEMMA RateInt == ASSUME NEW x \in Nat, NEW y \in Nat PROVE Rate(x, y) \in Int
<1>1. CASE y <= 0
  BY <1>1 DEF Rate
<1>2. CASE ~(y <= 0)
  <2>1. 1000 * x \in Int /\ y # 0
    BY <1>2
  <2>2. RoundDiv(1000 * x, y) \in Int
    BY <2>1, RoundDivInt
  <2>3. Clamp(RoundDiv(1000 * x, y), 0, 1000) \in Int
    BY <2>2, ClampBetween
  <2> QED BY <1>2, <2>3 DEF Rate
<1> QED BY <1>1, <1>2

\* The figures of a snapshot that was recorded in finitely many steps.
FiniteFigures(s) ==
  /\ IsFiniteSet(s.projects) /\ IsFiniteSet(s.events)
  /\ \A p \in s.projects : p.investors \in Nat /\ p.matches \in Nat /\ p.committed \in Nat

LEMMA CountsInt ==
  ASSUME NEW s, FiniteFigures(s)
  PROVE  /\ \A t \in {"create", "preview", "outbound", "match", "refresh"} : EventTotals(s)[t] \in Nat
         /\ Cardinality(Verified(s)) \in Nat /\ Cardinality(s.projects) \in Nat
         /\ s.projects # {} => Cardinality(s.projects) # 0
<1>1. ASSUME NEW S \in SUBSET s.events PROVE Cardinality(S) \in Nat
  BY <1>1, FS_Subset, FS_CardinalityType DEF FiniteFigures
<1>3. \A t \in {"create", "preview", "outbound", "match", "refresh"} : EventTotals(s)[t] \in Nat
  BY <1>1 DEF EventTotals, EventTypes, OfType
<1>4. Verified(s) \in SUBSET s.projects
  BY DEF Verified
<1>5. Cardinality(Verified(s)) \in Nat /\ Cardinality(s.projects) \in Nat
  BY <1>4, FS_Subset, FS_CardinalityType DEF FiniteFigures
<1>6. s.projects # {} => Cardinality(s.projects) # 0
  BY FS_EmptySet DEF FiniteFigures
<1> QED BY <1>3, <1>5, <1>6

\* The totals of the dashboard are the sums that FiniteFacts speaks of.
LEMMA TotalIsAdded == ASSUME NEW v PROVE Total(v) = Added(v)
BY DEF Total, MapThenSumSet, MapThenFoldSet, Added, Recursion, Pick

LEMMA InvestorsNat == ASSUME NEW s, FiniteFigures(s) PROVE Investors(s) \in Nat /\ Matched(s) \in Nat
<1> DEFINE v == [p \in s.projects |-> p.investors]
           w == [p \in s.projects |-> p.matches]
<1>1. v \in [s.projects -> Nat] /\ w \in [s.projects -> Nat] /\ IsFiniteSet(s.projects)
  BY DEF FiniteFigures
<1>2. Added(v) \in Nat /\ Added(w) \in Nat
  BY <1>1, AddedNat
<1> QED BY <1>2, TotalIsAdded DEF Investors, Matched

\* What the inputs may hold between two checks: whole numbers, and NaN where a
\* percentage was not understood.
Configs == [RateFields \cup FeeFields \cup {"churn"} -> Int]
Inputs  == [config : Configs, multipliers : Seq(5..500) \ {<<>>}, target : Nat]

------------------------------------------------------------------------------
(* One dashboard: the figures of one snapshot do not contradict one another.  *)

\* The part of a snapshot that the sums are taken over: the project each
\* proposal is about, what each proposal offers, the category of each project.
SiteOf(s)     == [x \in s.proposals |-> CHOOSE p \in s.projects : p.id = x.project]
Amounts(s)    == [x \in s.proposals |-> Ranges[x.range].max]
CategoryOf(s) == [p \in s.projects |-> p.category]
Categories(s) == {p.category : p \in s.projects}

LEMMA AmountsNat == ASSUME NEW s, IsSnapshot(s) PROVE Amounts(s) \in [s.proposals -> Nat]
<1>1. ASSUME NEW x \in s.proposals PROVE Ranges[x.range].max \in Nat
  <2>1. x.range \in {"small", "large"}
    BY DEF IsSnapshot, Ranges
  <2> QED BY <2>1 DEF Ranges
<1> QED BY <1>1 DEF Amounts

\* The counters of a project count its proposals.
LEMMA CountersCount ==
  ASSUME NEW s, IsSnapshot(s), NEW p \in s.projects
  PROVE  /\ p.matches = Cardinality(ProposalsOf(s, p)) /\ p.investors = p.matches /\ p.matches \in Nat
         /\ p.committed = Added(Part(Amounts(s), ProposalsOf(s, p))) /\ p.committed \in Nat
<1> DEFINE own == ProposalsOf(s, p)
<1>1. own \subseteq s.proposals
  BY DEF ProposalsOf
<1>2. IsFiniteSet(own)
  BY <1>1, FS_Subset DEF IsSnapshot
<1>3. CountersFit(s, p)
  BY DEF IsSnapshot
<1>4. p.matches = Cardinality(own) /\ p.investors = p.matches
  BY <1>3 DEF CountersFit
<1>5. p.committed = Total([x \in own |-> Ranges[x.range].max])
  BY <1>3 DEF CountersFit
<1> HIDE DEF own
<1>6. [x \in own |-> Ranges[x.range].max] = Part(Amounts(s), own)
  BY <1>1 DEF Part, Amounts
<1>7. Part(Amounts(s), own) \in [own -> Nat]
  BY <1>1, AmountsNat DEF Part
<1>8. Added(Part(Amounts(s), own)) \in Nat
  BY <1>2, <1>7, AddedNat
<1>9. Cardinality(own) \in Nat
  BY <1>2, FS_CardinalityType
<1> QED BY <1>4, <1>5, <1>6, <1>8, <1>9, TotalIsAdded DEF own

LEMMA SnapshotFinite ==
  ASSUME NEW s, IsSnapshot(s)
  PROVE  /\ FiniteFigures(s) /\ IsFiniteSet(s.proposals) /\ IsFiniteSet(Categories(s))
         /\ SiteOf(s) \in [s.proposals -> s.projects]
         /\ CategoryOf(s) \in [s.projects -> Categories(s)]
<1>1. IsFiniteSet(s.projects) /\ IsFiniteSet(s.events) /\ IsFiniteSet(s.proposals)
  BY DEF IsSnapshot
<1>2. FiniteFigures(s)
  BY <1>1, CountersCount DEF FiniteFigures
<1>3. IsFiniteSet(Categories(s))
  <2> DEFINE f == CategoryOf(s)
  <2>1. f \in Surjection(s.projects, Categories(s))
    BY DEF Surjection, CategoryOf, Categories
  <2> QED BY <1>1, <2>1, FS_Surjection
<1>4. ASSUME NEW x \in s.proposals PROVE SiteOf(s)[x] \in s.projects
  <2>1. \E p \in s.projects : p.id = x.project
    BY DEF IsSnapshot
  <2> QED BY <2>1 DEF SiteOf
<1>5. SiteOf(s) \in [s.proposals -> s.projects]
  BY <1>4 DEF SiteOf
<1>6. CategoryOf(s) \in [s.projects -> Categories(s)]
  BY DEF CategoryOf, Categories
<1> QED BY <1>1, <1>2, <1>3, <1>5, <1>6

\* The proposals of a project are those that are about it.
LEMMA ProposalsAbout ==
  ASSUME NEW s, IsSnapshot(s), NEW p \in s.projects
  PROVE  ProposalsOf(s, p) = Group(s.proposals, SiteOf(s), p)
<1>1. ASSUME NEW x \in s.proposals PROVE x.project = p.id <=> SiteOf(s)[x] = p
  <2>1. \E r \in s.projects : r.id = x.project
    BY DEF IsSnapshot
  <2>2. SiteOf(s)[x] \in s.projects /\ SiteOf(s)[x].id = x.project
    BY <2>1 DEF SiteOf
  <2> QED BY <2>2 DEF IsSnapshot
<1> QED BY <1>1 DEF Group, ProposalsOf

\* What is added up category by category is what all projects have.
LEMMA ByCategory ==
  ASSUME NEW s, IsSnapshot(s), NEW v \in [s.projects -> Nat]
  PROVE  Total([c \in Categories(s) |-> Total([p \in {p \in s.projects : p.category = c} |-> v[p]])]) = Total(v)
<1>1. ASSUME NEW c PROVE {p \in s.projects : p.category = c} = Group(s.projects, CategoryOf(s), c)
  BY DEF Group, CategoryOf
<1>2. [c \in Categories(s) |-> Total([p \in {p \in s.projects : p.category = c} |-> v[p]])]
        = ByGroup(v, s.projects, CategoryOf(s), Categories(s))
  BY <1>1, TotalIsAdded DEF ByGroup, Part
<1>3. Added(ByGroup(v, s.projects, CategoryOf(s), Categories(s))) = Added(v)
  BY SnapshotFinite, AddedByGroup DEF FiniteFigures
<1> QED BY <1>2, <1>3, TotalIsAdded

LEMMA ProjectsTogether ==
  ASSUME NEW s, IsSnapshot(s)
  PROVE  /\ [p \in s.projects |-> p.matches] \in [s.projects -> Nat]
         /\ [p \in s.projects |-> p.committed] \in [s.projects -> Nat]
         /\ Total([p \in s.projects |-> p.matches]) = Cardinality(s.proposals)
         /\ Total([p \in s.projects |-> p.investors]) = Cardinality(s.proposals)
         /\ Total([p \in s.projects |-> p.committed]) = Total(Amounts(s))
<1> DEFINE matches   == [p \in s.projects |-> p.matches]
           committed == [p \in s.projects |-> p.committed]
           grouped   == ByGroup(Amounts(s), s.proposals, SiteOf(s), s.projects)
<1>0. IsFiniteSet(s.projects) /\ IsFiniteSet(s.proposals)
  BY DEF IsSnapshot
<1>1. matches \in [s.projects -> Nat] /\ committed \in [s.projects -> Nat]
  BY CountersCount
<1>2. matches = [p \in s.projects |-> Cardinality(Group(s.proposals, SiteOf(s), p))]
  BY ProposalsAbout, CountersCount
<1>3. Total(matches) = Cardinality(s.proposals)
  BY <1>0, <1>2, SnapshotFinite, CountedByGroup, TotalIsAdded
<1>4. [p \in s.projects |-> p.investors] = matches
  BY CountersCount
<1>5. committed = grouped
  BY ProposalsAbout, CountersCount DEF ByGroup
<1>6. Total(committed) = Total(Amounts(s))
  <2>1. Added(grouped) = Added(Amounts(s))
    BY <1>0, SnapshotFinite, AmountsNat, AddedByGroup
  <2> QED BY <1>5, <2>1, TotalIsAdded
<1> QED BY <1>1, <1>3, <1>4, <1>6

\* The rows of the categories add up to the proposals and to what they come to;
\* no share is more than the whole.
LEMMA CategoriesAgree ==
  ASSUME NEW d, IsSnapshot(d)
  PROVE  /\ Total([c \in DOMAIN CategoryPanel(d) |-> CategoryPanel(d)[c].row.matches])
              = Cardinality(d.proposals)
         /\ Total([c \in DOMAIN CategoryPanel(d) |-> CategoryPanel(d)[c].row.committed])
              = Total(Amounts(d))
         /\ \A c \in DOMAIN CategoryPanel(d) : CategoryPanel(d)[c].share \in 0..1000
<1> DEFINE cats == CategoryPerformance(d)
           P(c) == {p \in d.projects : p.category = c}
           matches   == [p \in d.projects |-> p.matches]
           committed == [p \in d.projects |-> p.committed]
           sizes     == [c \in Categories(d) |-> Cardinality(P(c))]
<1>1. /\ DOMAIN cats = Categories(d) /\ DOMAIN CategoryPanel(d) = Categories(d)
      /\ \A c \in Categories(d) :
           /\ CategoryPanel(d)[c].row = cats[c]
           /\ cats[c].projects = Cardinality(P(c))
           /\ cats[c].matches = Total([p \in P(c) |-> p.matches])
           /\ cats[c].committed = Total([p \in P(c) |-> p.committed])
           /\ CategoryPanel(d)[c].share = Share(Cardinality(P(c)), Total([b \in DOMAIN cats |-> cats[b].projects]))
  BY DEF CategoryPanel, CategoryPerformance, Categories
<1> HIDE DEF cats
<1>2. [c \in DOMAIN CategoryPanel(d) |-> CategoryPanel(d)[c].row.matches]
        = [c \in Categories(d) |-> Total([p \in P(c) |-> matches[p]])]
  <2>1. \A c : [p \in P(c) |-> p.matches] = [p \in P(c) |-> matches[p]]
    OBVIOUS
  <2> HIDE DEF matches, P
  <2> QED BY <1>1, <2>1
<1>3. [c \in DOMAIN CategoryPanel(d) |-> CategoryPanel(d)[c].row.committed]
        = [c \in Categories(d) |-> Total([p \in P(c) |-> committed[p]])]
  <2>1. \A c : [p \in P(c) |-> p.committed] = [p \in P(c) |-> committed[p]]
    OBVIOUS
  <2> HIDE DEF committed, P
  <2> QED BY <1>1, <2>1
<1>4. /\ matches \in [d.projects -> Nat] /\ committed \in [d.projects -> Nat]
      /\ Total(matches) = Cardinality(d.proposals) /\ Total(committed) = Total(Amounts(d))
  BY ProjectsTogether
<1> HIDE DEF matches, committed
<1>6. Total([c \in Categories(d) |-> Total([p \in P(c) |-> matches[p]])]) = Total(matches)
  BY <1>4, ByCategory
<1>7. Total([c \in Categories(d) |-> Total([p \in P(c) |-> committed[p]])]) = Total(committed)
  BY <1>4, ByCategory
<1>8. sizes \in [Categories(d) -> Nat]
  <2>1. ASSUME NEW c PROVE Cardinality(P(c)) \in Nat
    <3>1. P(c) \in SUBSET d.projects
      OBVIOUS
    <3> HIDE DEF P
    <3> QED BY <3>1, SnapshotFinite, FS_Subset, FS_CardinalityType DEF FiniteFigures
  <2> QED BY <2>1
<1>9. Total([b \in DOMAIN cats |-> cats[b].projects]) = Added(sizes)
  <2>1. [b \in DOMAIN cats |-> cats[b].projects] = sizes
    BY <1>1
  <2> QED BY <2>1, TotalIsAdded
<1>10. ASSUME NEW c \in Categories(d) PROVE Share(Cardinality(P(c)), Added(sizes)) \in 0..1000
  <2> DEFINE n == Cardinality(P(c))
             a == Max({1, Added(sizes)})
  <2>1. n \in Nat /\ n <= Added(sizes) /\ Added(sizes) \in Nat
    <3>1. sizes[c] = n
      OBVIOUS
    <3> HIDE DEF sizes, n
    <3> QED BY <1>8, <3>1, SnapshotFinite, AddedNat
  <2>2. a \in Nat /\ a > 0 /\ n <= a
    BY <2>1, MaxOfTwo
  <2> HIDE DEF n, a
  <2>3. (2 * (1000 * n) + a) \div (2 * a) \in 0..1000
    <3>1. /\ 2 * (1000 * n) + a \in Nat /\ 2 * a \in Nat \ {0}
          /\ 2 * (1000 * n) + a < 1001 * (2 * a)
      BY <2>1, <2>2
    <3>2. ASSUME NEW x \in Nat, NEW y \in Nat \ {0}, x < 1001 * y PROVE x \div y \in 0..1000
      BY <3>2
    <3> DEFINE x == 2 * (1000 * n) + a
               y == 2 * a
    <3> HIDE DEF x, y
    <3>3. x \in Nat /\ y \in Nat \ {0} /\ x < 1001 * y
      BY <3>1 DEF x, y
    <3>4. x \div y \in 0..1000
      BY <3>2, <3>3
    <3> QED BY <3>4 DEF x, y
  <2> QED BY <2>3 DEF Share, RoundDiv, n, a
<1> HIDE DEF P, sizes
<1>11. ASSUME NEW c \in DOMAIN CategoryPanel(d) PROVE CategoryPanel(d)[c].share \in 0..1000
  <2>1. c \in Categories(d) /\ CategoryPanel(d)[c].share = Share(Cardinality(P(c)), Added(sizes))
    BY <1>1, <1>9
  <2> QED BY <1>10, <2>1
<1> QED BY <1>2, <1>3, <1>4, <1>6, <1>7, <1>11

\* Two elements are a finite set.
LEMMA PairFinite == ASSUME NEW x, NEW y PROVE IsFiniteSet({x, y})
<1>1. IsFiniteSet({x}) /\ IsFiniteSet({y}) /\ {x, y} = {x} \cup {y}
  BY FS_Singleton
<1> QED BY <1>1, FS_Union

\* The rows of the ranges add up to the same.
LEMMA RangesAgree ==
  ASSUME NEW d, IsSnapshot(d)
  PROVE  /\ Total([x \in DOMAIN RangePanel(d) |-> RangePanel(d)[x].row.proposals])
              = Cardinality(d.proposals)
         /\ Total([x \in DOMAIN RangePanel(d) |-> RangePanel(d)[x].row.max]) = Total(Amounts(d))
<1> DEFINE M     == d.proposals
           Of(r) == {e \in M : e.range = r}
           used  == {r \in DOMAIN Ranges : Of(r) # {}}
           range == [e \in M |-> e.range]
<1>1. /\ DOMAIN RangePanel(d) = used
      /\ \A r \in used : /\ RangePanel(d)[r].row.proposals = Cardinality(Of(r))
                         /\ RangePanel(d)[r].row.max = Cardinality(Of(r)) * Ranges[r].max
  BY DEF RangePanel, RangeDistribution
<1>2. range \in [M -> used]
  <2>1. ASSUME NEW e \in M PROVE e.range \in DOMAIN Ranges /\ e \in Of(e.range)
    BY DEF IsSnapshot
  <2> QED BY <2>1
<1>3. IsFiniteSet(M) /\ IsFiniteSet(used)
  <2>1. used \in SUBSET {"small", "large"}
    BY DEF Ranges
  <2>2. IsFiniteSet({"small", "large"})
    BY PairFinite
  <2> HIDE DEF used
  <2> QED BY <2>1, <2>2, SnapshotFinite, FS_Subset
<1>4. \A r : Of(r) = Group(M, range, r)
  BY DEF Group
<1> HIDE DEF Of, used, range
<1>6. Total([r \in used |-> Cardinality(Of(r))]) = Cardinality(M)
  BY <1>2, <1>3, <1>4, CountedByGroup, TotalIsAdded
<1>7. ASSUME NEW r \in used
      PROVE  Cardinality(Of(r)) * Ranges[r].max = Added(Part(Amounts(d), Group(M, range, r)))
  <2>1. Ranges[r].max \in Nat
    BY <1>7 DEF used, Ranges
  <2>2. IsFiniteSet(Of(r))
    BY <1>3, FS_Subset DEF Of
  <2>3. Part(Amounts(d), Of(r)) = [e \in Of(r) |-> Ranges[r].max]
    BY DEF Part, Amounts, Of
  <2> QED BY <1>4, <2>1, <2>2, <2>3, AddedEqual
<1>8. Total([r \in used |-> Cardinality(Of(r)) * Ranges[r].max]) = Total(Amounts(d))
  <2>1. [r \in used |-> Cardinality(Of(r)) * Ranges[r].max] = ByGroup(Amounts(d), M, range, used)
    BY <1>7 DEF ByGroup
  <2>2. Added(ByGroup(Amounts(d), M, range, used)) = Added(Amounts(d))
    BY <1>2, <1>3, AmountsNat, AddedByGroup
  <2> QED BY <2>1, <2>2, TotalIsAdded
<1>9. [x \in DOMAIN RangePanel(d) |-> RangePanel(d)[x].row.proposals] = [r \in used |-> Cardinality(Of(r))]
  BY <1>1
<1>10. [x \in DOMAIN RangePanel(d) |-> RangePanel(d)[x].row.max] = [r \in used |-> Cardinality(Of(r)) * Ranges[r].max]
  BY <1>1
<1> QED BY <1>6, <1>8, <1>9, <1>10

\* The counters of the kinds of events add up to the events.
LEMMA EventsAgree ==
  ASSUME NEW d, IsSnapshot(d)
  PROVE  Total(EventPanel(d)) = FunnelPanel(d).events
<1> DEFINE type == [e \in d.events |-> e.type]
<1>1. IsFiniteSet(d.events)
  BY DEF IsSnapshot
<1>2. IsFiniteSet(EventTypes)
  <2>1. EventTypes = {"create"} \cup {"preview"} \cup {"outbound"} \cup {"match"} \cup {"refresh"}
    BY DEF EventTypes
  <2> QED BY <2>1, FS_Union, FS_Singleton
<1>3. type \in [d.events -> EventTypes]
  BY DEF IsSnapshot, IsEvent
<1>4. \A t : OfType(d.events, t) = Group(d.events, type, t)
  BY DEF OfType, Group
<1> HIDE DEF type
<1>5. EventPanel(d) = [t \in EventTypes |-> Cardinality(Group(d.events, type, t))]
  BY <1>4 DEF EventPanel, EventTotals
<1>6. Total(EventPanel(d)) = Cardinality(d.events)
  BY <1>1, <1>2, <1>3, <1>5, CountedByGroup, TotalIsAdded
<1> QED BY <1>6 DEF FunnelPanel

\* The days of the trend, and the events that fall on some of them.
TrendOf(d, lo, hi)  == [i \in lo..hi |-> Trend(d)[i]]
EventsIn(d, lo, hi) == {e \in d.events : e.day - d.today + 14 \in lo..hi}

LEMMA DaysAddUp ==
  ASSUME NEW d, IsSnapshot(d), NEW lo \in 1..14, NEW hi \in 1..14
  PROVE  IsFiniteSet(EventsIn(d, lo, hi)) /\ Total(TrendOf(d, lo, hi)) = Cardinality(EventsIn(d, lo, hi))
<1> DEFINE E   == EventsIn(d, lo, hi)
           day == [e \in E |-> e.day - d.today + 14]
<1>1. IsFiniteSet(E) /\ IsFiniteSet(lo..hi)
  <2>1. E \in SUBSET d.events /\ IsFiniteSet(d.events) /\ lo \in Int /\ hi \in Int
    BY DEF IsSnapshot, EventsIn
  <2> HIDE DEF E
  <2> QED BY <2>1, FS_Subset, FS_Interval
<1>2. day \in [E -> lo..hi]
  BY DEF EventsIn
<1>3. ASSUME NEW i \in lo..hi PROVE Trend(d)[i] = Cardinality(Group(E, day, i))
  <2>1. \A e \in d.events : e.day \in Int /\ d.today \in Int
    BY DEF IsSnapshot, IsEvent
  <2>2. \A e \in d.events : e.day = d.today - 14 + i <=> e.day - d.today + 14 = i
    BY <2>1
  <2>3. {e \in d.events : e.day = d.today - 14 + i} = Group(E, day, i)
    BY <2>2 DEF Group, EventsIn
  <2>4. i \in 1..14
    OBVIOUS
  <2> QED BY <2>3, <2>4 DEF Trend
<1> HIDE DEF E, day
<1>4. TrendOf(d, lo, hi) = [i \in lo..hi |-> Cardinality(Group(E, day, i))]
  BY <1>3 DEF TrendOf
<1> QED BY <1>1, <1>2, <1>4, CountedByGroup, TotalIsAdded DEF E

\* The two weeks of the trend hold the events of the last fourteen days.
LEMMA TrendAgrees ==
  ASSUME NEW d, IsSnapshot(d)
  PROVE  TrendPanel(d).recent + TrendPanel(d).previous
           = Cardinality({e \in d.events : d.today - e.day < 14})
<1> DEFINE recent   == EventsIn(d, 8, 14)
           previous == EventsIn(d, 1, 7)
           all == {e \in d.events : d.today - e.day < 14}
<1>1. TrendPanel(d).recent = Total(TrendOf(d, 8, 14)) /\ TrendPanel(d).previous = Total(TrendOf(d, 1, 7))
  BY DEF TrendPanel, TrendOf
<1>2. /\ IsFiniteSet(recent) /\ Total(TrendOf(d, 8, 14)) = Cardinality(recent)
      /\ IsFiniteSet(previous) /\ Total(TrendOf(d, 1, 7)) = Cardinality(previous)
  BY DaysAddUp
<1>3. \A e \in d.events : e.day \in Int /\ d.today \in Int /\ e.day <= d.today
  BY DEF IsSnapshot, IsEvent
<1>4. recent \cup previous = all /\ recent \cap previous = {}
  BY <1>3 DEF EventsIn
<1> HIDE DEF recent, previous, all
<1>5. /\ Cardinality(recent \cup previous)
           = Cardinality(recent) + Cardinality(previous) - Cardinality(recent \cap previous)
      /\ Cardinality(recent) \in Nat /\ Cardinality(previous) \in Nat /\ Cardinality({}) = 0
  BY <1>2, FS_Union, FS_EmptySet, FS_CardinalityType
<1>6. Cardinality(all) = Cardinality(recent) + Cardinality(previous)
  <2>1. Cardinality(recent \cup previous) = Cardinality(all) /\ Cardinality(recent \cap previous) = 0
    <3>1. Cardinality(recent \cap previous) = Cardinality({})
      BY <1>4
    <3> QED BY <1>4, <1>5, <3>1
  <2> QED BY <1>5, <2>1
<1> QED BY <1>1, <1>2, <1>6 DEF all

\* Open and screened projects are all the projects.
LEMMA ModesAgree ==
  ASSUME NEW d, IsSnapshot(d)
  PROVE  /\ Total([m \in DOMAIN AccessModes(d) |-> AccessModes(d)[m].projects]) = Stats(d).projects
         /\ Total([m \in DOMAIN AccessModes(d) |-> AccessModes(d)[m].verified]) = Stats(d).verified
<1> DEFINE modes  == {"open", "screened"}
           access(P) == [p \in P |-> p.access]
<1>1. IsFiniteSet(d.projects) /\ IsFiniteSet(Verified(d)) /\ IsFiniteSet(modes)
  <2>1. Verified(d) \in SUBSET d.projects /\ IsFiniteSet(d.projects)
    BY DEF Verified, IsSnapshot
  <2>2. IsFiniteSet(modes)
    BY PairFinite
  <2> QED BY <2>1, <2>2, FS_Subset
<1>2. access(d.projects) \in [d.projects -> modes] /\ access(Verified(d)) \in [Verified(d) -> modes]
  BY DEF IsSnapshot, IsSite, Verified
<1>3. /\ DOMAIN AccessModes(d) = modes
      /\ \A m \in modes :
           /\ AccessModes(d)[m].projects = Cardinality(Group(d.projects, access(d.projects), m))
           /\ AccessModes(d)[m].verified = Cardinality(Group(Verified(d), access(Verified(d)), m))
  <2>1. ASSUME NEW m
        PROVE  /\ {p \in d.projects : p.access = m} = Group(d.projects, access(d.projects), m)
               /\ {p \in {q \in d.projects : q.access = m} : p.verified}
                    = Group(Verified(d), access(Verified(d)), m)
    BY DEF Group, Verified
  <2> HIDE DEF access
  <2> QED BY <2>1 DEF AccessModes
<1> HIDE DEF access, modes
<1>4. /\ [m \in DOMAIN AccessModes(d) |-> AccessModes(d)[m].projects]
           = [m \in modes |-> Cardinality(Group(d.projects, access(d.projects), m))]
      /\ [m \in DOMAIN AccessModes(d) |-> AccessModes(d)[m].verified]
           = [m \in modes |-> Cardinality(Group(Verified(d), access(Verified(d)), m))]
  BY <1>3
<1>5. /\ Added([m \in modes |-> Cardinality(Group(d.projects, access(d.projects), m))]) = Cardinality(d.projects)
      /\ Added([m \in modes |-> Cardinality(Group(Verified(d), access(Verified(d)), m))]) = Cardinality(Verified(d))
  BY <1>1, <1>2, CountedByGroup
<1> QED BY <1>4, <1>5, TotalIsAdded DEF Stats

------------------------------------------------------------------------------
(* The lists: each is in the order of its figures.                            *)

\* A list that InOrder makes.
ListOf(S, rank) == [i \in 1..Cardinality(S) |-> CHOOSE x \in S : rank[x] = i - 1]

Ahead(R, S, x) == Cardinality({y \in S : <<y, x>> \in R})

LEMMA ListIsOrdered ==
  ASSUME NEW S, IsFiniteSet(S), NEW R, Orders(R, S), NEW rank,
         \A x \in S : rank[x] = Ahead(R, S, x)
  PROVE  /\ ListOf(S, rank) \in Seq(S) /\ Len(ListOf(S, rank)) = Cardinality(S)
         /\ \A i, j \in 1..Len(ListOf(S, rank)) :
              i < j => <<ListOf(S, rank)[i], ListOf(S, rank)[j]>> \in R
         /\ \A x \in S : \E i \in 1..Len(ListOf(S, rank)) : ListOf(S, rank)[i] = x
<1> DEFINE s == ListOf(S, rank)
<1>1. ASSUME NEW i \in 1..Cardinality(S)
      PROVE  s[i] \in S /\ Cardinality({y \in S : <<y, s[i]>> \in R}) = i - 1
  <2>1. Cardinality(S) \in Nat
    BY FS_CardinalityType
  <2>2. i - 1 \in 0 .. Cardinality(S) - 1
    BY <2>1
  <2>3. \E x \in S : Cardinality({y \in S : <<y, x>> \in R}) = i - 1
    BY <2>2, EveryPlaceIsHeld
  <2>4. \E x \in S : rank[x] = i - 1
    BY <2>3 DEF Ahead
  <2>5. s[i] \in S /\ rank[s[i]] = i - 1
    BY <2>4 DEF ListOf
  <2> QED BY <2>5 DEF Ahead
<1>2. s = [i \in 1..Cardinality(S) |-> s[i]]
  BY DEF ListOf
<1> HIDE DEF s
<1>3. Placed(s, R, S)
  BY <1>1, <1>2 DEF Placed
<1> QED BY <1>3, PlacedInOrder DEF s

\* The places of a finite set of numbers.
LEMMA NumbersInOrder ==
  ASSUME NEW S \in SUBSET Int, IsFiniteSet(S)
  PROVE  LET list == InOrder(S, LAMBDA x, y : x < y)
         IN  /\ list \in Seq(S) /\ Len(list) = Cardinality(S)
             /\ \A i, j \in 1..Len(list) : i < j => list[i] < list[j]
<1> DEFINE R == {p \in S \X S : p[1] < p[2]}
           rank == [x \in S |-> Cardinality({y \in S : y < x})]
           list == InOrder(S, LAMBDA x, y : x < y)
<1>1. Orders(R, S)
  BY DEF Orders
<1>2. list = ListOf(S, rank)
  BY DEF InOrder, ListOf
<1>3. ASSUME NEW x \in S PROVE rank[x] = Ahead(R, S, x)
  <2>1. {y \in S : y < x} = {y \in S : <<y, x>> \in R}
    OBVIOUS
  <2> QED BY <2>1 DEF Ahead
<1> HIDE DEF rank, list
<1>4. /\ list \in Seq(S) /\ Len(list) = Cardinality(S)
      /\ \A i, j \in 1..Len(list) : i < j => <<list[i], list[j]>> \in R
  <2> HIDE DEF R
  <2>1. /\ ListOf(S, rank) \in Seq(S) /\ Len(ListOf(S, rank)) = Cardinality(S)
        /\ \A i, j \in 1..Len(ListOf(S, rank)) :
             i < j => <<ListOf(S, rank)[i], ListOf(S, rank)[j]>> \in R
    BY <1>1, <1>3, ListIsOrdered
  <2> QED BY <1>2, <2>1
<1>5. \A i, j \in 1..Len(list) : i < j => list[i] < list[j]
  BY <1>4
<1> QED BY <1>4, <1>5 DEF list

\* The projects by one figure, then by another.
LEMMA SitesInOrder ==
  ASSUME NEW P, IsFiniteSet(P), \A p \in P : p.id \in Int, \A p, r \in P : p.id = r.id => p = r,
         NEW key \in [P -> Int], NEW tie \in [P -> Int]
  PROVE  /\ SortedBy(key, tie) \in Seq(P)
         /\ \A i, j \in 1..Len(SortedBy(key, tie)) :
              i < j => key[SortedBy(key, tie)[i]] >= key[SortedBy(key, tie)[j]]
<1> DEFINE Sooner(p, r) == \/ key[p] > key[r]
                           \/ key[p] = key[r] /\ tie[p] > tie[r]
                           \/ key[p] = key[r] /\ tie[p] = tie[r] /\ p.id < r.id
           R == {c \in P \X P : Sooner(c[1], c[2])}
           rank == [x \in P |-> Cardinality({y \in P : Sooner(y, x)})]
           list == SortedBy(key, tie)
<1>1. /\ \A p \in P : key[p] \in Int /\ tie[p] \in Int /\ p.id \in Int
      /\ DOMAIN key = P
  OBVIOUS
<1>2. Orders(R, P)
  <2>1. \A p, r \in P : <<p, r>> \in R <=> Sooner(p, r)
    OBVIOUS
  <2>2. R \subseteq P \X P
    OBVIOUS
  <2> HIDE DEF R
  <2>3. \A p \in P : ~Sooner(p, p)
    BY <1>1
  <2>4. \A p, r \in P : p = r \/ Sooner(p, r) \/ Sooner(r, p)
    BY <1>1
  <2>5. \A p, q, r \in P : Sooner(p, q) /\ Sooner(q, r) => Sooner(p, r)
    BY <1>1
  <2> HIDE DEF Sooner
  <2> QED BY <2>1, <2>2, <2>3, <2>4, <2>5 DEF Orders
<1>3. list = ListOf(P, rank)
  BY <1>1 DEF SortedBy, InOrder, ListOf
<1>4. ASSUME NEW x \in P PROVE rank[x] = Ahead(R, P, x)
  <2>1. {y \in P : Sooner(y, x)} = {y \in P : <<y, x>> \in R}
    OBVIOUS
  <2> QED BY <2>1 DEF Ahead
<1>5. \A p, r \in P : <<p, r>> \in R => key[p] >= key[r]
  BY <1>1
<1> HIDE DEF rank, list, R, Sooner
<1>6. /\ list \in Seq(P)
      /\ \A i, j \in 1..Len(list) : i < j => <<list[i], list[j]>> \in R
  <2>1. /\ ListOf(P, rank) \in Seq(P)
        /\ \A i, j \in 1..Len(ListOf(P, rank)) :
             i < j => <<ListOf(P, rank)[i], ListOf(P, rank)[j]>> \in R
    BY <1>2, <1>4, ListIsOrdered
  <2> QED BY <1>3, <2>1
<1>7. ASSUME NEW i \in 1..Len(list), NEW j \in 1..Len(list), i < j PROVE key[list[i]] >= key[list[j]]
  <2>1. list[i] \in P /\ list[j] \in P /\ <<list[i], list[j]>> \in R
    BY <1>6, <1>7
  <2> QED BY <1>5, <2>1
<1> QED BY <1>6, <1>7 DEF list

\* The beginning of a list.
LEMMA FirstOfList ==
  ASSUME NEW S, NEW list \in Seq(S), NEW n \in Nat
  PROVE  /\ First(n, list) \in Seq(S)
         /\ Len(First(n, list)) = Min({n, Len(list)}) /\ DOMAIN First(n, list) = 1..Min({n, Len(list)})
         /\ Min({n, Len(list)}) = (IF n <= Len(list) THEN n ELSE Len(list))
         /\ \A i \in DOMAIN First(n, list) : First(n, list)[i] = list[i] /\ i \in 1..Len(list)
<1> DEFINE m == Min({n, Len(list)})
<1>1. Len(list) \in Nat /\ m = IF n <= Len(list) THEN n ELSE Len(list)
  BY MinOfTwo
<1> HIDE DEF m
<1>2. m \in Nat /\ m <= Len(list)
  BY <1>1
<1>3. /\ SubSeq(list, 1, m) \in Seq(S) /\ Len(SubSeq(list, 1, m)) = m
      /\ DOMAIN SubSeq(list, 1, m) = 1..m
      /\ \A i \in 1..m : SubSeq(list, 1, m)[i] = list[i] /\ i \in 1..Len(list)
  BY <1>1, <1>2
<1>4. First(n, list) = SubSeq(list, 1, m)
  BY DEF First, m
<1> QED BY <1>1, <1>3, <1>4 DEF m

\* The score is a number.
LEMMA ScoreInt == ASSUME NEW s, IsSnapshot(s), NEW p \in s.projects PROVE Score(s, p) \in Int
<1> DEFINE own == EventsOf(s, p)
           Count(t) == Cardinality(OfType(own, t))
           r == [verified |-> p.verified, ms |-> p.ms, previews |-> Count("preview"),
                 outbounds |-> Count("outbound"), matchEvents |-> Count("match"),
                 matches |-> p.matches, age |-> IF own = {} THEN Unset ELSE 24 * DaysSince(s, p)]
<1>1. ASSUME NEW t PROVE Count(t) \in Nat
  <2>1. OfType(own, t) \in SUBSET s.events
    BY DEF OfType, EventsOf
  <2> QED BY <2>1, FS_Subset, FS_CardinalityType DEF IsSnapshot
<1>2. p.verified \in BOOLEAN /\ p.ms \in Int /\ p.matches \in Nat
  BY CountersCount DEF IsSnapshot, IsSite
<1> DEFINE a == IF r.verified THEN 50 + SpeedPoints(r.ms) ELSE 0
           b == Min({10, r.previews * 2})
           c == Min({12, r.outbounds * 4})
           e == Min({24, r.matchEvents * 12 + r.matches * 8})
           g == RecencyPoints(r.age)
<1>3. /\ r.previews \in Nat /\ r.outbounds \in Nat /\ r.matchEvents \in Nat
      /\ r.matches = p.matches /\ r.verified = p.verified /\ r.ms = p.ms
  BY <1>1
<1>4. Score(s, p) = Min({100, a + b + c + e + g})
  BY DEF Score, SignalScore
<1> HIDE DEF r
<1>5. a \in Int
  BY <1>2, <1>3 DEF SpeedPoints
<1>6. b \in Int /\ c \in Int /\ e \in Int
  BY <1>2, <1>3, MinOfTwo
<1>7. g \in Int
  BY DEF RecencyPoints
<1> HIDE DEF a, b, c, e, g
<1>8. a + b + c + e + g \in Int
  BY <1>5, <1>6, <1>7
<1>9. Min({100, a + b + c + e + g}) \in Int
  BY <1>8, MinOfTwo
<1> QED BY <1>4, <1>9

\* The best by proposals and by score stand in that order, and the best of the
\* market's figures are the best of the dashboard.
LEMMA ListsAgree ==
  ASSUME NEW d, IsSnapshot(d)
  PROVE  /\ \A i \in DOMAIN TopMatchPanel(d) :
              i > 1 => TopMatchPanel(d)[i - 1].matches >= TopMatchPanel(d)[i].matches
         /\ \A i \in DOMAIN TopSignalPanel(d) :
              i > 1 => TopSignalPanel(d)[i - 1].signal >= TopSignalPanel(d)[i].signal
         /\ \A i \in DOMAIN Stats(d).top : Stats(d).top[i].id = TopSignalPanel(d)[i].id
<1> DEFINE P       == d.projects
           matches == [p \in P |-> p.matches]
           investors == [p \in P |-> p.investors]
           scores  == [p \in P |-> Score(d, p)]
           zeros   == [p \in P |-> 0]
           M == ByMatches(d)
           S == BySignal(d)
<1>1. IsFiniteSet(P) /\ (\A p \in P : p.id \in Int) /\ (\A p, r \in P : p.id = r.id => p = r)
  BY DEF IsSnapshot, IsSite
<1>2. /\ matches \in [P -> Int] /\ investors \in [P -> Int]
      /\ scores \in [P -> Int] /\ zeros \in [P -> Int]
  <2>1. \A p \in P : p.matches \in Int /\ p.investors \in Int
    BY CountersCount
  <2> QED BY <2>1, ScoreInt
<1>3. M = SortedBy(matches, investors) /\ S = SortedBy(scores, zeros)
  BY DEF ByMatches, BySignal
<1> HIDE DEF P, matches, investors, scores, zeros, M, S
<1>4. M \in Seq(P) /\ \A i, j \in 1..Len(M) : i < j => matches[M[i]] >= matches[M[j]]
  BY <1>1, <1>2, <1>3, SitesInOrder
<1>5. S \in Seq(P) /\ \A i, j \in 1..Len(S) : i < j => scores[S[i]] >= scores[S[j]]
  BY <1>1, <1>2, <1>3, SitesInOrder
<1>6. /\ DOMAIN First(8, M) = 1..Min({8, Len(M)})
      /\ \A i \in DOMAIN First(8, M) : First(8, M)[i] = M[i] /\ i \in 1..Len(M)
      /\ Min({8, Len(M)}) = (IF 8 <= Len(M) THEN 8 ELSE Len(M))
  BY <1>4, FirstOfList
<1>7. /\ DOMAIN First(6, S) = 1..Min({6, Len(S)})
      /\ \A i \in DOMAIN First(6, S) : First(6, S)[i] = S[i] /\ i \in 1..Len(S)
      /\ Min({6, Len(S)}) = (IF 6 <= Len(S) THEN 6 ELSE Len(S))
  BY <1>5, FirstOfList
<1>8. /\ DOMAIN First(3, S) = 1..Min({3, Len(S)})
      /\ \A i \in DOMAIN First(3, S) : First(3, S)[i] = S[i] /\ i \in 1..Len(S)
      /\ Min({3, Len(S)}) = (IF 3 <= Len(S) THEN 3 ELSE Len(S))
  BY <1>5, FirstOfList
<1>9. /\ DOMAIN TopMatchPanel(d) = DOMAIN First(8, M)
      /\ \A i \in DOMAIN First(8, M) : TopMatchPanel(d)[i].matches = First(8, M)[i].matches
  BY DEF TopMatchPanel, TopMatchProjects, M
<1>10. /\ DOMAIN TopSignalPanel(d) = DOMAIN First(6, S)
       /\ \A i \in DOMAIN First(6, S) : /\ TopSignalPanel(d)[i].signal = Score(d, First(6, S)[i])
                                        /\ TopSignalPanel(d)[i].id = First(6, S)[i].id
  BY DEF TopSignalPanel, TopSignalProjects, S
<1>11. Stats(d).top = First(3, S)
  BY DEF Stats, S
<1>12. ASSUME NEW i \in DOMAIN TopMatchPanel(d), i > 1
       PROVE  TopMatchPanel(d)[i - 1].matches >= TopMatchPanel(d)[i].matches
  <2>1. i \in DOMAIN First(8, M) /\ i - 1 \in DOMAIN First(8, M)
    BY <1>6, <1>9, <1>12, <1>4
  <2>2. M[i] \in P /\ M[i - 1] \in P /\ matches[M[i - 1]] >= matches[M[i]]
    BY <1>4, <1>6, <2>1
  <2> QED BY <1>6, <1>9, <2>1, <2>2 DEF matches
<1>13. ASSUME NEW i \in DOMAIN TopSignalPanel(d), i > 1
       PROVE  TopSignalPanel(d)[i - 1].signal >= TopSignalPanel(d)[i].signal
  <2>1. i \in DOMAIN First(6, S) /\ i - 1 \in DOMAIN First(6, S)
    BY <1>7, <1>10, <1>13, <1>5
  <2>2. S[i] \in P /\ S[i - 1] \in P /\ scores[S[i - 1]] >= scores[S[i]]
    BY <1>5, <1>7, <2>1
  <2> QED BY <1>7, <1>10, <2>1, <2>2 DEF scores
<1>14. ASSUME NEW i \in DOMAIN Stats(d).top PROVE Stats(d).top[i].id = TopSignalPanel(d)[i].id
  <2>1. i \in DOMAIN First(3, S) /\ i \in DOMAIN First(6, S)
    BY <1>5, <1>7, <1>8, <1>11, <1>14
  <2> QED BY <1>7, <1>8, <1>10, <1>11, <2>1
<1> QED BY <1>12, <1>13, <1>14

\* A list, whatever it is sorted by.
LEMMA SortedIsList ==
  ASSUME NEW key, NEW tie, IsFiniteSet(DOMAIN key)
  PROVE  \E A : SortedBy(key, tie) \in Seq(A)
<1> DEFINE list == SortedBy(key, tie)
           n == Cardinality(DOMAIN key)
           rank == [x \in DOMAIN key |-> Cardinality({y \in DOMAIN key :
                      \/ key[y] > key[x]
                      \/ key[y] = key[x] /\ tie[y] > tie[x]
                      \/ key[y] = key[x] /\ tie[y] = tie[x] /\ y.id < x.id})]
<1>1. n \in Nat
  BY FS_CardinalityType
<1>2. DOMAIN list = 1..n /\ list = [i \in 1..n |-> list[i]]
  <2>1. list = ListOf(DOMAIN key, rank)
    BY DEF SortedBy, InOrder, ListOf
  <2> HIDE DEF list, rank
  <2> QED BY <2>1 DEF ListOf
<1> HIDE DEF list, n
<1>3. list \in Seq({list[i] : i \in 1..n})
  BY <1>1, <1>2
<1> QED BY <1>3 DEF list

\* The risks the console lists are those the health counts, and it warns of them.
LEMMA RisksAgree ==
  ASSUME NEW d, IsSnapshot(d)
  PROVE  /\ Len(RiskPanel(d)) = Min({5, HealthPanel(d).risk})
         /\ RiskPanel(d) # <<>> => HealthPanel(d).warnings > 0
<1> DEFINE atRisk == {p \in d.projects : RiskScore(d, p) >= 45}
           key == [p \in atRisk |-> RiskScore(d, p)]
           tie == [p \in atRisk |-> -DaysSince(d, p)]
           all == SortedBy(key, tie)
           risk == RiskProjects(d)
           rows == [i \in DOMAIN risk |-> [id |-> risk[i].id, score |-> RiskScore(d, risk[i]),
                                           days |-> DaysSince(d, risk[i])]]
<1>1. risk = First(10, all) /\ RiskPanel(d) = First(5, rows)
  BY DEF RiskProjects, RiskPanel
<1>2. IsFiniteSet(DOMAIN key)
  <2>1. DOMAIN key \in SUBSET d.projects /\ IsFiniteSet(d.projects)
    BY DEF IsSnapshot
  <2> QED BY <2>1, FS_Subset
<1>3. \E A : all \in Seq(A)
  BY <1>2, SortedIsList
<1> HIDE DEF all, rows
<1>4. \E A : risk \in Seq(A)
  <2>1. PICK A : all \in Seq(A)
    BY <1>3
  <2>2. First(10, all) \in Seq(A)
    BY <2>1, FirstOfList
  <2> QED BY <1>1, <2>2
<1>5. \E A : rows \in Seq(A) /\ Len(rows) = Len(risk) /\ Len(risk) \in Nat
  <2>1. Len(risk) \in Nat /\ DOMAIN risk = 1..Len(risk)
    BY <1>4
  <2>2. rows = [i \in 1..Len(risk) |-> rows[i]]
    BY <2>1 DEF rows
  <2> HIDE DEF risk
  <2>3. rows \in Seq({rows[i] : i \in 1..Len(risk)}) /\ Len(rows) = Len(risk)
    BY <2>1, <2>2
  <2> QED BY <2>1, <2>3
<1>6. HealthPanel(d).risk = Len(risk)
  BY DEF HealthPanel, Health
<1>7. Len(RiskPanel(d)) = Min({5, Len(risk)})
  BY <1>1, <1>5, FirstOfList
<1>8. Len(risk) > 0 => HealthPanel(d).warnings > 0
  BY DEF HealthPanel, Health
<1>9. RiskPanel(d) # <<>> => Len(risk) > 0
  <2>1. Len(risk) = 0 => Min({5, Len(risk)}) = 0
    BY MinOfTwo
  <2>2. \E A : RiskPanel(d) \in Seq(A)
    <3>1. PICK A : rows \in Seq(A)
      BY <1>5
    <3>2. First(5, rows) \in Seq(A)
      BY <3>1, FirstOfList
    <3> QED BY <1>1, <3>2
  <2>3. Len(RiskPanel(d)) = 0 => RiskPanel(d) = <<>>
    BY <2>2
  <2> QED BY <1>5, <1>7, <2>1, <2>3
<1> QED BY <1>6, <1>7, <1>8, <1>9

\* The advice is in the order of the areas, the urgent first; the counters over
\* it count all of it.
LEMMA AdviceAgrees ==
  ASSUME NEW d, IsSnapshot(d)
  PROVE  /\ AdvicePanel(d).summary["high"] + AdvicePanel(d).summary["medium"] + AdvicePanel(d).summary["low"]
              = Len(AdvicePanel(d).list)
         /\ \A i, j \in DOMAIN AdvicePanel(d).list :
              Priority(AdvicePanel(d).list[i]) = "high" /\ Priority(AdvicePanel(d).list[j]) # "high" => i < j
<1> DEFINE A == {i \in DOMAIN Areas : Advised(d, Areas[i])}
           advised == InOrder(A, LAMBDA i, j : i < j)
           list == AdvicePanel(d).list
           n == Len(advised)
<1>1. A \subseteq 1..7 /\ A \in SUBSET Int /\ IsFiniteSet(A)
  <2>1. A \subseteq 1..7
    BY DEF Areas
  <2> HIDE DEF A
  <2>2. A \in SUBSET Int
    BY <2>1
  <2>3. 1 \in Int /\ 7 \in Int
    OBVIOUS
  <2>4. IsFiniteSet(1..7)
    BY <2>3, FS_Interval, Zenon
  <2> QED BY <2>1, <2>2, <2>4, FS_Subset
<1>2. list = [k \in DOMAIN advised |-> Areas[advised[k]]]
  BY DEF AdvicePanel, Recommendations
<1>3. \A p \in {"high", "medium", "low"} :
        AdvicePanel(d).summary[p] = Cardinality({k \in DOMAIN list : Priority(list[k]) = p})
  BY DEF AdvicePanel
<1> HIDE DEF A
<1>4. /\ advised \in Seq(A) /\ \A k, l \in 1..n : k < l => advised[k] < advised[l]
  BY <1>1, NumbersInOrder
<1> HIDE DEF list, advised
<1>5. n \in Nat /\ DOMAIN advised = 1..n /\ DOMAIN list = 1..n /\ Len(list) = n
  <2>1. n \in Nat /\ DOMAIN advised = 1..n
    BY <1>4
  <2>2. list = [k \in 1..n |-> list[k]]
    BY <1>2, <2>1
  <2> HIDE DEF n
  <2>3. list \in Seq({list[k] : k \in 1..n}) /\ Len(list) = n
    BY <2>1, <2>2
  <2> QED BY <1>2, <2>1, <2>3
<1> HIDE DEF n
<1>6. ASSUME NEW k \in 1..n
      PROVE  /\ advised[k] \in 1..7 /\ list[k] = Areas[advised[k]]
             /\ Priority(list[k]) \in {"high", "medium", "low"}
             /\ Priority(list[k]) = "high" <=> advised[k] <= 3
  <2>1. advised[k] \in 1..7 /\ list[k] = Areas[advised[k]]
    <3>1. k \in DOMAIN advised /\ advised[k] \in A
      BY <1>4, <1>5 DEF n
    <3> QED BY <1>1, <1>2, <3>1
  <2>2. \A x \in 1..7 : /\ Priority(Areas[x]) \in {"high", "medium", "low"}
                        /\ Priority(Areas[x]) = "high" <=> x <= 3
    BY DEF Areas, Priority
  <2> QED BY <2>1, <2>2
<1>7. ASSUME NEW i \in DOMAIN list, NEW j \in DOMAIN list,
             Priority(list[i]) = "high", Priority(list[j]) # "high"
      PROVE  i < j
  <2>1. i \in 1..n /\ j \in 1..n /\ advised[i] <= 3 /\ ~(advised[j] <= 3)
    BY <1>5, <1>6, <1>7
  <2>2. advised[i] \in Int /\ advised[j] \in Int /\ i \in Int /\ j \in Int
    BY <1>6, <2>1
  <2>3. CASE j < i
    <3>1. advised[j] < advised[i]
      BY <1>4, <2>1, <2>3 DEF n
    <3> QED BY <2>1, <2>2, <3>1
  <2>4. i # j
    BY <2>1
  <2> QED BY <2>2, <2>3, <2>4
<1>8. LET count(p) == Cardinality({k \in DOMAIN list : Priority(list[k]) = p})
      IN  count("high") + count("medium") + count("low") = n
  <2> DEFINE H == {k \in DOMAIN list : Priority(list[k]) = "high"}
             M == {k \in DOMAIN list : Priority(list[k]) = "medium"}
             L == {k \in DOMAIN list : Priority(list[k]) = "low"}
  <2>1. H \cup M \cup L = 1..n /\ H \cap M = {} /\ (H \cup M) \cap L = {}
    BY <1>5, <1>6
  <2>2. IsFiniteSet(1..n) /\ Cardinality(1..n) = n
    BY <1>5, FS_Interval
  <2> HIDE DEF H, M, L
  <2>3. IsFiniteSet(H) /\ IsFiniteSet(M) /\ IsFiniteSet(L) /\ IsFiniteSet(H \cup M)
    BY <2>1, <2>2, FS_Subset
  <2>4. /\ Cardinality(H \cup M) = Cardinality(H) + Cardinality(M) - Cardinality({})
        /\ Cardinality(1..n) = Cardinality(H \cup M) + Cardinality(L) - Cardinality({})
    <3>1. Cardinality(H \cup M) = Cardinality(H) + Cardinality(M) - Cardinality(H \cap M)
      BY <2>3, FS_Union
    <3>2. Cardinality((H \cup M) \cup L) = Cardinality(H \cup M) + Cardinality(L) - Cardinality((H \cup M) \cap L)
      BY <2>3, FS_Union
    <3> QED BY <2>1, <3>1, <3>2
  <2>5. /\ Cardinality(H) \in Nat /\ Cardinality(M) \in Nat /\ Cardinality(L) \in Nat
        /\ Cardinality({}) = 0
    BY <2>3, FS_CardinalityType, FS_EmptySet
  <2>6. Cardinality(H) + Cardinality(M) + Cardinality(L) = n
    BY <2>2, <2>4, <2>5
  <2> QED BY <2>6 DEF H, M, L
<1>9. AdvicePanel(d).summary["high"] + AdvicePanel(d).summary["medium"] + AdvicePanel(d).summary["low"] = n
  BY <1>3, <1>8
<1> QED BY <1>5, <1>7, <1>9 DEF list

\* The panels of one dashboard tell one story.
LEMMA OneStory == ASSUME NEW d, IsSnapshot(d) PROVE DashboardAgrees(d)
<1>1. /\ Total([c \in DOMAIN CategoryPanel(d) |-> CategoryPanel(d)[c].row.matches])
           = Total([x \in DOMAIN RangePanel(d) |-> RangePanel(d)[x].row.proposals])
      /\ Stats(d).investors = Total([x \in DOMAIN RangePanel(d) |-> RangePanel(d)[x].row.proposals])
      /\ Total([x \in DOMAIN RangePanel(d) |-> RangePanel(d)[x].row.max])
           = Total([c \in DOMAIN CategoryPanel(d) |-> CategoryPanel(d)[c].row.committed])
  <2>1. Stats(d).investors = Total([p \in d.projects |-> p.investors])
    BY DEF Stats, Investors
  <2>2. Total([p \in d.projects |-> p.investors]) = Cardinality(d.proposals)
    BY ProjectsTogether
  <2>3. /\ Total([c \in DOMAIN CategoryPanel(d) |-> CategoryPanel(d)[c].row.matches])
             = Cardinality(d.proposals)
        /\ Total([c \in DOMAIN CategoryPanel(d) |-> CategoryPanel(d)[c].row.committed])
             = Total(Amounts(d))
    BY CategoriesAgree
  <2>4. /\ Total([x \in DOMAIN RangePanel(d) |-> RangePanel(d)[x].row.proposals])
             = Cardinality(d.proposals)
        /\ Total([x \in DOMAIN RangePanel(d) |-> RangePanel(d)[x].row.max]) = Total(Amounts(d))
    BY RangesAgree
  <2> QED BY <2>1, <2>2, <2>3, <2>4, Zenon
<1>2. \A c \in DOMAIN CategoryPanel(d) : CategoryPanel(d)[c].share \in 0..1000
  BY CategoriesAgree
<1>3. TrendPanel(d).recent + TrendPanel(d).previous = Cardinality({e \in d.events : d.today - e.day < 14})
  BY TrendAgrees
<1>4. Total(EventPanel(d)) = FunnelPanel(d).events
  BY EventsAgree
<1>5. /\ \A i \in DOMAIN TopMatchPanel(d) :
           i > 1 => TopMatchPanel(d)[i - 1].matches >= TopMatchPanel(d)[i].matches
      /\ \A i \in DOMAIN TopSignalPanel(d) :
           i > 1 => TopSignalPanel(d)[i - 1].signal >= TopSignalPanel(d)[i].signal
      /\ \A i \in DOMAIN Stats(d).top : Stats(d).top[i].id = TopSignalPanel(d)[i].id
  BY ListsAgree
<1>6. /\ Total([m \in DOMAIN AccessModes(d) |-> AccessModes(d)[m].projects]) = Stats(d).projects
      /\ Total([m \in DOMAIN AccessModes(d) |-> AccessModes(d)[m].verified]) = Stats(d).verified
  BY ModesAgree
<1>7. /\ Len(RiskPanel(d)) = Min({5, HealthPanel(d).risk})
      /\ RiskPanel(d) # <<>> => HealthPanel(d).warnings > 0
  BY RisksAgree
<1>8. /\ AdvicePanel(d).summary["high"] + AdvicePanel(d).summary["medium"] + AdvicePanel(d).summary["low"]
           = Len(AdvicePanel(d).list)
      /\ \A i, j \in DOMAIN AdvicePanel(d).list :
           Priority(AdvicePanel(d).list[i]) = "high" /\ Priority(AdvicePanel(d).list[j]) # "high" => i < j
  BY AdviceAgrees
<1> QED BY <1>1, <1>2, <1>3, <1>4, <1>5, <1>6, <1>7, <1>8, Zenon DEF DashboardAgrees

------------------------------------------------------------------------------
(* One projection.                                                            *)

\* What is projected is never less than nothing, and the sum of its parts.
LEMMA RevenueNat ==
  ASSUME NEW s, IsSnapshot(s), NEW c \in Configs
  PROVE  /\ Revenue(s, c).total \in Nat
         /\ Revenue(s, c).total = Revenue(s, c).maker + Revenue(s, c).investor + Revenue(s, c).lead
                                    + Revenue(s, c).transaction
<1> DEFINE a == Assumed(c)
           m == Cardinality(Verified(s)) * a.makerFee * a.makerRate
           i == Investors(s) * a.investorFee * a.investorRate
           l == Cardinality(s.events) * a.leadFee
<1>1. /\ a.makerFee = Max({0, c["makerFee"]}) /\ a.investorFee = Max({0, c["investorFee"]})
      /\ a.leadFee = Max({0, c["leadFee"]})
      /\ a.makerRate = Clamp(c["makerRate"], 0, 1000) /\ a.investorRate = Clamp(c["investorRate"], 0, 1000)
  BY DEF Assumed, Configs, RateFields, FeeFields
<1> HIDE DEF a
<1>2. \A k \in {"makerFee", "investorFee", "leadFee", "makerRate", "investorRate"} : c[k] \in Int
  BY DEF Configs, RateFields, FeeFields
<1>3. a.makerFee \in Nat /\ a.investorFee \in Nat /\ a.leadFee \in Nat
  BY <1>1, <1>2, MaxOfTwo
<1>4. a.makerRate \in Nat /\ a.investorRate \in Nat
  <2>1. ASSUME NEW x \in Int PROVE Clamp(x, 0, 1000) \in Nat
    <3>1. Clamp(x, 0, 1000) \in Int /\ 0 <= Clamp(x, 0, 1000)
      BY ClampBetween
    <3> QED BY <3>1
  <2> QED BY <1>1, <1>2, <2>1
<1>5. Cardinality(Verified(s)) \in Nat /\ Investors(s) \in Nat /\ Cardinality(s.events) \in Nat
  BY SnapshotFinite, CountsInt, InvestorsNat, FS_CardinalityType DEF FiniteFigures
<1>6. \A x \in Nat, y \in Nat : x * y \in Nat
  OBVIOUS
<1>7. m \in Nat /\ i \in Nat /\ l \in Nat
  BY <1>3, <1>4, <1>5, <1>6
<1>8. Revenue(s, c) = [maker |-> RoundDiv(m, 1000), investor |-> RoundDiv(i, 1000), lead |-> l,
                       transaction |-> 0, total |-> RoundDiv(m, 1000) + RoundDiv(i, 1000) + l]
  BY DEF Revenue, a
<1> HIDE DEF m, i, l
<1>9. ASSUME NEW x \in Nat PROVE RoundDiv(x, 1000) \in Nat
  BY DEF RoundDiv
<1> QED BY <1>7, <1>8, <1>9

\* A revenue that reaches a target reaches it on the progress bar.
Achieved(total, target) == Min({1000, RoundDiv(1000 * total, target)})

LEMMA ReachedIsReached ==
  ASSUME NEW total \in Nat, NEW target \in Nat, target # 0, total >= target
  PROVE  Achieved(total, target) = 1000
<1> DEFINE x == 2 * (1000 * total) + target
           y == 2 * target
           v == RoundDiv(1000 * total, target)
<1>1. x \in Nat /\ y \in Nat \ {0} /\ x >= 1000 * y
  OBVIOUS
<1>2. v = x \div y
  BY DEF RoundDiv
<1> HIDE DEF x, y, v
<1>3. v \in Int /\ v >= 1000
  BY <1>1, <1>2
<1>4. Min({1000, v}) = 1000
  BY <1>3, MinOfTwo
<1> QED BY <1>4 DEF Achieved, v

\* The scenarios, by multiplier: a higher one never earns less.
LEMMA ScenariosRise ==
  ASSUME NEW total \in Nat, NEW I \in SUBSET Int, NEW ms \in Seq(I)
  PROVE  \A i, j \in DOMAIN Scenarios(total, ms) :
           i < j => /\ Scenarios(total, ms)[i].multiplier <= Scenarios(total, ms)[j].multiplier
                    /\ Scenarios(total, ms)[i].monthly <= Scenarios(total, ms)[j].monthly
<1> DEFINE S == {Max({5, m}) : m \in ToSet(ms)}
           list == InOrder(S, LAMBDA x, y : x < y)
<1>1. /\ ToSet(ms) = {ms[i] : i \in 1 .. Len(ms)} /\ Len(ms) \in Nat
      /\ \A i \in 1 .. Len(ms) : ms[i] \in Int
  <2>1. Len(ms) \in Nat /\ DOMAIN ms = 1 .. Len(ms) /\ \A i \in 1 .. Len(ms) : ms[i] \in I
    OBVIOUS
  <2> QED BY <2>1 DEF ToSet
<1>2. S = {Max({5, ms[i]}) : i \in 1 .. Len(ms)}
  BY <1>1
<1>3. S \in SUBSET Nat
  <2>1. ASSUME NEW i \in 1 .. Len(ms) PROVE Max({5, ms[i]}) \in Nat
    BY <1>1, MaxOfTwo
  <2> QED BY <1>2, <2>1
<1>4. IsFiniteSet(S)
  <2> DEFINE f == [i \in 1 .. Len(ms) |-> Max({5, ms[i]})]
  <2>1. IsFiniteSet(1 .. Len(ms))
    <3>1. 1 \in Int /\ Len(ms) \in Int
      BY <1>1
    <3> QED BY <3>1, FS_Interval
  <2>2. f \in Surjection(1 .. Len(ms), S)
    BY <1>2 DEF Surjection
  <2> HIDE DEF S, f
  <2> QED BY <2>1, <2>2, FS_Surjection
<1> HIDE DEF S
<1>5. S \in SUBSET Int
  BY <1>3
<1>6. list \in Seq(S) /\ \A i, j \in 1..Len(list) : i < j => list[i] < list[j]
  BY <1>4, <1>5, NumbersInOrder
<1>7. Scenarios(total, ms) = [i \in DOMAIN list |-> [multiplier |-> RoundDiv(list[i], 10),
                                                     monthly |-> (total * list[i]) \div 100]]
  BY DEF Scenarios, ResolveMultipliers, S
<1> HIDE DEF list
<1>8. ASSUME NEW x \in Nat, NEW y \in Nat, x < y PROVE (total * x) \div 100 <= (total * y) \div 100
  <2>1. total * x \in Nat /\ total * y \in Nat /\ total * x <= total * y
    BY <1>8
  <2>2. ASSUME NEW u \in Nat, NEW v \in Nat, u <= v PROVE u \div 100 <= v \div 100
    BY <2>2
  <2> QED BY <2>1, <2>2
<1>9. ASSUME NEW i \in DOMAIN list, NEW j \in DOMAIN list, i < j
      PROVE  /\ RoundDiv(list[i], 10) <= RoundDiv(list[j], 10)
             /\ (total * list[i]) \div 100 <= (total * list[j]) \div 100
  <2>1. i \in 1..Len(list) /\ j \in 1..Len(list)
    BY <1>6
  <2>2. list[i] \in S /\ list[j] \in S /\ list[i] < list[j]
    BY <1>6, <1>9, <2>1
  <2>3. list[i] \in Nat /\ list[j] \in Nat
    BY <1>3, <2>2
  <2>4. ASSUME NEW x \in Nat, NEW y \in Nat, x < y PROVE RoundDiv(x, 10) <= RoundDiv(y, 10)
    BY <2>4 DEF RoundDiv
  <2> QED BY <1>8, <2>2, <2>3, <2>4
<1> QED BY <1>7, <1>9

\* The panels of one projection tell one story, too.
RevenueOK(r) == IsSnapshot(r.server) /\ r.query \in Inputs /\ AcceptedQuery(r.query)

LEMMA OneProjection == ASSUME NEW r, RevenueOK(r) PROVE ProjectionAgrees(r)
<1> DEFINE s == r.server
           q == r.query
           p == Projection(s, q)
           total == Revenue(s, q.config).total
           target == TargetPanel(p, q.target)
<1>1. q.config \in Configs /\ q.multipliers \in Seq(5..500) /\ q.target \in Nat /\ IsSnapshot(s)
  BY DEF RevenueOK, Inputs
<1>2. /\ total \in Nat
      /\ total = Revenue(s, q.config).maker + Revenue(s, q.config).investor + Revenue(s, q.config).lead
                   + Revenue(s, q.config).transaction
  BY <1>1, RevenueNat
<1>3. RevenuePanel(p).parts = Revenue(s, q.config) /\ ScenarioPanel(p) = Scenarios(total, q.multipliers)
  BY DEF RevenuePanel, ScenarioPanel, Projection
<1>4. BenchmarkPanel(p)[5] = Verdict(total, q.target)
  BY DEF BenchmarkPanel, Projection, Benchmarks
<1>5. /\ target.target = q.target /\ target.shortfall = Max({0, q.target - total})
      /\ target.achieved = Clamp(IF q.target = 0 THEN 1000
                                 ELSE Achieved(total, q.target), 0, 1000)
  BY DEF TargetPanel, Projection, TargetGap, Achieved
<1> HIDE DEF target, total, p, q, s
<1>6. target.shortfall = 0 <=> total >= q.target
  BY <1>1, <1>2, <1>5, MaxOfTwo
<1>7. q.target > 0 => (target.shortfall = 0 <=> Verdict(total, q.target) = "good")
  BY <1>1, <1>2, <1>6 DEF Verdict
<1>8. Clamp(1000, 0, 1000) = 1000
  <2>1. Min({1000, 1000}) = 1000
    BY MinOfTwo
  <2>2. Max({0, 1000}) = 1000
    BY MaxOfTwo
  <2> QED BY <2>1, <2>2 DEF Clamp
<1>9. target.shortfall = 0 => target.achieved = 1000
  <2> HAVE target.shortfall = 0
  <2>1. total >= q.target
    BY <1>6
  <2>2. CASE q.target = 0
    BY <1>5, <1>8, <2>2
  <2>3. CASE q.target # 0
    <3>1. Achieved(total, q.target) = 1000
      BY <1>1, <1>2, <2>1, <2>3, ReachedIsReached
    <3> QED BY <1>5, <1>8, <2>3, <3>1
  <2> QED BY <2>2, <2>3
<1>10. \A i, j \in DOMAIN Scenarios(total, q.multipliers) :
         i < j => /\ Scenarios(total, q.multipliers)[i].multiplier <= Scenarios(total, q.multipliers)[j].multiplier
                  /\ Scenarios(total, q.multipliers)[i].monthly <= Scenarios(total, q.multipliers)[j].monthly
  <2> DEFINE I == 5..500
  <2>1. I \in SUBSET Int /\ q.multipliers \in Seq(I)
    BY <1>1
  <2> HIDE DEF I
  <2> QED BY <1>2, <2>1, ScenariosRise
<1>11. /\ RevenuePanel(p).parts.total = RevenuePanel(p).parts.maker + RevenuePanel(p).parts.investor
                                          + RevenuePanel(p).parts.lead + RevenuePanel(p).parts.transaction
  BY <1>2, <1>3 DEF total
<1>12. \A i, j \in DOMAIN ScenarioPanel(p) :
         i < j => /\ ScenarioPanel(p)[i].multiplier <= ScenarioPanel(p)[j].multiplier
                  /\ ScenarioPanel(p)[i].monthly <= ScenarioPanel(p)[j].monthly
  BY <1>3, <1>10
<1>13. target.target > 0 => (target.shortfall = 0 <=> BenchmarkPanel(p)[5] = "good")
  BY <1>4, <1>5, <1>7
<1> QED BY <1>9, <1>11, <1>12, <1>13, Zenon DEF ProjectionAgrees, target, p, q, s

------------------------------------------------------------------------------
(* What a reload makes of the inputs.                                         *)

LEMMA FunnelInt ==
  ASSUME NEW s, FiniteFigures(s)
  PROVE  Funnel(s).perProject \in Int /\ Funnel(s).preview \in Int
<1> DEFINE n == EventTotals(s)
<1>1. n["match"] \in Nat /\ n["preview"] \in Nat
  BY CountsInt
<1> HIDE DEF n
<1>2. Rate(n["match"], n["preview"]) \in Int
  BY <1>1, RateInt
<1>3. Max({1, Cardinality(s.projects)}) \in Nat
  <2>1. Cardinality(s.projects) \in Nat
    BY CountsInt
  <2> QED BY <2>1, MaxOfTwo
<1>4. Rate(Matched(s), Max({1, Cardinality(s.projects)})) \in Int
  BY <1>3, InvestorsNat, RateInt
<1>5. Funnel(s).perProject = Rate(Matched(s), Max({1, Cardinality(s.projects)}))
  BY DEF Funnel
<1>6. Funnel(s).preview = Rate(n["match"], n["preview"])
  BY DEF Funnel, n
<1> QED BY <1>2, <1>4, <1>5, <1>6

LEMMA ObservedIsInputs ==
  ASSUME NEW q \in Inputs, NEW market, FiniteFigures(market), FiniteFigures(shown[1].dashboard)
  PROVE  Observed(q, market) \in Inputs
<1> DEFINE funnel == Funnel(shown[1].dashboard)
           maker == RoundDiv(1000 * Cardinality(Verified(market)), Cardinality(market.projects))
           config == [k \in DOMAIN q.config |->
                        CASE k = "makerRate" /\ market.projects # {} -> maker
                          [] k = "investorRate" /\ funnel.perProject > 0 -> funnel.perProject
                          [] k = "closeRate" /\ funnel.preview > 0 -> funnel.preview
                          [] OTHER -> q.config[k]]
<1>1. /\ q.config \in Configs /\ q.multipliers \in Seq(5..500) \ {<<>>} /\ q.target \in Nat
      /\ q = [config |-> q.config, multipliers |-> q.multipliers, target |-> q.target]
  BY DEF Inputs
<1>2. Observed(q, market) = [q EXCEPT !.config = config]
  BY DEF Observed
<1>3. market.projects # {} => maker \in Int
  <2>1. 1000 * Cardinality(Verified(market)) \in Int
    BY CountsInt
  <2> QED BY <2>1, CountsInt, RoundDivInt
<1>4. funnel.perProject \in Int /\ funnel.preview \in Int
  BY FunnelInt
<1>5. config \in Configs
  <2> HIDE DEF funnel, maker
  <2>1. \A k \in DOMAIN q.config : q.config[k] \in Int
    BY <1>1 DEF Configs
  <2> QED BY <1>1, <1>3, <1>4, <2>1 DEF Configs
<1> HIDE DEF config
<1> QED BY <1>1, <1>2, <1>5 DEF Inputs

\* The multipliers, put in order, are multipliers.
LEMMA OrderedMultipliers ==
  ASSUME NEW I \in SUBSET Int, NEW ms \in Seq(I), ms # <<>>
  PROVE  LET sorted == InOrder(ToSet(ms), LAMBDA x, y : x < y)
         IN  sorted \in Seq(I) /\ sorted # <<>>
<1> DEFINE S == ToSet(ms)
<1>1. /\ S = {ms[i] : i \in 1 .. Len(ms)} /\ Len(ms) \in Nat /\ Len(ms) > 0
      /\ \A i \in 1 .. Len(ms) : ms[i] \in I
  BY DEF ToSet
<1>2. IsFiniteSet(S)
  <2> DEFINE f == [i \in 1 .. Len(ms) |-> ms[i]]
  <2>1. IsFiniteSet(1 .. Len(ms))
    BY <1>1, FS_Interval
  <2> HIDE DEF S
  <2>2. f \in Surjection(1 .. Len(ms), S)
    BY <1>1 DEF Surjection
  <2> QED BY <2>1, <2>2, FS_Surjection
<1>3. S \in SUBSET Int /\ S \subseteq I /\ S # {}
  <2>1. 1 \in 1 .. Len(ms)
    BY <1>1
  <2> HIDE DEF S
  <2> QED BY <1>1, <2>1
<1> HIDE DEF S
<1>4. Cardinality(S) \in Nat /\ Cardinality(S) # 0
  BY <1>2, <1>3, FS_EmptySet, FS_CardinalityType
<1> DEFINE sorted == InOrder(S, LAMBDA x, y : x < y)
<1>5. sorted \in Seq(S) /\ Len(sorted) = Cardinality(S)
  BY <1>2, <1>3, NumbersInOrder
<1> HIDE DEF sorted
<1>6. sorted \in Seq(I) /\ sorted # <<>>
  <2>1. ASSUME NEW s \in Seq(S) PROVE s \in Seq(I)
    <3>1. s \in [1 .. Len(s) -> S] /\ Len(s) \in Nat
      OBVIOUS
    <3>2. s \in [1 .. Len(s) -> I]
      BY <1>3, <3>1
    <3> QED BY <3>1, <3>2
  <2>2. Len(<<>>) = 0
    OBVIOUS
  <2> QED BY <1>4, <1>5, <2>1, <2>2, Zenon
<1> QED BY <1>6 DEF S, sorted

LEMMA RepairIsAccepted ==
  ASSUME NEW q \in Inputs
  PROVE  Repair(q) \in Inputs /\ AcceptedQuery(Repair(q))
<1> DEFINE K == RateFields \cup FeeFields \cup {"churn"}
           Rate0(k, lo, hi) == IF q.config[k] = NaN THEN DefaultConfig[k] ELSE Clamp(q.config[k], lo, hi)
           config == [k \in DOMAIN q.config |->
                        CASE k = "churn"      -> Rate0(k, 1, 999)
                          [] k = "feeRate"    -> Rate0(k, 1, 300)
                          [] k \in RateFields \ {"feeRate"} -> Rate0(k, 0, 1000)
                          [] OTHER            -> q.config[k]]
           ordered == InOrder(ToSet(q.multipliers), LAMBDA x, y : x < y)
<1>1. q.config \in [K -> Int] /\ q.multipliers \in Seq(5..500) \ {<<>>} /\ q.target \in Nat
  BY DEF Inputs, Configs
<1>2. Repair(q) = [config |-> config, multipliers |-> ordered, target |-> q.target]
  BY DEF Repair
<1>3. /\ ordered \in Seq(5..500) /\ ordered # <<>>
      /\ \A i \in DOMAIN ordered : ordered[i] \in 5..500
  <2> DEFINE I == 5..500
  <2>1. I \in SUBSET Int
    OBVIOUS
  <2> HIDE DEF I
  <2>2. q.multipliers \in Seq(I) /\ q.multipliers # <<>>
    BY <1>1 DEF I
  <2>3. ordered \in Seq(I) /\ ordered # <<>>
    BY <2>1, <2>2, OrderedMultipliers
  <2> HIDE DEF ordered
  <2>4. \A i \in DOMAIN ordered : ordered[i] \in I
    BY <2>3
  <2> QED BY <2>3, <2>4 DEF I
<1>4. /\ Rate0("churn", 1, 999) \in 1..999
      /\ Rate0("feeRate", 1, 300) \in 1..300
      /\ \A k \in RateFields : Rate0(k, 0, 1000) \in 0..1000
  <2>1. \A k \in K : q.config[k] \in Int
    BY <1>1
  <2>2. "churn" \in K /\ "feeRate" \in K /\ RateFields \subseteq K
    BY DEF RateFields
  <2> HIDE DEF K
  <2>3. ASSUME NEW k \in K, NEW lo \in Nat, NEW hi \in Nat, lo <= hi,
               DefaultConfig[k] \in lo .. hi
        PROVE  Rate0(k, lo, hi) \in lo .. hi
    <3>1. q.config[k] \in Int /\ lo \in Int /\ hi \in Int
      BY <2>1
    <3>2. ASSUME NEW c \in Int PROVE Clamp(c, lo, hi) \in lo .. hi
      <4>1. Clamp(c, lo, hi) \in Int /\ lo <= Clamp(c, lo, hi) /\ Clamp(c, lo, hi) <= hi
        BY <2>3, <3>1, ClampBetween
      <4> QED BY <3>1, <4>1
    <3>3. Clamp(q.config[k], lo, hi) \in lo .. hi
      BY <3>1, <3>2, Zenon
    <3> QED BY <2>3, <3>3
  <2> HIDE DEF Rate0
  <2>4. /\ DefaultConfig["churn"] \in 1..999 /\ DefaultConfig["feeRate"] \in 1..300
        /\ \A k \in RateFields : DefaultConfig[k] \in 0..1000
    BY InputsAssumption
  <2>5. Rate0("churn", 1, 999) \in 1..999
    <3> DEFINE top == 999
    <3>1. 1 \in Nat /\ top \in Nat /\ 1 <= top /\ DefaultConfig["churn"] \in 1..top
      BY <2>4
    <3> HIDE DEF top
    <3>2. Rate0("churn", 1, top) \in 1..top
      BY <2>2, <2>3, <3>1, Zenon
    <3> QED BY <3>2 DEF top
  <2>6. Rate0("feeRate", 1, 300) \in 1..300
    <3> DEFINE top == 300
    <3>1. 1 \in Nat /\ top \in Nat /\ 1 <= top /\ DefaultConfig["feeRate"] \in 1..top
      BY <2>4
    <3> HIDE DEF top
    <3>2. Rate0("feeRate", 1, top) \in 1..top
      BY <2>2, <2>3, <3>1, Zenon
    <3> QED BY <3>2 DEF top
  <2>7. ASSUME NEW k \in RateFields PROVE Rate0(k, 0, 1000) \in 0..1000
    <3> DEFINE top == 1000
    <3>1. 0 \in Nat /\ top \in Nat /\ 0 <= top /\ DefaultConfig[k] \in 0..top /\ k \in K
      BY <2>2, <2>4
    <3> HIDE DEF top
    <3>2. Rate0(k, 0, top) \in 0..top
      BY <2>3, <3>1, Zenon
    <3> QED BY <3>2 DEF top
  <2> QED BY <2>5, <2>6, <2>7
<1> HIDE DEF ordered, Rate0
<1>5. /\ config \in [K -> Int] /\ config["churn"] \in 1..999
      /\ \A k \in RateFields : config[k] \in 0..1000
  <2>1. DOMAIN config = K
    BY <1>1
  <2>6. ASSUME NEW k \in K
        PROVE  /\ k = "churn" => config[k] = Rate0(k, 1, 999)
               /\ k = "feeRate" => config[k] = Rate0(k, 1, 300)
               /\ k \in RateFields \ {"feeRate"} => config[k] = Rate0(k, 0, 1000)
               /\ k \notin RateFields \cup {"churn"} => config[k] = q.config[k]
    <3>1. k \in DOMAIN q.config
      BY <1>1
    <3>2. "churn" \notin RateFields /\ "feeRate" \in RateFields
      BY DEF RateFields
    <3> HIDE DEF Rate0
    <3>3. config[k] = CASE k = "churn"      -> Rate0(k, 1, 999)
                        [] k = "feeRate"    -> Rate0(k, 1, 300)
                        [] k \in RateFields \ {"feeRate"} -> Rate0(k, 0, 1000)
                        [] OTHER            -> q.config[k]
      BY <3>1
    <3> HIDE DEF config
    <3>4. CASE k = "churn"
      BY <3>2, <3>3, <3>4
    <3>5. CASE k = "feeRate"
      BY <3>2, <3>3, <3>5
    <3>6. CASE k \notin {"churn", "feeRate"}
      BY <3>3, <3>6
    <3> QED BY <3>4, <3>5, <3>6
  <2> HIDE DEF config
  <2>2. config["churn"] \in 1..999
    BY <1>4, <2>6
  <2>3. ASSUME NEW k \in RateFields PROVE config[k] \in 0..1000
    <3>1. CASE k = "feeRate"
      BY <1>4, <2>6, <3>1
    <3>2. CASE k # "feeRate"
      BY <1>4, <2>6, <3>2
    <3> QED BY <3>1, <3>2
  <2>4. ASSUME NEW k \in K PROVE config[k] \in Int
    <3>1. CASE k \in RateFields
      BY <2>3, <3>1
    <3>2. CASE k = "churn"
      BY <2>2, <3>2
    <3>3. CASE k \notin RateFields /\ k # "churn"
      BY <1>1, <2>6, <3>3
    <3> QED BY <3>1, <3>2, <3>3
  <2> HIDE DEF K
  <2>5. config = [k \in K |-> config[k]]
    BY <2>1 DEF config
  <2> QED BY <2>2, <2>3, <2>4, <2>5
<1> HIDE DEF config
<1>6. Repair(q) \in Inputs
  BY <1>1, <1>2, <1>3, <1>5 DEF Inputs, Configs
<1>7. AcceptedQuery(Repair(q))
  BY <1>1, <1>2, <1>3, <1>5 DEF AcceptedQuery
<1> QED BY <1>6, <1>7

------------------------------------------------------------------------------
(* Every answer shows a snapshot, and the inputs stay numbers.                *)

\* The figures of an answer are those of some snapshot, and its projection is
\* that of a query which the server accepted.
BundleOK(b) == IsSnapshot(b.dashboard) /\ RevenueOK(b.revenue)

\* A request under way: what was asked for, and what has come of it so far.
FetchOK(f) ==
  /\ f = [key |-> f.key, parts |-> f.parts]
  /\ f # NoFetch => f.key[1] \in Inputs
  /\ "dashboard" \in DOMAIN f.parts => IsSnapshot(f.parts.dashboard)
  /\ "revenue" \in DOMAIN f.parts => RevenueOK(f.parts.revenue)

\* What the server keeps, what is asked for, kept and shown.
FigureInv ==
  /\ inputs \in Inputs /\ applied \in Inputs
  /\ IsSnapshot(Server)
  /\ {p.id : p \in projects} = {p.id : p \in Sites} /\ IsFiniteSet(events)
  /\ FetchOK(fetch)
  /\ \A k \in DOMAIN cache : BundleOK(cache[k])
  /\ shown # <<>> => BundleOK(shown[1])

\* What a request brought when nothing was brought yet, and when there is none.
LEMMA NothingCame == /\ \A q \in Inputs : FetchOK(Started(q))
                     /\ FetchOK(NoFetch)
<1> QED BY DEF FetchOK, Started, NoFetch

\* The counters of a project fit its proposals, whatever else is known of it.
LEMMA CountersFollow ==
  ASSUME NEW s, NEW t, NEW p, NEW r, CountersFit(s, p), r.id = p.id, s.proposals = t.proposals,
         r.investors = p.investors, r.matches = p.matches, r.committed = p.committed
  PROVE  CountersFit(t, r)
<1>1. ProposalsOf(t, r) = ProposalsOf(s, p)
  BY DEF ProposalsOf
<1> QED BY <1>1 DEF CountersFit

LEMMA FiguresAtTheStart == ConsoleInit => FigureInv
<1> SUFFICES ASSUME ConsoleInit PROVE FigureInv
  OBVIOUS
<1> DEFINE K == RateFields \cup FeeFields \cup {"churn"}
<1>1. DefaultConfig \in [K -> Int]
  <2>1. DefaultConfig \in [K -> Nat]
    BY InputsAssumption
  <2> HIDE DEF K
  <2> QED BY <2>1
<1>2. inputs \in Inputs
  BY <1>1, InputsAssumption DEF ConsoleInit, Inputs, Configs
<1>3. IsSnapshot(Server)
  <2> DEFINE all == [projects |-> Sites, proposals |-> Entered, events |-> History \cup NewEvents,
                    today |-> Today]
  <2>1. /\ IsSnapshot(all) /\ all.projects = Sites /\ all.proposals = Entered
        /\ all.events = History \cup NewEvents /\ all.today = Today
    BY ConsoleAssumption
  <2>2. /\ Server.projects = Sites /\ Server.proposals = Entered
        /\ Server.events = History /\ Server.today = Today
    BY DEF ConsoleInit, Server
  <2> HIDE DEF all
  <2>3. IsFiniteSet(History)
    BY <2>1, FS_Subset DEF IsSnapshot
  <2>4. \A p \in Sites : CountersFit(Server, p)
    <3>1. \A p \in Sites : CountersFit(all, p)
      BY <2>1 DEF IsSnapshot
    <3> QED BY <2>1, <2>2, <3>1, CountersFollow
  <2> QED BY <2>1, <2>2, <2>3, <2>4 DEF IsSnapshot
<1>4. fetch = Started(inputs)
  BY DEF ConsoleInit
<1>5. FetchOK(fetch)
  BY <1>2, <1>4, NothingCame
<1>6. IsFiniteSet(events)
  <2>1. Server.events = events
    BY DEF Server
  <2> QED BY <1>3, <2>1 DEF IsSnapshot
<1> QED BY <1>2, <1>3, <1>5, <1>6 DEF ConsoleInit, FigureInv

\* What the effect shows comes from the cache.
LEMMA ShowsTheCache ==
  ASSUME FigureInv, NEW k, NEW c, NEW mounted,
         \A x \in DOMAIN c : BundleOK(c[x]),
         Sync(DataOf(k, c, mounted))
  PROVE  shown' # <<>> => BundleOK(shown'[1])
<1> DEFINE d == DataOf(k, c, mounted)
<1>1. CASE d # dep /\ d # NoBundle
  <2>1. k \in DOMAIN c /\ d = <<k, c[k]>>
    BY <1>1 DEF DataOf
  <2>2. shown' = <<d[2]>>
    BY <1>1 DEF Sync
  <2>3. shown'[1] = c[k]
    BY <2>1, <2>2
  <2> QED BY <2>1, <2>3
<1>2. CASE ~(d # dep /\ d # NoBundle)
  BY <1>2 DEF Sync, FigureInv
<1> QED BY <1>1, <1>2

LEMMA FiguresAtARender ==
  ASSUME FigureInv, NEW q \in Inputs, NEW mounted, Render(q, mounted),
         inputs' \in Inputs, UNCHANGED <<projects, proposals, events>>
  PROVE  FigureInv'
<1>1. FetchOK(fetch')
  <2>1. fetch' = Started(q) \/ fetch' = fetch
    BY DEF Render
  <2> QED BY <2>1, NothingCame DEF FigureInv
<1>2. \A k \in DOMAIN cache' : BundleOK(cache'[k])
  BY DEF Render, Restrict, FigureInv
<1>3. Sync(DataOf(Key(q), cache', mounted))
  BY DEF Render
<1>4. shown' # <<>> => BundleOK(shown'[1])
  BY <1>2, <1>3, ShowsTheCache
<1>5. applied' \in Inputs /\ Server' = Server
  BY DEF Render, Server
<1> QED BY <1>1, <1>2, <1>4, <1>5 DEF FigureInv

LEMMA FiguresAtAnEdit ==
  ASSUME FigureInv, NEW q \in Inputs, Edit(q) PROVE FigureInv'
<1> QED BY DEF Edit, FigureInv, Server, server, bundle

\* Each of the numbers that the operator may type makes inputs of inputs.
LEMMA EditsAreInputs ==
  ASSUME FigureInv
  PROVE  /\ EditRate \/ EditFee \/ EditTarget \/ EditMultiplier \/ ResetMultipliers \/ ChooseTemplate
              => FigureInv'
<1> DEFINE K == RateFields \cup FeeFields \cup {"churn"}
<1>0. /\ inputs.config \in [K -> Int] /\ inputs.multipliers \in Seq(5..500) \ {<<>>}
      /\ inputs.target \in Nat
      /\ inputs = [config |-> inputs.config, multipliers |-> inputs.multipliers,
                   target |-> inputs.target]
  BY DEF FigureInv, Inputs, Configs
<1>n. \A v \in Typed : v \in Int /\ (v # NaN => v \in Nat)
  BY InputsAssumption DEF NaN
<1>c. ASSUME NEW k \in K, NEW v \in Int PROVE [inputs EXCEPT !.config[k] = v] \in Inputs
  <2>1. [inputs.config EXCEPT ![k] = v] \in [K -> Int]
    <3> HIDE DEF K
    <3> QED BY <1>0
  <2> QED BY <1>0, <2>1 DEF Inputs, Configs
<1>1. CASE EditRate
  <2>1. PICK k \in K, v \in Typed : Edit([inputs EXCEPT !.config[k] = v])
    BY <1>1 DEF EditRate
  <2> QED BY <1>n, <1>c, <2>1, FiguresAtAnEdit
<1>2. CASE EditFee
  <2>1. PICK k \in K, v \in Typed : Edit([inputs EXCEPT !.config[k] = Max({0, v})])
    BY <1>2 DEF EditFee
  <2>2. Max({0, v}) \in Int
    BY <1>n, MaxOfTwo
  <2> QED BY <1>c, <2>1, <2>2, FiguresAtAnEdit
<1>3. CASE EditTarget
  <2>1. PICK v \in Typed \ {NaN} : Edit([inputs EXCEPT !.target = v])
    BY <1>3 DEF EditTarget
  <2>2. [inputs EXCEPT !.target = v] \in Inputs
    BY <1>0, <1>n DEF Inputs, Configs
  <2> QED BY <2>1, <2>2, FiguresAtAnEdit
<1>4. CASE EditMultiplier
  <2>1. PICK i \in DOMAIN inputs.multipliers, v \in Typed \ {NaN} :
          Edit([inputs EXCEPT !.multipliers[i] = Clamp(v, 5, 500)])
    BY <1>4 DEF EditMultiplier
  <2>2. Clamp(v, 5, 500) \in 5..500
    <3> DEFINE top == 500
    <3>1. v \in Int /\ top \in Int /\ 5 <= top
      BY <1>n
    <3> HIDE DEF top
    <3>2. Clamp(v, 5, top) \in Int /\ 5 <= Clamp(v, 5, top) /\ Clamp(v, 5, top) <= top
      <4>1. 5 \in Int
        OBVIOUS
      <4> QED BY <3>1, <4>1, ClampBetween, Zenon
    <3> DEFINE c == Clamp(v, 5, top)
    <3> HIDE DEF c
    <3>3. c \in 5..top
      BY <3>1, <3>2 DEF c
    <3> QED BY <3>3 DEF c, top
  <2>3. [inputs.multipliers EXCEPT ![i] = Clamp(v, 5, 500)] \in Seq(5..500) \ {<<>>}
    <3> DEFINE I == 5..500
               c == Clamp(v, 5, 500)
    <3>1. c \in I /\ inputs.multipliers \in Seq(I) /\ inputs.multipliers # <<>>
      BY <1>0, <2>2
    <3> HIDE DEF I, c
    <3>2. ASSUME NEW ms \in Seq(I) PROVE [ms EXCEPT ![i] = c] \in Seq(I) /\ Len([ms EXCEPT ![i] = c]) = Len(ms)
      <4> DEFINE n == Len(ms)
      <4>1. n \in Nat /\ ms \in [1..n -> I]
        OBVIOUS
      <4> HIDE DEF n
      <4>2. [ms EXCEPT ![i] = c] \in [1..n -> I]
        BY <3>1, <4>1
      <4>3. [ms EXCEPT ![i] = c] \in Seq(I) /\ Len([ms EXCEPT ![i] = c]) = n
        BY <4>1, <4>2
      <4> QED BY <4>3 DEF n
    <3>3. \A ms \in Seq(I) : ms # <<>> => [ms EXCEPT ![i] = c] # <<>>
      BY <3>2
    <3> QED BY <3>1, <3>2, <3>3 DEF I, c
  <2>4. [inputs EXCEPT !.multipliers[i] = Clamp(v, 5, 500)] \in Inputs
    <3> DEFINE ms == [inputs.multipliers EXCEPT ![i] = Clamp(v, 5, 500)]
    <3>1. [inputs EXCEPT !.multipliers = ms] \in Inputs
      <4> HIDE DEF ms
      <4>1. ms \in Seq(5..500) \ {<<>>}
        BY <2>3 DEF ms
      <4> QED BY <1>0, <4>1 DEF Inputs, Configs
    <3> QED BY <3>1
  <2> QED BY <2>1, <2>4, FiguresAtAnEdit
<1>5. CASE ResetMultipliers
  <2>1. [inputs EXCEPT !.multipliers = DefaultMultipliers] \in Inputs
    BY <1>0, InputsAssumption DEF Inputs, Configs
  <2> QED BY <1>5, <2>1, FiguresAtAnEdit DEF ResetMultipliers
<1>6. CASE ChooseTemplate
  <2>1. PICK t \in Templates : Edit([inputs EXCEPT !.config = t])
    BY <1>6 DEF ChooseTemplate
  <2>2. t \in [K -> Nat]
    BY InputsAssumption
  <2>3. t \in [K -> Int]
    <3> HIDE DEF K
    <3> QED BY <2>2
  <2>4. [inputs EXCEPT !.config = t] \in Inputs
    BY <1>0, <2>3 DEF Inputs, Configs
  <2> QED BY <2>1, <2>4, FiguresAtAnEdit
<1> QED BY <1>1, <1>2, <1>3, <1>4, <1>5, <1>6

LEMMA MarketFiguresFinite ==
  ASSUME FigureInv, shown # <<>>, NEW market \in MarketFigures
  PROVE  FiniteFigures(market) /\ FiniteFigures(shown[1].dashboard) /\ Observed(inputs, market) \in Inputs
<1>1. FiniteFigures(shown[1].dashboard)
  BY SnapshotFinite DEF FigureInv, BundleOK
<1>2. FiniteFigures(Server)
  BY SnapshotFinite DEF FigureInv
<1>3. FiniteFigures(market)
  BY <1>1, <1>2 DEF MarketFigures
<1> QED BY <1>1, <1>3, ObservedIsInputs DEF FigureInv

LEMMA FiguresAtAdvice ==
  ASSUME FigureInv, ApplyObserved \/ ApplyRecommendation \/ ApplyAll PROVE FigureInv'
<1>1. ASSUME NEW areas, Apply(areas), shown # <<>> PROVE FigureInv'
  <2>1. inputs' \in Inputs
    <3>1. PICK market \in MarketFigures :
            inputs' = Observed(inputs, market) \/ inputs' = inputs
      BY <1>1 DEF Apply
    <3> QED BY <1>1, <3>1, MarketFiguresFinite DEF FigureInv
  <2>2. \E mounted : Render(applied, mounted)
    BY <1>1 DEF Apply
  <2>3. UNCHANGED <<projects, proposals, events>>
    BY <1>1 DEF Apply, server
  <2> QED BY <2>1, <2>2, <2>3, FiguresAtARender DEF FigureInv
<1>2. CASE ApplyObserved
  <2>1. PICK market \in MarketFigures : Edit(Observed(inputs, market)) /\ shown # <<>>
    BY <1>2 DEF ApplyObserved
  <2> QED BY <2>1, MarketFiguresFinite, FiguresAtAnEdit
<1>3. CASE ApplyRecommendation
  BY <1>1, <1>3 DEF ApplyRecommendation
<1>4. CASE ApplyAll
  BY <1>1, <1>4 DEF ApplyAll
<1> QED BY <1>2, <1>3, <1>4

LEMMA FiguresAtAReload == ASSUME FigureInv, Reload PROVE FigureInv' /\ AcceptedQuery(applied')
<1>1. inputs' = Repair(inputs) /\ applied' = inputs'
  BY DEF Reload
<1>2. inputs' \in Inputs /\ AcceptedQuery(inputs')
  BY <1>1, RepairIsAccepted DEF FigureInv
<1>3. FetchOK(fetch')
  BY <1>2, NothingCame DEF Reload
<1>4. cache' = <<>> /\ shown' = <<>> /\ UNCHANGED <<projects, proposals, events>> /\ Server' = Server
  BY DEF Reload, server, Server
<1>5. \A k \in DOMAIN cache' : BundleOK(cache'[k])
  <2>1. DOMAIN cache' = {}
    BY <1>4
  <2> QED BY <2>1
<1>6. FigureInv'
  BY <1>1, <1>2, <1>3, <1>4, <1>5 DEF FigureInv
<1> QED BY <1>1, <1>2, <1>6

LEMMA FiguresOfTheBundle ==
  ASSUME FigureInv, Poll \/ Served \/ Arrive \/ Fails PROVE FigureInv'
<1>1. CASE Poll
  <2>1. FetchOK(fetch')
    BY <1>1, NothingCame DEF Poll, FigureInv
  <2>2. UNCHANGED <<projects, proposals, events, inputs, applied, cache, shown>> /\ Server' = Server
    BY <1>1 DEF Poll, server, Server
  <2> QED BY <2>1, <2>2 DEF FigureInv
<1>2. CASE Served
  <2> DEFINE answer(part) == CASE part = "dashboard" -> Server
                               [] part = "revenue"   -> [server |-> Server, query |-> fetch.key[1]]
                               [] part = "queue"     -> reported
             parts(part) == [x \in DOMAIN fetch.parts \cup {part} |->
                               IF x = part THEN answer(part) ELSE fetch.parts[x]]
  <2>1. PICK part \in Parts \ DOMAIN fetch.parts :
          /\ fetch # NoFetch
          /\ part = "revenue" => AcceptedQuery(fetch.key[1])
          /\ fetch' = [fetch EXCEPT !.parts = parts(part)]
          /\ UNCHANGED <<server, inputs, applied, cache, shown>>
    BY <1>2 DEF Served
  <2>2. fetch = [key |-> fetch.key, parts |-> fetch.parts] /\ fetch.key[1] \in Inputs
    BY <2>1 DEF FigureInv, FetchOK
  <2>3. /\ part = "dashboard" => IsSnapshot(answer(part))
        /\ part = "revenue" => RevenueOK(answer(part))
    <3>1. part = "dashboard" => answer(part) = Server
      OBVIOUS
    <3>2. part = "revenue" => answer(part) = [server |-> Server, query |-> fetch.key[1]]
      OBVIOUS
    <3>3. IsSnapshot(Server)
      BY DEF FigureInv
    <3> DEFINE r == [server |-> Server, query |-> fetch.key[1]]
    <3>4. r.server = Server /\ r.query = fetch.key[1]
      OBVIOUS
    <3> HIDE DEF answer, r
    <3>5. part = "revenue" => RevenueOK(r)
      BY <2>1, <2>2, <3>3, <3>4 DEF RevenueOK
    <3> QED BY <3>1, <3>2, <3>3, <3>5 DEF r
  <2> HIDE DEF answer
  <2>4. fetch' = [key |-> fetch.key, parts |-> parts(part)]
    BY <2>1, <2>2
  <2>5. FetchOK(fetch')
    <3>1. fetch'.key = fetch.key /\ fetch'.parts = parts(part)
      BY <2>4
    <3>2. /\ "dashboard" \in DOMAIN fetch.parts => IsSnapshot(fetch.parts.dashboard)
          /\ "revenue" \in DOMAIN fetch.parts => RevenueOK(fetch.parts.revenue)
      BY DEF FigureInv, FetchOK
    <3>3. /\ "dashboard" \in DOMAIN parts(part) => IsSnapshot(parts(part).dashboard)
          /\ "revenue" \in DOMAIN parts(part) => RevenueOK(parts(part).revenue)
      BY <2>3, <3>2
    <3> HIDE DEF parts
    <3> QED BY <2>2, <2>4, <3>1, <3>3 DEF FetchOK
  <2>6. UNCHANGED <<projects, proposals, events, inputs, applied, cache, shown>> /\ Server' = Server
    BY <2>1 DEF server, Server
  <2> QED BY <2>5, <2>6 DEF FigureInv
<1>3. CASE Arrive
  <2>1. BundleOK(fetch.parts)
    BY <1>3 DEF Arrive, Parts, FigureInv, FetchOK, BundleOK
  <2>2. \A k \in DOMAIN cache' : BundleOK(cache'[k])
    BY <1>3, <2>1 DEF Arrive, FigureInv
  <2>3. Sync(DataOf(Key(applied), cache', open))
    BY <1>3 DEF Arrive
  <2>4. shown' # <<>> => BundleOK(shown'[1])
    BY <2>2, <2>3, ShowsTheCache
  <2>5. fetch' = NoFetch /\ UNCHANGED <<projects, proposals, events, inputs, applied>> /\ Server' = Server
    BY <1>3 DEF Arrive, server, Server
  <2>6. FetchOK(fetch')
    BY <2>5, NothingCame
  <2> QED BY <2>2, <2>4, <2>5, <2>6 DEF FigureInv
<1>4. CASE Fails
  <2>1. fetch' = NoFetch /\ UNCHANGED <<projects, proposals, events, inputs, applied, cache, shown>>
    BY <1>4 DEF Fails, server
  <2>2. FetchOK(fetch') /\ Server' = Server
    BY <2>1, NothingCame DEF Server
  <2> QED BY <2>1, <2>2 DEF FigureInv
<1> QED BY <1>1, <1>2, <1>3, <1>4

\* The fields of a project, and what a change of some of them leaves alone.
SiteFields == {"id", "verified", "ms", "access", "category", "investors", "matches", "committed"}

LEMMA FieldChanged ==
  ASSUME NEW K, NEW p, p = [n \in K |-> p[n]], NEW a \in K, NEW u
  PROVE  /\ [p EXCEPT ![a] = u] = [n \in K |-> [p EXCEPT ![a] = u][n]]
         /\ [p EXCEPT ![a] = u][a] = u
         /\ \A n \in K \ {a} : [p EXCEPT ![a] = u][n] = p[n]
<1>1. DOMAIN p = K
  <2>1. DOMAIN [n \in K |-> p[n]] = K
    OBVIOUS
  <2> QED BY <2>1, Zenon
<1> QED BY <1>1

\* A probe that fails leaves the project what it is.
Failed(p) == [p EXCEPT !.verified = FALSE, !.ms = 3000]

LEMMA ProbedSite ==
  ASSUME NEW p, IsSite(p)
  PROVE  /\ Failed(p).id = p.id /\ IsSite(Failed(p))
         /\ Failed(p).investors = p.investors /\ Failed(p).matches = p.matches
         /\ Failed(p).committed = p.committed
<1> DEFINE K    == SiteFields
           no   == FALSE
           slow == 3000
           q    == [p EXCEPT !["verified"] = no]
           r    == [q EXCEPT !["ms"] = slow]
<1>1. p = [n \in K |-> p[n]] /\ p.id \in Int /\ p.access \in {"open", "screened"}
  BY DEF IsSite, SiteFields
<1>2. /\ "verified" \in K /\ "ms" \in K \ {"verified"}
      /\ \A n \in {"id", "access", "investors", "matches", "committed"} :
           n \in K \ {"verified"} /\ n \in K \ {"ms"}
  BY DEF SiteFields
<1>3. r = Failed(p)
  BY Zenon DEF Failed
<1>v. no \in BOOLEAN /\ slow \in Int
  OBVIOUS
<1> HIDE DEF K, no, slow
<1>4. q = [n \in K |-> q[n]] /\ q["verified"] = no /\ \A n \in K \ {"verified"} : q[n] = p[n]
  BY <1>1, <1>2, FieldChanged
<1> HIDE DEF q
<1>5. r = [n \in K |-> r[n]] /\ r["ms"] = slow /\ \A n \in K \ {"ms"} : r[n] = q[n]
  BY <1>2, <1>4, FieldChanged
<1>6. r["verified"] = no
  <2>1. "verified" \in K \ {"ms"}
    BY <1>2
  <2> QED BY <1>4, <1>5, <2>1, Zenon
<1> HIDE DEF r
<1>7. \A n \in {"id", "access", "investors", "matches", "committed"} : r[n] = p[n]
  BY <1>2, <1>4, <1>5
<1>8. IsSite(r)
  <2>1. r.verified \in BOOLEAN
    BY <1>v, <1>6, Zenon
  <2>2. r.id \in Int /\ r.access \in {"open", "screened"}
    BY <1>1, <1>7
  <2>3. r.ms \in Int
    BY <1>v, <1>5
  <2> QED BY <1>5, <2>1, <2>2, <2>3 DEF IsSite, SiteFields, K
<1> QED BY <1>3, <1>7, <1>8

LEMMA ContactedSite ==
  ASSUME NEW p, IsSite(p), NEW x
  PROVE  /\ Contacted(p, x).id = p.id /\ IsSite(Contacted(p, x))
         /\ Contacted(p, x).investors = p.investors + 1 /\ Contacted(p, x).matches = p.matches + 1
         /\ Contacted(p, x).committed = p.committed + Ranges[x.range].max
<1> DEFINE K   == SiteFields
           i   == p.investors + 1
           m   == p.matches + 1
           sum == p.committed + Ranges[x.range].max
           q   == [p EXCEPT !["investors"] = i]
           r   == [q EXCEPT !["matches"] = m]
           s   == [r EXCEPT !["committed"] = sum]
<1>1. p = [n \in K |-> p[n]] /\ {p.id, p.ms} \subseteq Int /\ p.verified \in BOOLEAN
      /\ p.access \in {"open", "screened"}
  BY DEF IsSite, SiteFields
<1>2. /\ "investors" \in K /\ "matches" \in K \ {"investors"}
      /\ "committed" \in (K \ {"investors"}) \ {"matches"}
      /\ "investors" \in (K \ {"matches"}) \ {"committed"} /\ "matches" \in K \ {"committed"}
      /\ \A n \in {"id", "ms", "verified", "access"} :
           n \in K \ {"investors"} /\ n \in K \ {"matches"} /\ n \in K \ {"committed"}
  BY DEF SiteFields
<1>3. s = Contacted(p, x)
  BY DEF Contacted
<1> HIDE DEF K, i, m, sum
<1>4. q = [n \in K |-> q[n]] /\ q["investors"] = i /\ \A n \in K \ {"investors"} : q[n] = p[n]
  BY <1>1, <1>2, FieldChanged
<1> HIDE DEF q
<1>5. r = [n \in K |-> r[n]] /\ r["matches"] = m /\ \A n \in K \ {"matches"} : r[n] = q[n]
  BY <1>2, <1>4, FieldChanged
<1> HIDE DEF r
<1>6. s = [n \in K |-> s[n]] /\ s["committed"] = sum /\ \A n \in K \ {"committed"} : s[n] = r[n]
  BY <1>2, <1>5, FieldChanged
<1> HIDE DEF s
<1>7. s["investors"] = i /\ s["matches"] = m
  <2>1. "investors" \in K \ {"matches"} /\ "investors" \in K \ {"committed"}
    BY <1>2
  <2> QED BY <1>2, <1>4, <1>5, <1>6, <2>1, Zenon
<1>8. ASSUME NEW n \in {"id", "ms", "verified", "access"} PROVE s[n] = p[n]
  <2>1. n \in K \ {"investors"} /\ n \in K \ {"matches"} /\ n \in K \ {"committed"}
    BY <1>2
  <2> QED BY <1>4, <1>5, <1>6, <2>1, Zenon
<1>9. IsSite(s)
  <2>1. s.verified \in BOOLEAN
    BY <1>1, <1>8, Zenon
  <2>2. {s.id, s.ms} \subseteq Int
    BY <1>1, <1>8
  <2>3. s.access \in {"open", "screened"}
    BY <1>1, <1>8
  <2> QED BY <1>6, <2>1, <2>2, <2>3 DEF IsSite, SiteFields, K
<1>10. s.id = p.id
  BY <1>8
<1> QED BY <1>3, <1>6, <1>7, <1>9, <1>10 DEF i, m, sum

\* One project replaced by another of its id leaves as many projects, of the
\* same ids.
LEMMA OneSiteChanged ==
  ASSUME NEW S, IsFiniteSet(S), NEW p \in S, NEW r, IsSite(r), r.id = p.id,
         \A x \in S : IsSite(x) /\ \A y \in S : x.id = y.id => x = y
  PROVE  LET T == (S \ {p}) \cup {r}
         IN /\ IsFiniteSet(T) /\ {x.id : x \in T} = {x.id : x \in S}
            /\ \A x \in T : IsSite(x) /\ \A y \in T : x.id = y.id => x = y
<1> QED BY FS_AddElement, FS_RemoveElement

\* A proposal is counted by the project it is about, and by no other.
LEMMA CountersGrow ==
  ASSUME NEW s, IsSnapshot(s), NEW p \in s.projects, NEW t, NEW x, x \notin s.proposals,
         t.proposals = s.proposals \cup {x}, x.range \in DOMAIN Ranges, x.project = p.id
  PROVE  /\ CountersFit(t, Contacted(p, x))
         /\ \A r \in s.projects \ {p} : CountersFit(t, r)
<1> DEFINE own == ProposalsOf(s, p)
           c   == Contacted(p, x)
           v   == [y \in t.proposals |-> Ranges[y.range].max]
<1>1. /\ c.id = p.id /\ c.investors = p.investors + 1 /\ c.matches = p.matches + 1
      /\ c.committed = p.committed + Ranges[x.range].max
  BY ContactedSite DEF IsSnapshot
<1>2. /\ p.matches = Cardinality(own) /\ p.investors = p.matches
      /\ p.committed = Added(Part(Amounts(s), own))
  BY CountersCount
<1>3. /\ own \subseteq s.proposals /\ x \notin own /\ ProposalsOf(t, c) = own \cup {x}
      /\ own \in SUBSET t.proposals /\ x \in t.proposals \ own
  BY <1>1 DEF ProposalsOf
<1>4. IsFiniteSet(own) /\ IsFiniteSet(t.proposals)
  BY <1>3, FS_Subset, FS_AddElement DEF IsSnapshot
<1>5. v \in [t.proposals -> Nat] /\ v[x] = Ranges[x.range].max
  <2>1. ASSUME NEW y \in t.proposals PROVE Ranges[y.range].max \in Nat
    <3>1. y.range \in {"small", "large"}
      BY DEF IsSnapshot, Ranges
    <3> QED BY <3>1 DEF Ranges
  <2> QED BY <2>1
<1>6. Part(v, own) = Part(Amounts(s), own)
  BY <1>3 DEF Part, Amounts
<1>7. Part(v, own \cup {x}) = [y \in own \cup {x} |-> Ranges[y.range].max]
  BY <1>3 DEF Part
<1> HIDE DEF own, c, v
<1>8. Added(Part(v, own \cup {x})) = Added(Part(v, own)) + v[x]
  BY <1>3, <1>4, <1>5, AddedPart
<1>9. c.committed = Total([y \in own \cup {x} |-> Ranges[y.range].max])
  BY <1>1, <1>2, <1>5, <1>6, <1>7, <1>8, TotalIsAdded
<1>10. Cardinality(own \cup {x}) = Cardinality(own) + 1
  BY <1>3, <1>4, FS_AddElement
<1>11. CountersFit(t, c)
  BY <1>1, <1>2, <1>3, <1>9, <1>10 DEF CountersFit
<1>12. ASSUME NEW r \in s.projects \ {p} PROVE CountersFit(t, r)
  <2>1. r.id # p.id /\ CountersFit(s, r)
    BY DEF IsSnapshot
  <2>2. ProposalsOf(t, r) = ProposalsOf(s, r)
    BY <2>1 DEF ProposalsOf
  <2> QED BY <2>1, <2>2 DEF CountersFit
<1> QED BY <1>11, <1>12 DEF c

\* What happens at the server meanwhile leaves a snapshot: an event that is
\* recorded is about a project, a proposal is counted by its project, and a
\* probe changes no id and no counter.
LEMMA FiguresOfTheServer ==
  ASSUME FigureInv, Record \/ Propose \/ Probe PROVE FigureInv'
<1> DEFINE all == [projects |-> Sites, proposals |-> Entered, events |-> History \cup NewEvents,
                   today |-> Today]
<1>1. /\ IsSnapshot(all)
      /\ all.projects = Sites /\ all.events = History \cup NewEvents /\ all.today = Today
  BY ConsoleAssumption
<1> HIDE DEF all
<1>2. /\ \A e \in NewEvents : /\ IsEvent(e) /\ e.day <= Today /\ \E p \in Sites : p.id = e.project
      /\ \A x \in NewProposals : x.range \in DOMAIN Ranges
  BY <1>1, ConsoleAssumption DEF IsSnapshot
<1>3. /\ Server.projects = projects /\ Server.proposals = proposals /\ Server.events = events
      /\ Server.today = Today /\ Server'.today = Today
      /\ Server'.projects = projects' /\ Server'.proposals = proposals' /\ Server'.events = events'
  BY DEF Server
<1>4. /\ IsSnapshot(Server) /\ {p.id : p \in projects} = {p.id : p \in Sites}
  BY DEF FigureInv
<1>5. /\ IsFiniteSet(projects) /\ IsFiniteSet(proposals) /\ IsFiniteSet(events) /\ Today \in Int
      /\ \A p \in projects : IsSite(p) /\ \A r \in projects : p.id = r.id => p = r
      /\ \A x \in proposals : x.range \in DOMAIN Ranges /\ \E p \in projects : p.id = x.project
      /\ \A e \in events : IsEvent(e) /\ e.day <= Today /\ \E p \in projects : p.id = e.project
      /\ \A p \in projects : CountersFit(Server, p)
  BY <1>3, <1>4 DEF IsSnapshot
<1>6. ASSUME NEW ids, ids = {p.id : p \in projects}, {p.id : p \in projects'} = ids,
             IsFiniteSet(projects'), IsFiniteSet(proposals'), IsFiniteSet(events'),
             \A p \in projects' : IsSite(p) /\ \A r \in projects' : p.id = r.id => p = r,
             \A x \in proposals' : x.range \in DOMAIN Ranges /\ x.project \in ids,
             \A e \in events' : IsEvent(e) /\ e.day <= Today /\ e.project \in ids,
             \A p \in projects' : CountersFit(Server', p),
             UNCHANGED <<inputs, applied, fetch, cache, shown>>
      PROVE  FigureInv'
  <2>1. \A i \in ids : \E p \in projects' : p.id = i
    BY <1>6
  <2>2. IsSnapshot(Server')
    BY <1>3, <1>5, <1>6, <2>1 DEF IsSnapshot
  <2>3. {p.id : p \in projects'} = {p.id : p \in Sites}
    BY <1>4, <1>6
  <2> QED BY <1>6, <2>2, <2>3 DEF FigureInv
<1> DEFINE ids == {p.id : p \in projects}
<1>7. /\ \A x \in proposals : x.project \in ids
      /\ \A e \in events : e.project \in ids
      /\ \A e \in NewEvents : e.project \in ids
  <2>1. \A e \in NewEvents : e.project \in {p.id : p \in Sites}
    BY <1>2
  <2> QED BY <1>4, <1>5, <2>1
<1>8. CASE Record
  <2>1. PICK e \in NewEvents : events' = events \cup {e}
    BY <1>8 DEF Record
  <2>2. UNCHANGED <<projects, proposals, inputs, applied, fetch, cache, shown>>
    BY <1>8 DEF Record, bundle
  <2>3. IsFiniteSet(events')
    BY <1>5, <2>1, FS_AddElement
  <2>4. \A f \in events' : IsEvent(f) /\ f.day <= Today /\ f.project \in ids
    BY <1>2, <1>5, <1>7, <2>1
  <2>5. \A p \in projects' : CountersFit(Server', p)
    BY <1>3, <1>5, <2>2, CountersFollow
  <2> HIDE DEF ids
  <2>6. {p.id : p \in projects'} = ids /\ \A x \in proposals' : x.range \in DOMAIN Ranges /\ x.project \in ids
    BY <1>5, <1>7, <2>2 DEF ids
  <2>7. /\ IsFiniteSet(projects') /\ IsFiniteSet(proposals')
        /\ \A p \in projects' : IsSite(p) /\ \A r \in projects' : p.id = r.id => p = r
    BY <1>5, <2>2
  <2> QED BY <1>6, <2>2, <2>3, <2>4, <2>5, <2>6, <2>7 DEF ids
<1>9. CASE Propose
  <2>1. PICK x \in NewProposals \ proposals, p \in projects :
          /\ x.project = p.id
          /\ proposals' = proposals \cup {x}
          /\ projects' = (projects \ {p}) \cup {Contacted(p, x)}
          /\ events' = events \cup {MatchEvent(x)}
          /\ UNCHANGED <<reported, inputs, applied, open, filters, bundle, work>>
    BY <1>9 DEF Propose
  <2> DEFINE c == Contacted(p, x)
  <2>2. IsSite(c) /\ c.id = p.id
    BY <1>5, <2>1, ContactedSite
  <2>3. CountersFit(Server', c) /\ \A r \in projects \ {p} : CountersFit(Server', r)
    BY <1>2, <1>3, <1>4, <2>1, CountersGrow
  <2>4. projects' = (projects \ {p}) \cup {c}
    BY <2>1
  <2>5. MatchEvent(x).project = p.id /\ IsEvent(MatchEvent(x)) /\ MatchEvent(x).day <= Today
    BY <1>5, <2>1 DEF MatchEvent, IsEvent, EventTypes
  <2> HIDE DEF c
  <2>6. /\ IsFiniteSet(projects') /\ {r.id : r \in projects'} = ids
        /\ \A r \in projects' : IsSite(r) /\ \A y \in projects' : r.id = y.id => r = y
    BY <1>5, <2>1, <2>2, <2>4, OneSiteChanged
  <2>7. p.id \in ids
    BY <2>1
  <2> HIDE DEF ids
  <2>8. IsFiniteSet(proposals') /\ IsFiniteSet(events')
    BY <1>5, <2>1, FS_AddElement
  <2>9. /\ \A y \in proposals' : y.range \in DOMAIN Ranges /\ y.project \in ids
        /\ \A e \in events' : IsEvent(e) /\ e.day <= Today /\ e.project \in ids
    BY <1>2, <1>5, <1>7, <2>1, <2>5, <2>7
  <2>10. \A r \in projects' : CountersFit(Server', r)
    BY <2>3, <2>4
  <2>11. UNCHANGED <<inputs, applied, fetch, cache, shown>>
    BY <2>1 DEF bundle
  <2> QED BY <1>6, <2>6, <2>8, <2>9, <2>10, <2>11 DEF ids
<1>10. CASE Probe
  <2>1. PICK p \in projects :
          /\ p.id \in Unsteady /\ p.verified
          /\ projects' = (projects \ {p}) \cup {Failed(p)}
          /\ UNCHANGED <<proposals, events, reported, inputs, applied, open, filters, bundle, work>>
    BY <1>10 DEF Probe, Failed
  <2> DEFINE r == Failed(p)
  <2>2. /\ IsSite(r) /\ r.id = p.id /\ r.investors = p.investors /\ r.matches = p.matches
        /\ r.committed = p.committed
    BY <1>5, <2>1, ProbedSite
  <2>3. projects' = (projects \ {p}) \cup {r}
    BY <2>1
  <2> HIDE DEF r
  <2>4. /\ IsFiniteSet(projects') /\ {x.id : x \in projects'} = ids
        /\ \A x \in projects' : IsSite(x) /\ \A y \in projects' : x.id = y.id => x = y
    BY <1>5, <2>1, <2>2, <2>3, OneSiteChanged
  <2>5. UNCHANGED <<proposals, events, inputs, applied, fetch, cache, shown>>
    BY <2>1 DEF bundle
  <2>6. \A x \in projects' : CountersFit(Server', x)
    <3>1. CountersFit(Server', r)
      BY <1>3, <1>5, <2>1, <2>2, <2>5, CountersFollow
    <3>2. \A x \in projects : CountersFit(Server', x)
      BY <1>3, <1>5, <2>5, CountersFollow
    <3> QED BY <2>3, <3>1, <3>2
  <2> HIDE DEF ids
  <2>7. /\ IsFiniteSet(proposals') /\ IsFiniteSet(events')
        /\ \A x \in proposals' : x.range \in DOMAIN Ranges /\ x.project \in ids
        /\ \A e \in events' : IsEvent(e) /\ e.day <= Today /\ e.project \in ids
    BY <1>5, <1>7, <2>5
  <2> QED BY <1>6, <2>4, <2>5, <2>6, <2>7 DEF ids
<1> QED BY <1>8, <1>9, <1>10

LEMMA FiguresElsewhere ==
  ASSUME FigureInv,
         \/ Debounce \/ SwitchView \/ MarketShown \/ Moderate \/ ModerationServed
         \/ ModerationArrives \/ AuditArrives \/ ModerationEnds \/ ModerationFails
  PROVE  FigureInv'
<1>1. CASE Debounce
  BY <1>1, FiguresAtARender DEF Debounce, server, FigureInv
<1>2. CASE SwitchView
  BY <1>2, FiguresAtARender DEF SwitchView, server, FigureInv
<1>3. CASE MarketShown
  <2>1. shown' = <<>> /\ UNCHANGED <<projects, proposals, events, inputs, applied, cache, fetch>> /\ Server' = Server
    BY <1>3 DEF MarketShown, server, Server
  <2> QED BY <2>1 DEF FigureInv
<1>4. CASE Moderate \/ ModerationServed \/ ModerationArrives \/ ModerationEnds \/ ModerationFails
  <2>1. UNCHANGED <<projects, proposals, events, inputs, applied, cache, fetch, shown>> /\ Server' = Server
    BY <1>4 DEF Moderate, ModerationServed, ModerationArrives, ModerationEnds, ModerationFails,
                server, bundle, Server
  <2> QED BY <2>1 DEF FigureInv
<1>5. CASE AuditArrives
  <2>1. /\ fetch' = Started(applied) \/ fetch' = fetch
        /\ UNCHANGED <<projects, proposals, events, inputs, applied, cache, shown>> /\ Server' = Server
    BY <1>5 DEF AuditArrives, server, Server
  <2>2. FetchOK(fetch')
    BY <2>1, NothingCame DEF FigureInv
  <2> QED BY <2>1, <2>2 DEF FigureInv
<1> QED BY <1>1, <1>2, <1>3, <1>4, <1>5

(* The inputs are numbers, however they were typed, observed, chosen or read   *)
(* back; everything that is kept or shown was computed from a snapshot of the *)
(* projects, proposals and events, for a query that the server accepted.      *)
THEOREM FiguresInvariance == ConsoleSpec => []FigureInv
<1>1. FigureInv /\ [ConsoleNext]_consoleVars => FigureInv'
  <2> SUFFICES ASSUME FigureInv, [ConsoleNext]_consoleVars PROVE FigureInv'
    OBVIOUS
  <2>1. CASE Operator
    BY <2>1, EditsAreInputs, FiguresAtAdvice, FiguresAtAReload, FiguresElsewhere DEF Operator
  <2>2. CASE World
    BY <2>2, FiguresOfTheBundle, FiguresOfTheServer, FiguresElsewhere DEF World
  <2>3. CASE Client
    BY <2>3, FiguresOfTheBundle, FiguresElsewhere DEF Client
  <2>4. CASE UNCHANGED consoleVars
    BY <2>4 DEF consoleVars, server, bundle, Server, FigureInv
  <2> QED BY <2>1, <2>2, <2>3, <2>4 DEF ConsoleNext
<1> QED BY <1>1, FiguresAtTheStart, PTL DEF ConsoleSpec

(* A reload leads out of every state in which the server refuses the inputs:  *)
(* what it reads back is in the ranges that the server accepts, whatever the  *)
(* operator typed before.                                                     *)
THEOREM ReloadRepairs == ConsoleSpec => ReloadRepairsTheQuery
<1>1. FigureInv => [Reload => AcceptedQuery(applied')]_consoleVars
  BY FiguresAtAReload
<1> QED BY <1>1, FiguresInvariance, PTL DEF ReloadRepairsTheQuery

(* Whatever the console comes to show, its panels do not contradict one        *)
(* another: distributions, totals, lists, counters, the progress bar, the     *)
(* benchmarks and the scenarios, for every snapshot of any projects, proposals *)
(* and events and every query that the server accepts.                        *)
THEOREM ConsoleTellsOneStory == ConsoleSpec => ConsoleAgrees
<1>1. FigureInv' => (shown' # <<>> => /\ DashboardAgrees(shown'[1].dashboard)
                                      /\ ProjectionAgrees(shown'[1].revenue))
  <2> SUFFICES ASSUME FigureInv', shown' # <<>>
               PROVE  DashboardAgrees(shown'[1].dashboard) /\ ProjectionAgrees(shown'[1].revenue)
    OBVIOUS
  <2>1. BundleOK(shown'[1])
    BY DEF FigureInv
  <2> QED BY <2>1, OneStory, OneProjection DEF BundleOK
<1>2. FigureInv' => [(shown' # shown /\ shown' # <<>>) =>
        LET d == shown'[1].dashboard
            r == shown'[1].revenue
        IN /\ d \in AgreeingSnapshots \/ DashboardAgrees(d)
           /\ r \in AgreeingProjections \/ ProjectionAgrees(r)]_consoleVars
  BY <1>1
<1> QED BY <1>2, FiguresInvariance, PTL DEF ConsoleAgrees
=============================================================================
