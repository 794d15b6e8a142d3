------------------------------ MODULE Community ------------------------------
(***************************************************************************)
(* CommunityService of apps/api: discussion threads under a project, one   *)
(* level of replies, image attachments, moderation, forbidden terms, and   *)
(* private messages between a maker and the people interested in a project.*)
(*                                                                         *)
(* Every operation is one synchronous step: the awaits in createThread and *)
(* sendMessage are on projects held in memory.  Arrays searched by id are  *)
(* sets of records.  A text is the set of words it contains that are worth *)
(* forbidding; an image is a flag, whether its data is still there.        *)
(* Moderation notes, names and times are left out.                         *)
(***************************************************************************)
EXTENDS Integers, FiniteSets

CONSTANTS
  Projects, Members,
  Owner,        \* project -> the maker who owns it
  Role,         \* member -> role
  Words,        \* normalised words an admin may forbid
  SeedThreads,  \* the threads the store holds at boot
  Nobody,       \* null, where hiddenBy and removedBy have no member
  PerTarget,    \* ATTACHMENTS_PER_TARGET
  MaxRecords,   \* bound: threads, comments, messages and terms created
  MaxImages     \* bound: images ever attached

ASSUME OwnerAssumption == Owner \in [Projects -> Members]
ASSUME RoleAssumption == Role \in [Members -> {"admin", "maker", "investor", "member"}]
ASSUME NobodyAssumption == Nobody \notin Members

VARIABLES
  threads, comments, attachments, conversations, messages, forbiddenTerms,
  nextId,       \* the six counters
  seen          \* <<member, message id>> ever answered (history)

board == <<threads, comments, attachments>>
mail == <<conversations, messages, seen>>
vars == <<threads, comments, attachments, conversations, messages,
          forbiddenTerms, nextId, seen>>

Text == SUBSET Words
Thread == [id : Nat, project : Projects, author : Members, text : Text,
           status : {"visible", "hidden"}, hiddenBy : Members \cup {Nobody}]
Scopes == {"all", "discussion", "message"}
ASSUME SeedAssumption ==
  /\ SeedThreads \in SUBSET Thread /\ IsFiniteSet(SeedThreads)
  /\ {t.id : t \in SeedThreads} = 1 .. Cardinality(SeedThreads)

Admins == {m \in Members : Role[m] = "admin"}

Init ==
  /\ threads = SeedThreads
  /\ comments = {}
  /\ attachments = {}
  /\ conversations = {}
  /\ messages = {}
  /\ forbiddenTerms = {}
  /\ nextId = [thread |-> Cardinality(SeedThreads) + 1, comment |-> 1, attachment |-> 1,
               conversation |-> 1, message |-> 1, term |-> 1]
  /\ seen = {}

MayCreate ==
  nextId.thread + nextId.comment + nextId.message + nextId.term 
    < MaxRecords + 4 + Cardinality(SeedThreads)

\* validateAttachmentPayloads: at most PerTarget images with one post.
ImageCounts == {n \in 0 .. PerTarget : nextId.attachment + n <= MaxImages + 1}

\* Replace a record of a set by a changed one.
With(set, old, new) == (set \ {old}) \cup {new}

------------------------------------------------------------------------------
(* Forbidden terms.                                                        *)

Active(scope) ==
  {t.word : t \in {x \in forbiddenTerms : x.enabled /\ x.scope \in {"all", scope}}}

\* Mutant of AllowedContent: a term of scope "all" applies to messages only.
AllowedContentExactScope(scope, fields) ==
  \A f \in fields : \A t \in forbiddenTerms :
    t.enabled /\ t.scope = scope => t.word \notin f

\* assertAllowedContent: each field is searched for every active term.
AllowedContent(scope, fields) == \A f \in fields : f \cap Active(scope) = {}

Duplicate(word, scope, ignored) ==
  \E t \in forbiddenTerms : t \notin ignored /\ t.word = word /\ t.scope = scope

CreateForbiddenTerm(word, scope) ==
  /\ MayCreate
  /\ ~Duplicate(word, scope, {})
  /\ forbiddenTerms' = forbiddenTerms \cup
       {[id |-> nextId.term, word |-> word, scope |-> scope, enabled |-> TRUE]}
  /\ nextId' = [nextId EXCEPT !.term = @ + 1]
  /\ UNCHANGED <<board, mail>>

\* The other terms are compared even when only `enabled' changes.
UpdateForbiddenTerm(t, word, scope, enabled) ==
  /\ ~Duplicate(word, scope, {t})
  /\ forbiddenTerms' =
       With(forbiddenTerms, t, [t EXCEPT !.word = word, !.scope = scope, !.enabled = enabled])
  /\ UNCHANGED <<board, mail, nextId>>

DeleteForbiddenTerm(t) ==
  /\ forbiddenTerms' = forbiddenTerms \ {t}
  /\ UNCHANGED <<board, mail, nextId>>

------------------------------------------------------------------------------
(* Discussions.                                                            *)

AttachmentsFor(type, target) ==
  {a \in attachments : a.type = type /\ a.target = target}

\* appendAttachments: n images for a new thread or comment.
Appended(type, target, project, n) ==
  attachments \cup
    {[id |-> nextId.attachment + i, type |-> type, target |-> target,
      project |-> project, data |-> TRUE, removedBy |-> Nobody] : i \in 0 .. n - 1}

CreateThread(p, m, title, body, n) ==
  /\ MayCreate
  /\ AllowedContent("discussion", {title, body})
  /\ threads' = threads \cup
       {[id |-> nextId.thread, project |-> p, author |-> m, text |-> title \cup body,
         status |-> "visible", hiddenBy |-> Nobody]}
  /\ attachments' = Appended("thread", nextId.thread, p, n)
  /\ nextId' = [nextId EXCEPT !.thread = @ + 1, !.attachment = @ + n]
  /\ UNCHANGED <<comments, mail, forbiddenTerms>>

HideOwnThread(t, m) ==
  /\ t.author = m
  /\ threads' = With(threads, t, [t EXCEPT !.status = "hidden", !.hiddenBy = m])
  /\ UNCHANGED <<comments, attachments, mail, forbiddenTerms, nextId>>

\* parent = 0 is a root comment; a deleted comment may still be replied to.
AddComment(t, m, body, parent, n) ==
  /\ MayCreate
  /\ t.status # "hidden"
  /\ AllowedContent("discussion", {body})
  /\ parent # 0 => \E c \in comments : c.id = parent /\ c.thread = t.id /\ c.parent = 0
  /\ comments' = comments \cup
       {[id |-> nextId.comment, thread |-> t.id, parent |-> parent, author |-> m,
         text |-> body, status |-> "visible"]}
  /\ attachments' = Appended("comment", nextId.comment, t.project, n)
  /\ nextId' = [nextId EXCEPT !.comment = @ + 1, !.attachment = @ + n]
  /\ UNCHANGED <<threads, mail, forbiddenTerms>>

\* Mutant of StrippedOf: records are not touched.
StrippedOfNothing(type, target, m) == attachments

\* removeAttachmentsOf: whoever removed an image first stays in the record.
StrippedOf(type, target, m) ==
  {IF a.type = type /\ a.target = target /\ a.removedBy = Nobody
   THEN [a EXCEPT !.data = FALSE, !.removedBy = m] ELSE a : a \in attachments}

\* The author or an admin, also in a hidden thread, also a second time.
DeleteComment(c, m) ==
  /\ c.author = m \/ m \in Admins
  /\ comments' = With(comments, c, [c EXCEPT !.status = "deleted", !.text = {}])
  /\ attachments' = StrippedOf("comment", c.id, m)
  /\ UNCHANGED <<threads, mail, forbiddenTerms, nextId>>

ModerateThread(t, action, m) ==
  /\ m \in Admins
  /\ threads' = With(threads, t,
       IF action = "hide" THEN [t EXCEPT !.status = "hidden", !.hiddenBy = m]
                          ELSE [t EXCEPT !.status = "visible", !.hiddenBy = Nobody])
  /\ UNCHANGED <<comments, attachments, mail, forbiddenTerms, nextId>>

\* Mutant of EraseThread: the images of the comments are forgotten.
EraseThreadOnly(t, m) ==
  /\ m \in Admins
  /\ threads' = threads \ {t}
  /\ comments' = {c \in comments : c.thread # t.id}
  /\ attachments' = {a \in attachments : ~(a.type = "thread" /\ a.target = t.id)}
  /\ UNCHANGED <<mail, forbiddenTerms, nextId>>

\* moderateThread with action "delete": the thread, its comments, their images.
EraseThread(t, m) ==
  /\ m \in Admins
  /\ threads' = threads \ {t}
  /\ comments' = {c \in comments : c.thread # t.id}
  /\ attachments' = attachments \
       (AttachmentsFor("thread", t.id) \cup
        UNION {AttachmentsFor("comment", c.id) : c \in {x \in comments : x.thread = t.id}})
  /\ UNCHANGED <<mail, forbiddenTerms, nextId>>

RemoveAttachment(a, m) ==
  /\ m \in Admins
  /\ attachments' = With(attachments, a, [a EXCEPT !.data = FALSE, !.removedBy = m])
  /\ UNCHANGED <<threads, comments, mail, forbiddenTerms, nextId>>

------------------------------------------------------------------------------
(* Messages.                                                               *)

Participant(v, m) == m \in {v.maker, v.investor}
ConversationOf(msg) == CHOOSE v \in conversations : v.id = msg.conversation

\* Mutant of MarkedRead: everything in the conversation.
MarkedReadAll(v, m) ==
  {IF x.conversation = v.id THEN [x EXCEPT !.read = TRUE] ELSE x : x \in messages}

\* The messages of a conversation after one of its participants looked at it.
MarkedRead(v, m) ==
  {IF x.conversation = v.id /\ x.sender # m THEN [x EXCEPT !.read = TRUE] ELSE x :
     x \in messages}

GetConversationMessages(v, m) ==
  /\ Participant(v, m)
  /\ messages' = MarkedRead(v, m)
  /\ seen' = seen \cup {<<m, x.id>> : x \in {y \in messages : y.conversation = v.id}}
  /\ UNCHANGED <<board, conversations, forbiddenTerms, nextId>>

Message(v, m, body) ==
  [id |-> nextId.message, conversation |-> v, sender |-> m, text |-> body, read |-> FALSE]

Reply(v, m, body) ==
  /\ MayCreate
  /\ AllowedContent("message", {body})
  /\ Participant(v, m)
  /\ messages' = messages \cup {Message(v.id, m, body)}
  /\ nextId' = [nextId EXCEPT !.message = @ + 1]
  /\ UNCHANGED <<board, conversations, seen, forbiddenTerms>>

Existing(p, m) == {v \in conversations : v.project = p /\ v.investor = m}

\* sendMessage with a projectId: find or create the conversation.
Begin(p, m, body) ==
  /\ MayCreate
  /\ AllowedContent("message", {body})
  /\ Role[m] \in {"investor", "member"}
  /\ Owner[p] # m
  /\ nextId' = [nextId EXCEPT !.message = @ + 1,
                  !.conversation = @ + (IF Existing(p, m) = {} THEN 1 ELSE 0)]
  /\ \/ /\ Existing(p, m) = {}
        /\ conversations' = conversations \cup
             {[id |-> nextId.conversation, project |-> p, maker |-> Owner[p], investor |-> m]}
        /\ messages' = messages \cup {Message(nextId.conversation, m, body)}
     \/ \E v \in Existing(p, m) :
          /\ messages' = messages \cup {Message(v.id, m, body)}
          /\ UNCHANGED conversations
  /\ UNCHANGED <<board, seen, forbiddenTerms>>

------------------------------------------------------------------------------
Discuss(m) ==
  \/ \E p \in Projects, title, body \in Text, n \in ImageCounts :
       CreateThread(p, m, title, body, n)
  \/ \E t \in threads : HideOwnThread(t, m)
  \/ \E t \in threads, body \in Text, n \in ImageCounts :
       \E parent \in {0} \cup {c.id : c \in comments} : AddComment(t, m, body, parent, n)
  \/ \E c \in comments : DeleteComment(c, m)

Moderate(m) ==
  \/ \E t \in threads, action \in {"hide", "restore"} : ModerateThread(t, action, m)
  \/ \E t \in threads : EraseThread(t, m)
  \/ \E a \in attachments : RemoveAttachment(a, m)

Forbid ==
  \/ \E w \in Words, s \in Scopes : CreateForbiddenTerm(w, s)
  \/ \E t \in forbiddenTerms, w \in Words, s \in Scopes, e \in BOOLEAN :
       UpdateForbiddenTerm(t, w, s, e)
  \/ \E t \in forbiddenTerms : DeleteForbiddenTerm(t)

Correspond(m) ==
  \/ \E v \in conversations : GetConversationMessages(v, m)
  \/ \E v \in conversations, body \in Text : Reply(v, m, body)
  \/ \E p \in Projects, body \in Text : Begin(p, m, body)

Next ==
  \/ Forbid
  \/ \E m \in Members : Discuss(m) \/ Moderate(m) \/ Correspond(m)

Spec == Init /\ [][Next]_vars

------------------------------------------------------------------------------
(* Answers.                                                                *)

CommentsOf(t) == {c \in comments : c.thread = t.id}

\* toThreadSummary.attachmentCount
AttachmentCount(t) ==
  Cardinality({a \in attachments :
    /\ a.removedBy = Nobody
    /\ \/ a.type = "thread" /\ a.target = t.id
       \/ a.type = "comment" /\ \E c \in CommentsOf(t) :
                                  c.id = a.target /\ c.status = "visible"})

\* getThreadDetail: every image answered with the thread and its comments.
DetailAttachments(t) ==
  AttachmentsFor("thread", t.id) \cup
    UNION {AttachmentsFor("comment", c.id) : c \in {x \in CommentsOf(t) : x.status # "hidden"}}

------------------------------------------------------------------------------
(* Properties.                                                             *)

\* Types of the records.
TypeOK ==
  /\ threads \in SUBSET Thread
  /\ comments \in SUBSET [id : Nat, thread : Nat, parent : Nat, author : Members,
                          text : Text, status : {"visible", "deleted"}]
  /\ attachments \in SUBSET [id : Nat, type : {"thread", "comment"}, target : Nat,
                             project : Projects, data : BOOLEAN,
                             removedBy : Members \cup {Nobody}]
  /\ conversations \in SUBSET [id : Nat, project : Projects, maker : Members,
                               investor : Members]
  /\ messages \in SUBSET [id : Nat, conversation : Nat, sender : Members, text : Text,
                          read : BOOLEAN]
  /\ forbiddenTerms \in SUBSET [id : Nat, word : Words, scope : Scopes, enabled : BOOLEAN]
  /\ nextId \in [{"thread", "comment", "attachment", "conversation", "message", "term"} -> Nat]
  /\ seen \in SUBSET (Members \X Nat)

\* After any moderation nothing points to a record that is gone: a comment has
\* its thread, a reply a root comment of the same thread, an image its post.
NoOrphans ==
  /\ \A c \in comments :
       /\ \E t \in threads : t.id = c.thread
       /\ c.parent # 0 =>
            \E r \in comments : r.id = c.parent /\ r.thread = c.thread /\ r.parent = 0
  /\ \A a \in attachments :
       IF a.type = "thread"
       THEN \E t \in threads : t.id = a.target /\ t.project = a.project
       ELSE \E c \in comments, t \in threads :
              c.id = a.target /\ t.id = c.thread /\ t.project = a.project

\* The number of images in the list of threads is the number of images with
\* data that the thread's page receives; in particular none of a deleted comment.
CountsWhatIsShown ==
  \A t \in threads :
    AttachmentCount(t) = Cardinality({a \in DetailAttachments(t) : a.data})

\* A word forbidden at the moment is in no thread, comment or message published
\* at that moment, whatever scope the term has.
NothingForbiddenPublished ==
  [][/\ \A x \in threads' : (\A y \in threads : y.id # x.id)
                              => x.text \cap Active("discussion") = {}
     /\ \A x \in comments' : (\A y \in comments : y.id # x.id)
                               => x.text \cap Active("discussion") = {}
     /\ \A x \in messages' : (\A y \in messages : y.id # x.id)
                               => x.text \cap Active("message") = {}]_vars

\* community.models.ts:74: one conversation per project and investor; and a
\* message of an investor about a project goes to that project's maker.
OneConversation ==
  /\ \A v, w \in conversations :
       v.project = w.project /\ v.investor = w.investor => v = w
  /\ \A v \in conversations : v.maker = Owner[v.project] /\ v.maker # v.investor

\* A message is marked read exactly when the participant who did not send it
\* has been answered with it.
ReadMeansSeen ==
  \A x \in messages :
    LET v == ConversationOf(x) IN
    /\ Participant(v, x.sender)
    /\ x.read <=> \E m \in {v.maker, v.investor} \ {x.sender} : <<m, x.id>> \in seen
==============================================================================
