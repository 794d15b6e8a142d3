--------------------------- MODULE CommunityProofs ---------------------------
(***************************************************************************)
(* Proofs about Community, for any projects, members, words and threads at *)
(* boot, and about Market, for any projects with their makers, any presets *)
(* and anything the controls offer; both for any bounds.                   *)
(***************************************************************************)
EXTENDS Community, Market, FiniteFacts, FiniteSetTheorems, TLAPS

(* The inductive invariant: the safety properties, and what they rest on.   *)

\* An image has its data until somebody removes it.
DataUntilRemoved == \A a \in attachments : a.data <=> a.removedBy = Nobody

\* The images of a deleted comment are removed.
DeletedAreStripped ==
  \A c \in comments, a \in attachments :
    c.status = "deleted" /\ a.type = "comment" /\ a.target = c.id => a.removedBy # Nobody

\* No identifier is given twice.
CommentsNumbered == \A c \in comments : c.id < nextId.comment

ConversationsNumbered ==
  /\ \A v \in conversations : v.id < nextId.conversation
  /\ \A v, w \in conversations : v.id = w.id => v = w

MessagesNumbered ==
  /\ \A x \in messages : x.id < nextId.message
  /\ \A x, y \in messages : x.id = y.id => x = y
  /\ \A s \in seen : s[2] < nextId.message

\* A message lies in a conversation that exists.
MessagesLie == \A x \in messages : \E v \in conversations : v.id = x.conversation

\* ReadMeansSeen, of every conversation with the number of the message's.
ReadWhenSeen(x, v) ==
  /\ Participant(v, x.sender)
  /\ x.read <=> \E m \in {v.maker, v.investor} \ {x.sender} : <<m, x.id>> \in seen

MessagesRead ==
  \A x \in messages, v \in conversations : v.id = x.conversation => ReadWhenSeen(x, v)

BoardInv == NoOrphans /\ DataUntilRemoved /\ DeletedAreStripped /\ CommentsNumbered

MailInv ==
  ConversationsNumbered /\ MessagesNumbered /\ MessagesLie /\ OneConversation /\ MessagesRead

CInv == TypeOK /\ BoardInv /\ MailInv

------------------------------------------------------------------------------
(* Types.                                                                   *)

CommentRecord == [id : Nat, thread : Nat, parent : Nat, author : Members,
                  text : Text, status : {"visible", "deleted"}]
ImageRecord == [id : Nat, type : {"thread", "comment"}, target : Nat, project : Projects,
                data : BOOLEAN, removedBy : Members \cup {Nobody}]
ConversationRecord == [id : Nat, project : Projects, maker : Members, investor : Members]
MessageRecord == [id : Nat, conversation : Nat, sender : Members, text : Text, read : BOOLEAN]
TermRecord == [id : Nat, word : Words, scope : Scopes, enabled : BOOLEAN]
Counters == [{"thread", "comment", "attachment", "conversation", "message", "term"} -> Nat]

LEMMA Types ==
  TypeOK <=> /\ threads \in SUBSET Thread
             /\ comments \in SUBSET CommentRecord
             /\ attachments \in SUBSET ImageRecord
             /\ conversations \in SUBSET ConversationRecord
             /\ messages \in SUBSET MessageRecord
             /\ forbiddenTerms \in SUBSET TermRecord
             /\ nextId \in Counters
             /\ seen \in SUBSET (Members \X Nat)
BY DEF TypeOK, CommentRecord, ImageRecord, ConversationRecord, MessageRecord, TermRecord, Counters

LEMMA WithType ==
  ASSUME NEW R, NEW set \in SUBSET R, NEW old, NEW new \in R
  PROVE  With(set, old, new) \in SUBSET R
BY DEF With

LEMMA TwoCounters ==
  ASSUME NEW D, NEW fn \in [D -> Nat], NEW a \in D, NEW b \in D, NEW x \in Nat, NEW y \in Nat
  PROVE  [fn EXCEPT ![a] = x, ![b] = y] \in [D -> Nat]
<1> DEFINE g == [fn EXCEPT ![a] = x]
<1>1. g \in [D -> Nat]
  OBVIOUS
<1> HIDE DEF g
<1>2. [g EXCEPT ![b] = y] \in [D -> Nat]
  BY <1>1
<1>3. [fn EXCEPT ![a] = x, ![b] = y] = [g EXCEPT ![b] = y]
  BY Zenon DEF g
<1> QED BY <1>2, <1>3

\* The counters only grow, and each operation moves the ones of its records.
LEMMA CountersStep ==
  ASSUME TypeOK, NEW n \in Nat
  PROVE  /\ [nextId EXCEPT !.thread = @ + 1, !.attachment = @ + n] \in Counters
         /\ [nextId EXCEPT !.comment = @ + 1, !.attachment = @ + n] \in Counters
         /\ [nextId EXCEPT !.message = @ + 1] \in Counters
         /\ \A k \in {0, 1} :
              [nextId EXCEPT !.message = @ + 1, !.conversation = @ + k] \in Counters
         /\ [nextId EXCEPT !.term = @ + 1] \in Counters
<1> DEFINE D == {"thread", "comment", "attachment", "conversation", "message", "term"}
<1>1. nextId \in [D -> Nat]
  BY Types DEF Counters
<1>2. "thread" \in D /\ "comment" \in D /\ "attachment" \in D /\ "conversation" \in D
      /\ "message" \in D /\ "term" \in D
  OBVIOUS
<1>3. \A d \in D : /\ nextId[d] + 1 \in Nat /\ nextId[d] + n \in Nat
                  /\ \A k \in {0, 1} : nextId[d] + k \in Nat
  BY <1>1
<1>4. Counters = [D -> Nat]
  BY DEF Counters
<1> HIDE DEF D
<1>5. [nextId EXCEPT !.thread = @ + 1, !.attachment = @ + n] \in [D -> Nat]
  BY <1>1, <1>2, <1>3, TwoCounters, Zenon
<1>6. [nextId EXCEPT !.comment = @ + 1, !.attachment = @ + n] \in [D -> Nat]
  BY <1>1, <1>2, <1>3, TwoCounters, Zenon
<1>7. [nextId EXCEPT !.message = @ + 1] \in [D -> Nat]
  BY <1>1, <1>2
<1>8. ASSUME NEW k \in {0, 1}
      PROVE  [nextId EXCEPT !.message = @ + 1, !.conversation = @ + k] \in [D -> Nat]
  BY <1>1, <1>2, <1>3, TwoCounters, Zenon
<1>9. [nextId EXCEPT !.term = @ + 1] \in [D -> Nat]
  BY <1>1, <1>2
<1> QED BY <1>4, <1>5, <1>6, <1>7, <1>8, <1>9

LEMMA TypeInit == Init => TypeOK
<1> SUFFICES ASSUME Init PROVE TypeOK
  OBVIOUS
<1>1. Cardinality(SeedThreads) \in Nat
  BY SeedAssumption, FS_CardinalityType
<1>2. nextId \in Counters
  BY <1>1 DEF Init, Counters
<1> QED BY <1>2, SeedAssumption, Types DEF Init

LEMMA AppendedType ==
  ASSUME TypeOK, NEW type \in {"thread", "comment"}, NEW target \in Nat,
         NEW p \in Projects, NEW n \in Nat
  PROVE  Appended(type, target, p, n) \in SUBSET ImageRecord
<1> DEFINE new(i) == [id |-> nextId.attachment + i, type |-> type, target |-> target,
                      project |-> p, data |-> TRUE, removedBy |-> Nobody]
<1>1. nextId.attachment \in Nat /\ attachments \in SUBSET ImageRecord
  BY Types DEF Counters
<1>2. ASSUME NEW i \in 0 .. n - 1 PROVE new(i) \in ImageRecord
  BY <1>1 DEF ImageRecord
<1> QED BY <1>1, <1>2 DEF Appended

LEMMA StrippedType ==
  ASSUME TypeOK, NEW type, NEW target, NEW m \in Members
  PROVE  StrippedOf(type, target, m) \in SUBSET ImageRecord
<1>1. attachments \in SUBSET ImageRecord
  BY Types
<1>2. ASSUME NEW a \in attachments
      PROVE  [a EXCEPT !.data = FALSE, !.removedBy = m] \in ImageRecord
  BY <1>1 DEF ImageRecord
<1> QED BY <1>1, <1>2 DEF StrippedOf

LEMMA TypeOfDiscuss ==
  ASSUME TypeOK, NEW m \in Members, Discuss(m)
  PROVE  TypeOK'
<1>0. /\ nextId.thread \in Nat /\ nextId.comment \in Nat
      /\ threads \in SUBSET Thread /\ comments \in SUBSET CommentRecord
  BY Types DEF Counters
<1>1. ASSUME NEW p \in Projects, NEW title \in Text, NEW body \in Text,
             NEW n \in ImageCounts, CreateThread(p, m, title, body, n)
      PROVE  TypeOK'
  <2> DEFINE t == [id |-> nextId.thread, project |-> p, author |-> m, text |-> title \cup body,
                   status |-> "visible", hiddenBy |-> Nobody]
  <2>1. n \in Nat
    BY DEF ImageCounts
  <2>2. t \in Thread
    BY <1>0 DEF Thread, Text
  <2>3. threads' \in SUBSET Thread
    BY <1>0, <1>1, <2>2 DEF CreateThread
  <2>4. attachments' \in SUBSET ImageRecord
    BY <1>0, <1>1, <2>1, AppendedType DEF CreateThread
  <2>5. nextId' \in Counters
    BY <1>1, <2>1, CountersStep DEF CreateThread
  <2> QED BY <1>1, <2>3, <2>4, <2>5 DEF CreateThread, mail, TypeOK, ImageRecord, Counters
<1>2. ASSUME NEW t \in threads, HideOwnThread(t, m) PROVE TypeOK'
  <2>1. [t EXCEPT !.status = "hidden", !.hiddenBy = m] \in Thread
    BY <1>0 DEF Thread
  <2>2. threads' \in SUBSET Thread
    BY <1>0, <1>2, <2>1, WithType DEF HideOwnThread
  <2> QED BY <1>2, <2>2 DEF HideOwnThread, mail, TypeOK
<1>3. ASSUME NEW t \in threads, NEW body \in Text, NEW n \in ImageCounts,
             NEW parent \in {0} \cup {c.id : c \in comments}, AddComment(t, m, body, parent, n)
      PROVE  TypeOK'
  <2> DEFINE new == [id |-> nextId.comment, thread |-> t.id, parent |-> parent, author |-> m,
                     text |-> body, status |-> "visible"]
  <2>1. n \in Nat /\ t.id \in Nat /\ t.project \in Projects /\ parent \in Nat
    BY <1>0 DEF ImageCounts, Thread, CommentRecord
  <2>2. new \in CommentRecord
    BY <1>0, <2>1 DEF CommentRecord
  <2>3. comments' \in SUBSET CommentRecord
    <3>1. comments' = comments \cup {new}
      BY <1>3 DEF AddComment
    <3> HIDE DEF new
    <3> QED BY <1>0, <2>2, <3>1
  <2>4. attachments' \in SUBSET ImageRecord
    BY <1>0, <1>3, <2>1, AppendedType DEF AddComment
  <2>5. nextId' \in Counters
    BY <1>3, <2>1, CountersStep DEF AddComment
  <2> QED BY <1>3, <2>3, <2>4, <2>5
          DEF AddComment, mail, TypeOK, CommentRecord, ImageRecord, Counters
<1>4. ASSUME NEW c \in comments, DeleteComment(c, m) PROVE TypeOK'
  <2>1. [c EXCEPT !.status = "deleted", !.text = {}] \in CommentRecord
    BY <1>0 DEF CommentRecord, Text
  <2>2. comments' \in SUBSET CommentRecord
    BY <1>0, <1>4, <2>1, WithType DEF DeleteComment
  <2>3. attachments' \in SUBSET ImageRecord
    BY <1>4, StrippedType DEF DeleteComment
  <2> QED BY <1>4, <2>2, <2>3 DEF DeleteComment, mail, TypeOK, CommentRecord, ImageRecord
<1> QED BY <1>1, <1>2, <1>3, <1>4 DEF Discuss

LEMMA TypeOfModerate ==
  ASSUME TypeOK, NEW m \in Members, Moderate(m)
  PROVE  TypeOK'
<1>0. threads \in SUBSET Thread /\ attachments \in SUBSET ImageRecord
  BY Types
<1>1. ASSUME NEW t \in threads, NEW action, ModerateThread(t, action, m) PROVE TypeOK'
  <2>1. /\ [t EXCEPT !.status = "hidden", !.hiddenBy = m] \in Thread
        /\ [t EXCEPT !.status = "visible", !.hiddenBy = Nobody] \in Thread
    BY <1>0 DEF Thread
  <2>2. threads' \in SUBSET Thread
    BY <1>0, <1>1, <2>1, WithType DEF ModerateThread
  <2> QED BY <1>1, <2>2 DEF ModerateThread, mail, TypeOK
<1>2. ASSUME NEW t \in threads, EraseThread(t, m) PROVE TypeOK'
  <2>1. threads' \subseteq threads /\ comments' \subseteq comments /\ attachments' \subseteq attachments
    BY <1>2 DEF EraseThread
  <2> QED BY <1>2, <2>1 DEF EraseThread, mail, TypeOK
<1>3. ASSUME NEW a \in attachments, RemoveAttachment(a, m) PROVE TypeOK'
  <2>1. [a EXCEPT !.data = FALSE, !.removedBy = m] \in ImageRecord
    BY <1>0 DEF ImageRecord
  <2>2. attachments' \in SUBSET ImageRecord
    BY <1>0, <1>3, <2>1, WithType DEF RemoveAttachment
  <2> QED BY <1>3, <2>2 DEF RemoveAttachment, mail, TypeOK, ImageRecord
<1> QED BY <1>1, <1>2, <1>3 DEF Moderate

LEMMA TypeOfForbid ==
  ASSUME TypeOK, Forbid
  PROVE  TypeOK'
<1>0. forbiddenTerms \in SUBSET TermRecord /\ nextId.term \in Nat
  BY Types DEF Counters
<1>1. ASSUME NEW w \in Words, NEW s \in Scopes, CreateForbiddenTerm(w, s) PROVE TypeOK'
  <2>1. [id |-> nextId.term, word |-> w, scope |-> s, enabled |-> TRUE] \in TermRecord
    BY <1>0 DEF TermRecord
  <2>2. forbiddenTerms' \in SUBSET TermRecord
    BY <1>0, <1>1, <2>1 DEF CreateForbiddenTerm
  <2>3. nextId' \in Counters
    BY <1>1, CountersStep DEF CreateForbiddenTerm
  <2> QED BY <1>1, <2>2, <2>3 DEF CreateForbiddenTerm, board, mail, TypeOK, TermRecord, Counters
<1>2. ASSUME NEW t \in forbiddenTerms, NEW w \in Words, NEW s \in Scopes, NEW e \in BOOLEAN,
             UpdateForbiddenTerm(t, w, s, e)
      PROVE  TypeOK'
  <2>1. [t EXCEPT !.word = w, !.scope = s, !.enabled = e] \in TermRecord
    BY <1>0 DEF TermRecord
  <2>2. forbiddenTerms' \in SUBSET TermRecord
    BY <1>0, <1>2, <2>1, WithType DEF UpdateForbiddenTerm
  <2> QED BY <1>2, <2>2 DEF UpdateForbiddenTerm, board, mail, TypeOK, TermRecord
<1>3. ASSUME NEW t \in forbiddenTerms, DeleteForbiddenTerm(t) PROVE TypeOK'
  BY <1>3 DEF DeleteForbiddenTerm, board, mail, TypeOK
<1> QED BY <1>1, <1>2, <1>3 DEF Forbid

LEMMA MessageType ==
  ASSUME TypeOK, NEW v \in Nat, NEW m \in Members, NEW body \in Text
  PROVE  messages \cup {Message(v, m, body)} \in SUBSET MessageRecord
<1>1. nextId.message \in Nat /\ messages \in SUBSET MessageRecord
  BY Types DEF Counters
<1>2. Message(v, m, body) \in MessageRecord
  BY <1>1 DEF Message, MessageRecord
<1> QED BY <1>1, <1>2

LEMMA TypeOfCorrespond ==
  ASSUME TypeOK, NEW m \in Members, Correspond(m)
  PROVE  TypeOK'
<1>0. /\ conversations \in SUBSET ConversationRecord /\ messages \in SUBSET MessageRecord
      /\ seen \in SUBSET (Members \X Nat) /\ nextId.conversation \in Nat
  BY Types DEF Counters
<1>1. ASSUME NEW v \in conversations, GetConversationMessages(v, m) PROVE TypeOK'
  <2>1. \A x \in messages : [x EXCEPT !.read = TRUE] \in MessageRecord /\ <<m, x.id>> \in Members \X Nat
    BY <1>0 DEF MessageRecord
  <2>2. messages' \in SUBSET MessageRecord
    BY <1>0, <1>1, <2>1 DEF GetConversationMessages, MarkedRead
  <2>3. seen' \in SUBSET (Members \X Nat)
    BY <1>0, <1>1, <2>1 DEF GetConversationMessages
  <2> QED BY <1>1, <2>2, <2>3 DEF GetConversationMessages, board, TypeOK, MessageRecord
<1>2. ASSUME NEW v \in conversations, NEW body \in Text, Reply(v, m, body) PROVE TypeOK'
  <2>1. v.id \in Nat
    BY <1>0 DEF ConversationRecord
  <2>2. messages' \in SUBSET MessageRecord
    BY <1>2, <2>1, MessageType DEF Reply
  <2>3. nextId' \in Counters
    BY <1>2, CountersStep DEF Reply
  <2> QED BY <1>2, <2>2, <2>3 DEF Reply, board, TypeOK, MessageRecord, Counters
<1>3. ASSUME NEW p \in Projects, NEW body \in Text, Begin(p, m, body) PROVE TypeOK'
  <2>1. nextId' \in Counters
    BY <1>3, CountersStep DEF Begin
  <2>2. [id |-> nextId.conversation, project |-> p, maker |-> Owner[p], investor |-> m]
          \in ConversationRecord
    BY <1>0, OwnerAssumption DEF ConversationRecord
  <2>3. conversations' \in SUBSET ConversationRecord
    BY <1>0, <1>3, <2>2 DEF Begin
  <2>4. messages' \in SUBSET MessageRecord
    <3>1. \A v \in Existing(p, m) : v.id \in Nat
      BY <1>0 DEF Existing, ConversationRecord
    <3>2. \E k \in Nat : messages' = messages \cup {Message(k, m, body)}
      BY <1>0, <1>3, <3>1 DEF Begin
    <3> QED BY <3>2, MessageType
  <2> QED BY <1>3, <2>1, <2>3, <2>4
          DEF Begin, board, TypeOK, ConversationRecord, MessageRecord, Counters
<1> QED BY <1>1, <1>2, <1>3 DEF Correspond

LEMMA TypeStep == TypeOK /\ [Next]_vars => TypeOK'
<1> SUFFICES ASSUME TypeOK, [Next]_vars PROVE TypeOK'
  OBVIOUS
<1>1. CASE UNCHANGED vars
  BY <1>1 DEF vars, TypeOK
<1> QED BY <1>1, TypeOfDiscuss, TypeOfModerate, TypeOfForbid, TypeOfCorrespond DEF Next

------------------------------------------------------------------------------
(* The board: threads, comments and images.                                 *)

\* How the operations move the counters that the invariant reads.
LEMMA CounterValues ==
  ASSUME TypeOK, NEW n \in Nat, NEW k \in {0, 1}
  PROVE  /\ [nextId EXCEPT !.thread = @ + 1, !.attachment = @ + n].comment = nextId.comment
         /\ [nextId EXCEPT !.comment = @ + 1, !.attachment = @ + n].comment = nextId.comment + 1
         /\ [nextId EXCEPT !.message = @ + 1, !.conversation = @ + k].message = nextId.message + 1
         /\ [nextId EXCEPT !.message = @ + 1, !.conversation = @ + k].conversation
              = nextId.conversation + k
         /\ [nextId EXCEPT !.message = @ + 1, !.conversation = @ + k].comment = nextId.comment
<1> DEFINE D == {"thread", "comment", "attachment", "conversation", "message", "term"}
<1>1. nextId \in [D -> Nat]
  BY Types DEF Counters
<1>2. "thread" \in D /\ "comment" \in D /\ "attachment" \in D /\ "conversation" \in D
      /\ "message" \in D
  OBVIOUS
<1> HIDE DEF D
<1> QED BY <1>1, <1>2

\* Threads that change in nothing but their status are the same homes.
LEMMA HomesKept ==
  ASSUME BoardInv, UNCHANGED <<comments, attachments>>, nextId'.comment = nextId.comment,
         \A x \in threads : \E y \in threads' : y.id = x.id /\ y.project = x.project
  PROVE  BoardInv'
<1>1. NoOrphans'
  BY DEF BoardInv, NoOrphans
<1> QED BY <1>1 DEF BoardInv, DataUntilRemoved, DeletedAreStripped, CommentsNumbered

LEMMA ThreadReplaced ==
  ASSUME TypeOK, NEW t \in threads, NEW new, new.id = t.id, new.project = t.project,
         threads' = With(threads, t, new)
  PROVE  \A x \in threads : \E y \in threads' : y.id = x.id /\ y.project = x.project
BY DEF With

LEMMA BoardOfStatus ==
  ASSUME TypeOK, BoardInv, NEW m \in Members, NEW t \in threads, NEW action,
         HideOwnThread(t, m) \/ ModerateThread(t, action, m)
  PROVE  BoardInv'
<1> DEFINE hidden == [t EXCEPT !.status = "hidden", !.hiddenBy = m]
           shown == [t EXCEPT !.status = "visible", !.hiddenBy = Nobody]
<1>1. t \in Thread
  BY Types
<1>2. /\ hidden.id = t.id /\ hidden.project = t.project
      /\ shown.id = t.id /\ shown.project = t.project
  BY <1>1 DEF Thread
<1>3. threads' = With(threads, t, hidden) \/ threads' = With(threads, t, shown)
  BY DEF HideOwnThread, ModerateThread
<1> HIDE DEF hidden, shown
<1>4. \A x \in threads : \E y \in threads' : y.id = x.id /\ y.project = x.project
  BY <1>2, <1>3, ThreadReplaced
<1>5. UNCHANGED <<comments, attachments, nextId>>
  BY DEF HideOwnThread, ModerateThread
<1> QED BY <1>4, <1>5, HomesKept

LEMMA BoardOfCreateThread ==
  ASSUME TypeOK, BoardInv, NEW p \in Projects, NEW m \in Members, NEW title, NEW body,
         NEW n \in Nat, CreateThread(p, m, title, body, n)
  PROVE  BoardInv'
<1> DEFINE t == [id |-> nextId.thread, project |-> p, author |-> m, text |-> title \cup body,
                 status |-> "visible", hiddenBy |-> Nobody]
<1>1. threads' = threads \cup {t} /\ t.id = nextId.thread /\ t.project = p
  BY DEF CreateThread
<1> HIDE DEF t
<1>2. attachments' = Appended("thread", nextId.thread, p, n) /\ UNCHANGED comments
  BY DEF CreateThread
<1>3. \A a \in attachments' :
        \/ a \in attachments
        \/ /\ a.type = "thread" /\ a.target = nextId.thread /\ a.project = p
           /\ a.data = TRUE /\ a.removedBy = Nobody
  BY <1>2 DEF Appended
<1>4. nextId'.comment = nextId.comment
  BY CounterValues DEF CreateThread
<1>5. NoOrphans'
  <2>1. NoOrphans
    BY DEF BoardInv
  <2>2. ASSUME NEW c \in comments'
        PROVE  /\ \E x \in threads' : x.id = c.thread
               /\ c.parent # 0 =>
                    \E r \in comments' : r.id = c.parent /\ r.thread = c.thread /\ r.parent = 0
    BY <1>1, <1>2, <2>1 DEF NoOrphans
  <2>3. ASSUME NEW a \in attachments'
        PROVE  IF a.type = "thread"
               THEN \E x \in threads' : x.id = a.target /\ x.project = a.project
               ELSE \E c \in comments', x \in threads' :
                      c.id = a.target /\ x.id = c.thread /\ x.project = a.project
    BY <1>1, <1>2, <1>3, <2>1 DEF NoOrphans
  <2> QED BY <2>2, <2>3 DEF NoOrphans
<1>6. DataUntilRemoved'
  BY <1>3 DEF BoardInv, DataUntilRemoved
<1>7. DeletedAreStripped'
  BY <1>2, <1>3 DEF BoardInv, DeletedAreStripped
<1>8. CommentsNumbered'
  BY <1>2, <1>4 DEF BoardInv, CommentsNumbered
<1> QED BY <1>5, <1>6, <1>7, <1>8 DEF BoardInv

LEMMA BoardOfAddComment ==
  ASSUME TypeOK, BoardInv, NEW m \in Members, NEW t \in threads, NEW body, NEW parent,
         NEW n \in Nat, AddComment(t, m, body, parent, n)
  PROVE  BoardInv'
<1> DEFINE new == [id |-> nextId.comment, thread |-> t.id, parent |-> parent, author |-> m,
                   text |-> body, status |-> "visible"]
<1>1. /\ comments' = comments \cup {new} /\ new.id = nextId.comment /\ new.thread = t.id
      /\ new.parent = parent /\ new.status = "visible"
  BY DEF AddComment
<1> HIDE DEF new
<1>2. attachments' = Appended("comment", nextId.comment, t.project, n) /\ UNCHANGED threads
  BY DEF AddComment
<1>3. \A a \in attachments' :
        \/ a \in attachments
        \/ /\ a.type = "comment" /\ a.target = nextId.comment /\ a.project = t.project
           /\ a.data = TRUE /\ a.removedBy = Nobody
  BY <1>2 DEF Appended
<1>4. nextId'.comment = nextId.comment + 1 /\ nextId.comment \in Nat
  BY CounterValues, Types DEF AddComment, Counters
<1>5. NoOrphans'
  <2>1. NoOrphans
    BY DEF BoardInv
  <2>2. ASSUME NEW c \in comments'
        PROVE  /\ \E x \in threads' : x.id = c.thread
               /\ c.parent # 0 =>
                    \E r \in comments' : r.id = c.parent /\ r.thread = c.thread /\ r.parent = 0
    <3>1. CASE c \in comments
      BY <1>1, <1>2, <2>1, <3>1 DEF NoOrphans
    <3>2. CASE c = new
      BY <1>1, <1>2, <3>2 DEF AddComment
    <3> QED BY <1>1, <3>1, <3>2
  <2>3. ASSUME NEW a \in attachments'
        PROVE  IF a.type = "thread"
               THEN \E x \in threads' : x.id = a.target /\ x.project = a.project
               ELSE \E c \in comments', x \in threads' :
                      c.id = a.target /\ x.id = c.thread /\ x.project = a.project
    BY <1>1, <1>2, <1>3, <2>1 DEF NoOrphans
  <2> QED BY <2>2, <2>3 DEF NoOrphans
<1>6. DataUntilRemoved'
  BY <1>3 DEF BoardInv, DataUntilRemoved
<1>7. DeletedAreStripped'
  <2>1. \A c \in comments : c.id # nextId.comment
    BY <1>4, Types DEF BoardInv, CommentsNumbered, CommentRecord
  <2> QED BY <1>1, <1>3, <2>1 DEF BoardInv, DeletedAreStripped
<1>8. CommentsNumbered'
  <2>1. \A c \in comments : c.id \in Nat /\ c.id < nextId.comment
    BY Types DEF BoardInv, CommentsNumbered, CommentRecord
  <2> QED BY <1>1, <1>4, <2>1 DEF CommentsNumbered
<1> QED BY <1>5, <1>6, <1>7, <1>8 DEF BoardInv

LEMMA BoardOfDeleteComment ==
  ASSUME TypeOK, BoardInv, NEW m \in Members, NEW c \in comments, DeleteComment(c, m)
  PROVE  BoardInv'
<1> DEFINE new == [c EXCEPT !.status = "deleted", !.text = {}]
<1>1. comments \in SUBSET CommentRecord /\ attachments \in SUBSET ImageRecord
  BY Types
<1>2. /\ new.id = c.id /\ new.thread = c.thread /\ new.parent = c.parent
      /\ comments' = With(comments, c, new)
  BY <1>1 DEF CommentRecord, DeleteComment
<1> HIDE DEF new
<1>3. /\ attachments' = StrippedOf("comment", c.id, m)
      /\ UNCHANGED <<threads, nextId>>
  BY DEF DeleteComment
<1>4. \A x \in comments : \E y \in comments' :
        y.id = x.id /\ y.thread = x.thread /\ y.parent = x.parent
  BY <1>2 DEF With
<1>5. \A y \in comments' : \/ y \in comments
                           \/ y = new
  BY <1>2 DEF With
<1>6. ASSUME NEW b \in attachments'
      PROVE  /\ \E a \in attachments :
                  /\ b.type = a.type /\ b.target = a.target /\ b.project = a.project
                  /\ a.removedBy # Nobody => b.removedBy # Nobody
             /\ b.data <=> b.removedBy = Nobody
             /\ b.type = "comment" /\ b.target = c.id => b.removedBy # Nobody
  <2>1. PICK a \in attachments :
          b = IF a.type = "comment" /\ a.target = c.id /\ a.removedBy = Nobody
              THEN [a EXCEPT !.data = FALSE, !.removedBy = m] ELSE a
    BY <1>3 DEF StrippedOf
  <2>2. a \in ImageRecord /\ (a.data <=> a.removedBy = Nobody)
    BY <1>1 DEF BoardInv, DataUntilRemoved
  <2>3. CASE a.type = "comment" /\ a.target = c.id /\ a.removedBy = Nobody
    <3>1. b = [a EXCEPT !.data = FALSE, !.removedBy = m]
      BY <2>1, <2>3
    <3>2. /\ b.type = a.type /\ b.target = a.target /\ b.project = a.project
          /\ b.data = FALSE /\ b.removedBy = m
      BY <2>2, <3>1 DEF ImageRecord
    <3> QED BY <2>3, <3>2, NobodyAssumption
  <2>4. CASE ~(a.type = "comment" /\ a.target = c.id /\ a.removedBy = Nobody)
    <3>1. b = a
      BY <2>1, <2>4
    <3> QED BY <2>2, <2>4, <3>1
  <2> QED BY <2>3, <2>4
<1>7. NoOrphans'
  <2>1. NoOrphans
    BY DEF BoardInv
  <2>2. ASSUME NEW y \in comments'
        PROVE  /\ \E x \in threads' : x.id = y.thread
               /\ y.parent # 0 =>
                    \E r \in comments' : r.id = y.parent /\ r.thread = y.thread /\ r.parent = 0
    <3>1. PICK x \in comments : y.thread = x.thread /\ y.parent = x.parent
      BY <1>2, <1>5
    <3> QED BY <1>3, <1>4, <2>1, <3>1 DEF NoOrphans
  <2>3. ASSUME NEW b \in attachments'
        PROVE  IF b.type = "thread"
               THEN \E x \in threads' : x.id = b.target /\ x.project = b.project
               ELSE \E y \in comments', x \in threads' :
                      y.id = b.target /\ x.id = y.thread /\ x.project = b.project
    <3>1. PICK a \in attachments : b.type = a.type /\ b.target = a.target /\ b.project = a.project
      BY <1>6
    <3>2. CASE b.type = "thread"
      <4>1. PICK x \in threads : x.id = a.target /\ x.project = a.project
        BY <2>1, <3>1, <3>2 DEF NoOrphans
      <4> QED BY <1>3, <3>1, <3>2, <4>1
    <3>3. CASE b.type # "thread"
      <4>1. PICK y \in comments, x \in threads :
              y.id = a.target /\ x.id = y.thread /\ x.project = a.project
        BY <2>1, <3>1, <3>3 DEF NoOrphans
      <4>2. PICK z \in comments' : z.id = y.id /\ z.thread = y.thread
        BY <1>4
      <4> QED BY <1>3, <3>1, <3>3, <4>1, <4>2
    <3> QED BY <3>2, <3>3
  <2> QED BY <2>2, <2>3 DEF NoOrphans
<1>8. DataUntilRemoved'
  BY <1>6 DEF DataUntilRemoved
<1>9. DeletedAreStripped'
  <2>1. ASSUME NEW y \in comments', NEW b \in attachments', y.status = "deleted",
               b.type = "comment", b.target = y.id
        PROVE  b.removedBy # Nobody
    <3>1. CASE y \in comments
      <4>1. PICK a \in attachments : /\ b.type = a.type /\ b.target = a.target
                                     /\ a.removedBy # Nobody => b.removedBy # Nobody
        BY <1>6
      <4> QED BY <2>1, <3>1, <4>1 DEF BoardInv, DeletedAreStripped
    <3>2. CASE y = new
      BY <1>2, <1>6, <2>1, <3>2
    <3> QED BY <1>5, <3>1, <3>2
  <2> QED BY <2>1 DEF DeletedAreStripped
<1>10. CommentsNumbered'
  BY <1>2, <1>3, <1>5 DEF BoardInv, CommentsNumbered
<1> QED BY <1>7, <1>8, <1>9, <1>10 DEF BoardInv

LEMMA BoardOfEraseThread ==
  ASSUME TypeOK, BoardInv, NEW m \in Members, NEW t \in threads, EraseThread(t, m)
  PROVE  BoardInv'
<1>1. /\ threads' = threads \ {t} /\ comments' = {c \in comments : c.thread # t.id}
      /\ attachments' \subseteq attachments /\ nextId' = nextId
  BY DEF EraseThread
<1>2. \A a \in attachments' :
        /\ ~(a.type = "thread" /\ a.target = t.id)
        /\ \A c \in comments : c.thread = t.id => ~(a.type = "comment" /\ a.target = c.id)
  BY DEF EraseThread, AttachmentsFor
<1>3. NoOrphans'
  <2>1. NoOrphans
    BY DEF BoardInv
  <2>2. ASSUME NEW c \in comments'
        PROVE  /\ \E x \in threads' : x.id = c.thread
               /\ c.parent # 0 =>
                    \E r \in comments' : r.id = c.parent /\ r.thread = c.thread /\ r.parent = 0
    BY <1>1, <2>1 DEF NoOrphans
  <2>3. ASSUME NEW a \in attachments'
        PROVE  IF a.type = "thread"
               THEN \E x \in threads' : x.id = a.target /\ x.project = a.project
               ELSE \E c \in comments', x \in threads' :
                      c.id = a.target /\ x.id = c.thread /\ x.project = a.project
    <3>1. CASE a.type = "thread"
      BY <1>1, <1>2, <2>1, <3>1 DEF NoOrphans
    <3>2. CASE a.type # "thread"
      <4>1. PICK c \in comments, x \in threads :
              c.id = a.target /\ x.id = c.thread /\ x.project = a.project
        BY <1>1, <2>1, <3>2 DEF NoOrphans
      <4>2. a.type = "comment"
        BY <1>1, <3>2, Types DEF ImageRecord
      <4>3. c.thread # t.id
        BY <1>2, <4>1, <4>2
      <4> QED BY <1>1, <3>2, <4>1, <4>3
    <3> QED BY <3>1, <3>2
  <2> QED BY <2>2, <2>3 DEF NoOrphans
<1>4. DataUntilRemoved' /\ DeletedAreStripped' /\ CommentsNumbered'
  BY <1>1 DEF BoardInv, DataUntilRemoved, DeletedAreStripped, CommentsNumbered
<1> QED BY <1>3, <1>4 DEF BoardInv

LEMMA BoardOfRemoveAttachment ==
  ASSUME TypeOK, BoardInv, NEW m \in Members, NEW a \in attachments, RemoveAttachment(a, m)
  PROVE  BoardInv'
<1> DEFINE new == [a EXCEPT !.data = FALSE, !.removedBy = m]
<1>1. a \in ImageRecord
  BY Types
<1>2. /\ new.type = a.type /\ new.target = a.target /\ new.project = a.project
      /\ new.data = FALSE /\ new.removedBy = m /\ m # Nobody
      /\ attachments' = With(attachments, a, new)
      /\ UNCHANGED <<threads, comments, nextId>>
  BY <1>1, NobodyAssumption DEF ImageRecord, RemoveAttachment
<1> HIDE DEF new
<1>3. \A b \in attachments' : b \in attachments \/ b = new
  BY <1>2 DEF With
<1>4. NoOrphans'
  <2>1. NoOrphans
    BY DEF BoardInv
  <2>2. ASSUME NEW b \in attachments'
        PROVE  IF b.type = "thread"
               THEN \E x \in threads : x.id = b.target /\ x.project = b.project
               ELSE \E c \in comments, x \in threads :
                      c.id = b.target /\ x.id = c.thread /\ x.project = b.project
    <3>1. PICK d \in attachments : b.type = d.type /\ b.target = d.target /\ b.project = d.project
      BY <1>2, <1>3
    <3> QED BY <2>1, <3>1 DEF NoOrphans
  <2> QED BY <1>2, <2>1, <2>2 DEF NoOrphans
<1>5. DataUntilRemoved' /\ DeletedAreStripped' /\ CommentsNumbered'
  BY <1>2, <1>3 DEF BoardInv, DataUntilRemoved, DeletedAreStripped, CommentsNumbered
<1> QED BY <1>4, <1>5 DEF BoardInv

LEMMA BoardStep ==
  ASSUME TypeOK, BoardInv, [Next]_vars
  PROVE  BoardInv'
<1>1. ASSUME NEW m \in Members, Discuss(m) PROVE BoardInv'
  <2>1. ImageCounts \subseteq Nat
    BY DEF ImageCounts
  <2> QED BY <1>1, <2>1, BoardOfCreateThread, BoardOfStatus, BoardOfAddComment,
             BoardOfDeleteComment DEF Discuss
<1>2. ASSUME NEW m \in Members, Moderate(m) PROVE BoardInv'
  BY <1>2, BoardOfStatus, BoardOfEraseThread, BoardOfRemoveAttachment DEF Moderate
<1>3. ASSUME UNCHANGED board, nextId'.comment = nextId.comment PROVE BoardInv'
  BY <1>3, HomesKept DEF board
<1>4. CASE UNCHANGED vars
  BY <1>3, <1>4 DEF vars, board
<1>5. CASE Forbid
  <2>1. UNCHANGED board
    BY <1>5 DEF Forbid, CreateForbiddenTerm, UpdateForbiddenTerm, DeleteForbiddenTerm
  <2>2. nextId'.comment = nextId.comment
    <3>1. nextId' = nextId \/ nextId' = [nextId EXCEPT !.term = @ + 1]
      BY <1>5 DEF Forbid, CreateForbiddenTerm, UpdateForbiddenTerm, DeleteForbiddenTerm
    <3> QED BY <3>1, Types DEF Counters
  <2> QED BY <1>3, <2>1, <2>2
<1>6. ASSUME NEW m \in Members, Correspond(m) PROVE BoardInv'
  <2>1. UNCHANGED board
    BY <1>6 DEF Correspond, GetConversationMessages, Reply, Begin
  <2>2. nextId'.comment = nextId.comment
    <3>1. \/ nextId' = nextId \/ nextId' = [nextId EXCEPT !.message = @ + 1]
          \/ \E k \in {0, 1} : nextId' = [nextId EXCEPT !.message = @ + 1, !.conversation = @ + k]
      BY <1>6 DEF Correspond, GetConversationMessages, Reply, Begin
    <3> QED BY <3>1, CounterValues, Types DEF Counters
  <2> QED BY <1>3, <2>1, <2>2
<1> QED BY <1>1, <1>2, <1>4, <1>5, <1>6 DEF Next

------------------------------------------------------------------------------
(* The mail: conversations, messages and who has been answered with them.   *)

LEMMA ReadByConversation ==
  ASSUME MailInv
  PROVE  ReadMeansSeen
<1>1. ASSUME NEW x \in messages
      PROVE  ConversationOf(x) \in conversations /\ ConversationOf(x).id = x.conversation
  <2>1. \E v \in conversations : v.id = x.conversation
    BY DEF MailInv, MessagesLie
  <2> QED BY <2>1 DEF ConversationOf
<1>2. \A x \in messages : ReadWhenSeen(x, ConversationOf(x))
  BY <1>1 DEF MailInv, MessagesRead
<1> QED BY <1>2 DEF ReadMeansSeen, ReadWhenSeen

LEMMA MailOfLooking ==
  ASSUME TypeOK, MailInv, NEW v \in conversations, NEW m \in Members,
         GetConversationMessages(v, m)
  PROVE  MailInv'
<1> DEFINE marked(x) == IF x.conversation = v.id /\ x.sender # m
                        THEN [x EXCEPT !.read = TRUE] ELSE x
<1>1. /\ messages \in SUBSET MessageRecord /\ Participant(v, m)
      /\ messages' = {marked(x) : x \in messages}
      /\ seen' = seen \cup {<<m, x.id>> : x \in {y \in messages : y.conversation = v.id}}
      /\ UNCHANGED <<conversations, nextId>>
  BY Types DEF GetConversationMessages, MarkedRead, board
<1>2. ASSUME NEW x \in messages
      PROVE  /\ marked(x).id = x.id /\ marked(x).conversation = x.conversation
             /\ marked(x).sender = x.sender /\ x.read \in BOOLEAN
             /\ marked(x).read <=> x.read \/ (x.conversation = v.id /\ x.sender # m)
  BY <1>1 DEF MessageRecord
<1> HIDE DEF marked
<1>3. ConversationsNumbered' /\ OneConversation'
  BY <1>1 DEF MailInv, ConversationsNumbered, OneConversation
<1>4. MessagesNumbered'
  <2>1. MessagesNumbered
    BY DEF MailInv
  <2>2. ASSUME NEW x \in messages' PROVE x.id < nextId'.message
    BY <1>1, <1>2, <2>1 DEF MessagesNumbered
  <2>3. ASSUME NEW x \in messages', NEW y \in messages', x.id = y.id PROVE x = y
    BY <1>1, <1>2, <2>1, <2>3 DEF MessagesNumbered
  <2>4. ASSUME NEW s \in seen' PROVE s[2] < nextId'.message
    BY <1>1, <2>1 DEF MessagesNumbered
  <2> QED BY <2>2, <2>3, <2>4 DEF MessagesNumbered
<1>5. MessagesLie'
  BY <1>1, <1>2 DEF MailInv, MessagesLie
<1>6. ASSUME NEW x \in messages, NEW w \in conversations, w.id = x.conversation
      PROVE  /\ Participant(w, x.sender)
             /\ marked(x).read <=>
                  \E k \in {w.maker, w.investor} \ {x.sender} : <<k, x.id>> \in seen'
  <2>1. ReadWhenSeen(x, w)
    BY <1>6 DEF MailInv, MessagesRead
  <2>2. CASE x.conversation = v.id
    <3>1. w = v
      BY <1>6, <2>2 DEF MailInv, ConversationsNumbered
    <3>2. \A k : <<k, x.id>> \in seen' <=> <<k, x.id>> \in seen \/ k = m
      BY <1>1, <2>2
    <3>3. CASE x.sender # m
      BY <1>1, <1>2, <2>1, <2>2, <3>1, <3>2, <3>3 DEF ReadWhenSeen, Participant
    <3>4. CASE x.sender = m
      BY <1>2, <2>1, <3>2, <3>4 DEF ReadWhenSeen
    <3> QED BY <3>3, <3>4
  <2>3. CASE x.conversation # v.id
    <3>1. \A k : <<k, x.id>> \in seen' <=> <<k, x.id>> \in seen
      BY <1>1, <2>3 DEF MailInv, MessagesNumbered
    <3> QED BY <1>2, <2>1, <2>3, <3>1 DEF ReadWhenSeen
  <2> QED BY <2>2, <2>3
<1>7. MessagesRead'
  <2>1. ASSUME NEW y \in messages', NEW w \in conversations', w.id = y.conversation
        PROVE  ReadWhenSeen(y, w)'
    <3>1. PICK x \in messages : y = marked(x)
      BY <1>1
    <3>2. y.id = x.id /\ y.sender = x.sender /\ w \in conversations /\ w.id = x.conversation
      BY <1>1, <1>2, <2>1, <3>1
    <3> QED BY <1>6, <3>1, <3>2 DEF ReadWhenSeen, Participant
  <2> QED BY <2>1 DEF MessagesRead, ReadWhenSeen, Participant
<1> QED BY <1>3, <1>4, <1>5, <1>7 DEF MailInv

\* A message of a participant, in a conversation that exists or just began.
LEMMA MailOfSending ==
  ASSUME TypeOK, MailInv, NEW v \in conversations', NEW m, NEW body, Participant(v, m),
         ConversationsNumbered', OneConversation',
         conversations \subseteq conversations',
         \A x \in messages, w \in conversations' :
           w.id = x.conversation => w \in conversations,
         messages' = messages \cup {Message(v.id, m, body)},
         nextId'.message = nextId.message + 1, seen' = seen
  PROVE  MailInv'
<1> DEFINE new == Message(v.id, m, body)
<1>1. /\ new.id = nextId.message /\ new.conversation = v.id /\ new.sender = m
      /\ new.read = FALSE /\ messages' = messages \cup {new}
  BY DEF Message
<1> HIDE DEF new
<1>2. /\ nextId.message \in Nat
      /\ \A x \in messages : x.id \in Nat
      /\ \A s \in seen : s[2] \in Nat
  BY Types DEF Counters, MessageRecord
<1>3. /\ \A x \in messages : x.id < nextId.message
      /\ \A x, y \in messages : x.id = y.id => x = y
      /\ \A s \in seen : s[2] < nextId.message
  BY DEF MailInv, MessagesNumbered
<1>4. MessagesNumbered'
  <2>1. ASSUME NEW x \in messages' PROVE x.id < nextId'.message
    BY <1>1, <1>2, <1>3
  <2>2. ASSUME NEW x \in messages', NEW y \in messages', x.id = y.id PROVE x = y
    BY <1>1, <1>2, <1>3, <2>2
  <2>3. ASSUME NEW s \in seen' PROVE s[2] < nextId'.message
    BY <1>2, <1>3
  <2> QED BY <2>1, <2>2, <2>3 DEF MessagesNumbered
<1>5. MessagesLie'
  BY <1>1 DEF MailInv, MessagesLie
<1>6. MessagesRead'
  <2>1. ASSUME NEW x \in messages', NEW w \in conversations', w.id = x.conversation
        PROVE  ReadWhenSeen(x, w)'
    <3>1. CASE x \in messages
      <4>1. ReadWhenSeen(x, w)
        BY <2>1, <3>1 DEF MailInv, MessagesRead
      <4> QED BY <4>1 DEF ReadWhenSeen, Participant
    <3>2. CASE x = new
      <4>1. w = v
        BY <1>1, <2>1, <3>2 DEF ConversationsNumbered
      <4>2. \A k : <<k, nextId.message>> \notin seen
        BY <1>2, <1>3
      <4> QED BY <1>1, <3>2, <4>1, <4>2 DEF ReadWhenSeen, Participant
    <3> QED BY <1>1, <3>1, <3>2
  <2> QED BY <2>1 DEF MessagesRead, ReadWhenSeen, Participant
<1> QED BY <1>4, <1>5, <1>6 DEF MailInv

LEMMA MailOfReply ==
  ASSUME TypeOK, MailInv, NEW v \in conversations, NEW m \in Members, NEW body,
         Reply(v, m, body)
  PROVE  MailInv'
<1>1. /\ Participant(v, m) /\ messages' = messages \cup {Message(v.id, m, body)}
      /\ nextId' = [nextId EXCEPT !.message = @ + 1] /\ UNCHANGED <<conversations, seen>>
  BY DEF Reply
<1>2. /\ nextId'.message = nextId.message + 1
      /\ nextId'.conversation = nextId.conversation
  BY <1>1, Types DEF Counters
<1>3. ConversationsNumbered' /\ OneConversation'
  BY <1>1, <1>2 DEF MailInv, ConversationsNumbered, OneConversation
<1> QED BY <1>1, <1>2, <1>3, MailOfSending

LEMMA MailOfBegin ==
  ASSUME TypeOK, MailInv, NEW p \in Projects, NEW m \in Members, NEW body, Begin(p, m, body)
  PROVE  MailInv'
<1> DEFINE k == IF Existing(p, m) = {} THEN 1 ELSE 0
           new == [id |-> nextId.conversation, project |-> p, maker |-> Owner[p],
                   investor |-> m]
<1>1. nextId' = [nextId EXCEPT !.message = @ + 1, !.conversation = @ + k] /\ seen' = seen
  BY DEF Begin
<1>2. k \in {0, 1}
  OBVIOUS
<1>3. /\ nextId'.message = nextId.message + 1
      /\ nextId'.conversation = nextId.conversation + k
      /\ nextId.conversation \in Nat
  <2> HIDE DEF k
  <2> QED BY <1>1, <1>2, CounterValues, Types DEF Counters
<1>4. /\ \A w \in conversations : w.id \in Nat /\ w.id < nextId.conversation
      /\ \A x, y \in conversations : x.id = y.id => x = y
  BY Types DEF MailInv, ConversationsNumbered, ConversationRecord
<1>5. CASE /\ Existing(p, m) = {} /\ conversations' = conversations \cup {new}
           /\ messages' = messages \cup {Message(nextId.conversation, m, body)}
  <2>1. /\ new.id = nextId.conversation /\ new.project = p /\ new.maker = Owner[p]
        /\ new.investor = m /\ Owner[p] # m
    BY DEF Begin
  <2> HIDE DEF new
  <2>2. ConversationsNumbered'
    <3>1. ASSUME NEW w \in conversations' PROVE w.id < nextId'.conversation
      BY <1>3, <1>4, <1>5, <2>1
    <3>2. ASSUME NEW x \in conversations', NEW y \in conversations', x.id = y.id PROVE x = y
      BY <1>3, <1>4, <1>5, <2>1, <3>2
    <3> QED BY <3>1, <3>2 DEF ConversationsNumbered
  <2>3. OneConversation'
    <3>1. \A w \in conversations : ~(w.project = p /\ w.investor = m)
      BY <1>5 DEF Existing
    <3> QED BY <1>5, <2>1, <3>1 DEF MailInv, OneConversation
  <2>4. \A x \in messages : x.conversation < nextId.conversation /\ x.conversation \in Nat
    BY <1>4 DEF MailInv, MessagesLie
  <2>5. \A x \in messages, w \in conversations' : w.id = x.conversation => w \in conversations
    BY <1>3, <1>5, <2>1, <2>4
  <2>6. new \in conversations' /\ Participant(new, m)
    BY <1>5, <2>1 DEF Participant
  <2>7. messages' = messages \cup {Message(new.id, m, body)} /\ conversations \subseteq conversations'
    BY <1>5, <2>1
  <2> QED BY <1>1, <1>3, <2>2, <2>3, <2>5, <2>6, <2>7, MailOfSending
<1>6. ASSUME NEW v \in Existing(p, m), messages' = messages \cup {Message(v.id, m, body)},
             UNCHANGED conversations
      PROVE  MailInv'
  <2>1. v \in conversations' /\ Participant(v, m) /\ k = 0
    BY <1>6 DEF Existing, Participant
  <2>2. ConversationsNumbered' /\ OneConversation'
    BY <1>3, <1>6, <2>1 DEF MailInv, ConversationsNumbered, OneConversation
  <2> QED BY <1>1, <1>3, <1>6, <2>1, <2>2, MailOfSending
<1> QED BY <1>5, <1>6 DEF Begin

LEMMA MailStep ==
  ASSUME TypeOK, MailInv, [Next]_vars
  PROVE  MailInv'
<1>1. ASSUME NEW m \in Members, Correspond(m) PROVE MailInv'
  BY <1>1, MailOfLooking, MailOfReply, MailOfBegin DEF Correspond
<1>2. ASSUME UNCHANGED mail, nextId'.message = nextId.message,
             nextId'.conversation = nextId.conversation
      PROVE  MailInv'
  BY <1>2 DEF MailInv, mail, ConversationsNumbered, MessagesNumbered, MessagesLie,
              OneConversation, MessagesRead, ReadWhenSeen, Participant
<1>3. CASE UNCHANGED vars
  BY <1>2, <1>3 DEF vars, mail
<1>4. ASSUME \/ nextId' = nextId \/ nextId' = [nextId EXCEPT !.term = @ + 1]
             \/ \E n \in Nat : nextId' = [nextId EXCEPT !.thread = @ + 1, !.attachment = @ + n]
             \/ \E n \in Nat : nextId' = [nextId EXCEPT !.comment = @ + 1, !.attachment = @ + n]
      PROVE  nextId'.message = nextId.message /\ nextId'.conversation = nextId.conversation
  <2> DEFINE D == {"thread", "comment", "attachment", "conversation", "message", "term"}
  <2>1. /\ nextId \in [D -> Nat]
        /\ "message" \in D /\ "conversation" \in D
    BY Types DEF Counters
  <2> HIDE DEF D
  <2> QED BY <1>4, <2>1
<1>5. CASE Forbid
  <2>1. UNCHANGED mail
    BY <1>5 DEF Forbid, CreateForbiddenTerm, UpdateForbiddenTerm, DeleteForbiddenTerm
  <2>2. nextId' = nextId \/ nextId' = [nextId EXCEPT !.term = @ + 1]
    BY <1>5 DEF Forbid, CreateForbiddenTerm, UpdateForbiddenTerm, DeleteForbiddenTerm
  <2> QED BY <1>2, <1>4, <2>1, <2>2
<1>6. ASSUME NEW m \in Members, Discuss(m) PROVE MailInv'
  <2>1. ImageCounts \subseteq Nat
    BY DEF ImageCounts
  <2>2. UNCHANGED mail
    BY <1>6 DEF Discuss, CreateThread, HideOwnThread, AddComment, DeleteComment
  <2>3. \/ nextId' = nextId
        \/ \E n \in Nat : nextId' = [nextId EXCEPT !.thread = @ + 1, !.attachment = @ + n]
        \/ \E n \in Nat : nextId' = [nextId EXCEPT !.comment = @ + 1, !.attachment = @ + n]
    BY <1>6, <2>1 DEF Discuss, CreateThread, HideOwnThread, AddComment, DeleteComment
  <2> QED BY <1>2, <1>4, <2>2, <2>3
<1>7. ASSUME NEW m \in Members, Moderate(m) PROVE MailInv'
  BY <1>2, <1>7 DEF Moderate, ModerateThread, EraseThread, RemoveAttachment
<1> QED BY <1>1, <1>3, <1>5, <1>6, <1>7 DEF Next

------------------------------------------------------------------------------
LEMMA CInit == Init => CInv
<1> SUFFICES ASSUME Init PROVE CInv
  OBVIOUS
<1>1. BoardInv
  BY DEF Init, BoardInv, NoOrphans, DataUntilRemoved, DeletedAreStripped, CommentsNumbered
<1>2. MailInv
  BY DEF Init, MailInv, ConversationsNumbered, MessagesNumbered, MessagesLie, OneConversation,
         MessagesRead
<1> QED BY <1>1, <1>2, TypeInit DEF CInv

LEMMA CStep == CInv /\ [Next]_vars => CInv'
BY TypeStep, BoardStep, MailStep DEF CInv

\* The invariant is inductive.
THEOREM Invariance == Spec => []CInv
BY CInit, CStep, PTL DEF Spec

\* The list and the page of a thread select the same images, one by who
\* removed them and the status of their comments, the other by their data.
LEMMA SameSelection ==
  ASSUME CInv, NEW t \in threads
  PROVE  {a \in DetailAttachments(t) : a.data} =
         {a \in attachments :
            /\ a.removedBy = Nobody
            /\ \/ a.type = "thread" /\ a.target = t.id
               \/ a.type = "comment" /\ \E c \in CommentsOf(t) :
                                          c.id = a.target /\ c.status = "visible"}
<1>1. /\ \A a \in attachments : a.data <=> a.removedBy = Nobody
      /\ \A c \in comments, a \in attachments :
           c.status = "deleted" /\ a.type = "comment" /\ a.target = c.id => a.removedBy # Nobody
  BY DEF CInv, BoardInv, DataUntilRemoved, DeletedAreStripped
<1>2. /\ \A a \in attachments : a.type \in {"thread", "comment"} /\ a.data \in BOOLEAN
      /\ \A c \in comments : c.status \in {"visible", "deleted"}
  BY Types DEF CInv, ImageRecord, CommentRecord
<1>3. ASSUME NEW a
      PROVE  a \in DetailAttachments(t) <=>
               /\ a \in attachments
               /\ \/ a.type = "thread" /\ a.target = t.id
                  \/ a.type = "comment" /\ \E c \in CommentsOf(t) :
                                             c.id = a.target /\ c.status # "hidden"
  BY DEF DetailAttachments, AttachmentsFor
<1>4. CommentsOf(t) \subseteq comments
  BY DEF CommentsOf
<1>5. ASSUME NEW a \in attachments, a.type = "comment", a.removedBy = Nobody,
             NEW c \in CommentsOf(t), c.id = a.target
      PROVE  c.status = "visible" /\ c.status # "hidden"
  BY <1>1, <1>2, <1>4, <1>5
<1> HIDE DEF DetailAttachments
<1> QED BY <1>1, <1>3, <1>5

LEMMA CountsAgree == CInv => CountsWhatIsShown
BY SameSelection DEF CountsWhatIsShown, AttachmentCount

\* Everything published at a step is free of the words forbidden before it.
LEMMA PublishedIsClean ==
  ASSUME TypeOK, [Next]_vars
  PROVE  /\ \A x \in threads' : (\A y \in threads : y.id # x.id)
                                  => x.text \cap Active("discussion") = {}
         /\ \A x \in comments' : (\A y \in comments : y.id # x.id)
                                   => x.text \cap Active("discussion") = {}
         /\ \A x \in messages' : (\A y \in messages : y.id # x.id)
                                   => x.text \cap Active("message") = {}
<1>0. threads \in SUBSET Thread /\ comments \in SUBSET CommentRecord /\ messages \in SUBSET MessageRecord
  BY Types
<1>1. ASSUME NEW x \in threads', \A y \in threads : y.id # x.id
      PROVE  x.text \cap Active("discussion") = {}
  <2>1. ASSUME NEW t \in threads, NEW m, NEW action,
               HideOwnThread(t, m) \/ ModerateThread(t, action, m)
        PROVE  FALSE
    <3>1. /\ [t EXCEPT !.status = "hidden", !.hiddenBy = m].id = t.id
          /\ [t EXCEPT !.status = "visible", !.hiddenBy = Nobody].id = t.id
      BY <1>0 DEF Thread
    <3>2. \/ x \in threads \/ x = [t EXCEPT !.status = "hidden", !.hiddenBy = m]
          \/ x = [t EXCEPT !.status = "visible", !.hiddenBy = Nobody]
      BY <2>1 DEF HideOwnThread, ModerateThread, With
    <3> QED BY <1>1, <3>1, <3>2
  <2>2. ASSUME NEW p, NEW m, NEW title, NEW body, NEW n, CreateThread(p, m, title, body, n)
        PROVE  x.text \cap Active("discussion") = {}
    <3>1. x \in threads \/ x.text = title \cup body
      BY <2>2 DEF CreateThread
    <3>2. (title \cup body) \cap Active("discussion") = {}
      BY <2>2 DEF CreateThread, AllowedContent
    <3> QED BY <1>1, <3>1, <3>2
  <2>3. ~(threads' \subseteq threads)
    BY <1>1
  <2>4. ~UNCHANGED vars
    BY <2>3 DEF vars
  <2>5. ~Forbid
    BY <2>3 DEF Forbid, CreateForbiddenTerm, UpdateForbiddenTerm, DeleteForbiddenTerm, board
  <2>6. \A m \in Members : ~Correspond(m)
    BY <2>3 DEF Correspond, GetConversationMessages, Reply, Begin, board
  <2>7. /\ \A m \in Members, c \in comments : ~DeleteComment(c, m)
        /\ \A m \in Members, t \in threads : \A body, parent, n : ~AddComment(t, m, body, parent, n)
        /\ \A m \in Members, t \in threads : ~EraseThread(t, m)
        /\ \A m \in Members, a \in attachments : ~RemoveAttachment(a, m)
    BY <2>3 DEF DeleteComment, AddComment, EraseThread, RemoveAttachment
  <2> QED BY <2>1, <2>2, <2>4, <2>5, <2>6, <2>7 DEF Next, Discuss, Moderate
<1>2. ASSUME NEW x \in comments', \A y \in comments : y.id # x.id
      PROVE  x.text \cap Active("discussion") = {}
  <2>1. ASSUME NEW c \in comments, NEW m, DeleteComment(c, m) PROVE FALSE
    <3>1. [c EXCEPT !.status = "deleted", !.text = {}].id = c.id
      BY <1>0 DEF CommentRecord
    <3>2. x \in comments \/ x = [c EXCEPT !.status = "deleted", !.text = {}]
      BY <2>1 DEF DeleteComment, With
    <3> QED BY <1>2, <3>1, <3>2
  <2>2. ASSUME NEW t, NEW m, NEW body, NEW parent, NEW n, AddComment(t, m, body, parent, n)
        PROVE  x.text \cap Active("discussion") = {}
    <3>1. x \in comments \/ x.text = body
      BY <2>2 DEF AddComment
    <3>2. body \cap Active("discussion") = {}
      BY <2>2 DEF AddComment, AllowedContent
    <3> QED BY <1>2, <3>1, <3>2
  <2>3. ~(comments' \subseteq comments)
    BY <1>2
  <2>4. ~UNCHANGED vars
    BY <2>3 DEF vars
  <2>5. ~Forbid
    BY <2>3 DEF Forbid, CreateForbiddenTerm, UpdateForbiddenTerm, DeleteForbiddenTerm, board
  <2>6. \A m \in Members : ~Correspond(m)
    BY <2>3 DEF Correspond, GetConversationMessages, Reply, Begin, board
  <2>7. \A m \in Members : ~Moderate(m)
    BY <2>3 DEF Moderate, ModerateThread, EraseThread, RemoveAttachment
  <2>8. /\ \A m \in Members, p \in Projects : \A title, body, n : ~CreateThread(p, m, title, body, n)
        /\ \A m \in Members, t \in threads : ~HideOwnThread(t, m)
    BY <2>3 DEF CreateThread, HideOwnThread
  <2> QED BY <2>1, <2>2, <2>4, <2>5, <2>6, <2>7, <2>8 DEF Next, Discuss
<1>3. ASSUME NEW x \in messages', \A y \in messages : y.id # x.id
      PROVE  x.text \cap Active("message") = {}
  <2>1. ASSUME NEW v, NEW m, GetConversationMessages(v, m) PROVE FALSE
    <3>1. \A y \in messages : [y EXCEPT !.read = TRUE].id = y.id
      BY <1>0 DEF MessageRecord
    <3>2. \E y \in messages : x = y \/ x = [y EXCEPT !.read = TRUE]
      BY <2>1 DEF GetConversationMessages, MarkedRead
    <3> QED BY <1>3, <3>1, <3>2
  <2>2. ASSUME NEW m, NEW body, (\E v : Reply(v, m, body)) \/ (\E p : Begin(p, m, body))
        PROVE  x.text \cap Active("message") = {}
    <3>1. x \in messages \/ x.text = body
      <4>1. \E k : messages' = messages \cup {Message(k, m, body)}
        BY <2>2 DEF Reply, Begin
      <4>2. \A k : Message(k, m, body).text = body
        BY DEF Message
      <4> QED BY <4>1, <4>2
    <3>2. body \cap Active("message") = {}
      BY <2>2 DEF Reply, Begin, AllowedContent
    <3> QED BY <1>3, <3>1, <3>2
  <2>3. ~(messages' \subseteq messages)
    BY <1>3
  <2>4. ~UNCHANGED vars
    BY <2>3 DEF vars
  <2>5. ~Forbid
    BY <2>3 DEF Forbid, CreateForbiddenTerm, UpdateForbiddenTerm, DeleteForbiddenTerm, mail
  <2>6. \A m \in Members : ~Discuss(m)
    BY <2>3 DEF Discuss, CreateThread, HideOwnThread, AddComment, DeleteComment, mail
  <2>7. \A m \in Members : ~Moderate(m)
    BY <2>3 DEF Moderate, ModerateThread, EraseThread, RemoveAttachment, mail
  <2> QED BY <2>1, <2>2, <2>4, <2>5, <2>6, <2>7 DEF Next, Correspond
<1> QED BY <1>1, <1>2, <1>3

\* The records of the community service keep their types.
THEOREM TypeCorrect == Spec => []TypeOK
<1>1. CInv => TypeOK
  BY DEF CInv
<1> QED BY <1>1, Invariance, PTL

\* Whatever is hidden, deleted, erased or removed, and in whatever order: every
\* comment has its thread, every reply its root comment, every image its post.
THEOREM NothingIsOrphaned == Spec => []NoOrphans
<1>1. CInv => NoOrphans
  BY DEF CInv, BoardInv
<1> QED BY <1>1, Invariance, PTL

\* The number of images beside a thread in the list is the number its page shows.
THEOREM CountsAreShown == Spec => []CountsWhatIsShown
BY CountsAgree, Invariance, PTL

\* A project and an investor have one conversation, with the project's owner.
THEOREM ConversationsAreOne == Spec => []OneConversation
<1>1. CInv => OneConversation
  BY DEF CInv, MailInv
<1> QED BY <1>1, Invariance, PTL

\* A message counts as read exactly when the other participant was answered
\* with it: nobody else's look and no later message changes that.
THEOREM ReadIsSeen == Spec => []ReadMeansSeen
<1>1. CInv => ReadMeansSeen
  BY ReadByConversation DEF CInv
<1> QED BY <1>1, Invariance, PTL

\* No thread, comment or message is published with a word that is forbidden
\* there at that moment.
THEOREM ForbiddenStaysOut == Spec => NothingForbiddenPublished
<1>1. CInv /\ [Next]_vars =>
        [/\ \A x \in threads' : (\A y \in threads : y.id # x.id)
                                 => x.text \cap Active("discussion") = {}
         /\ \A x \in comments' : (\A y \in comments : y.id # x.id)
                                  => x.text \cap Active("discussion") = {}
         /\ \A x \in messages' : (\A y \in messages : y.id # x.id)
                                  => x.text \cap Active("message") = {}]_vars
  BY PublishedIsClean DEF CInv
<1> QED BY <1>1, Invariance, PTL DEF Spec, NothingForbiddenPublished

(***************************************************************************)
(* The ranking.                                                            *)
(***************************************************************************)

------------------------------------------------------------------------------
(* Rows: what may change of one, and how two are compared.                  *)

\* What becomes of a row while it is listed.
Changed(b, v, n, u) == [b EXCEPT !.verified = v, !.seen = n, !.upvotes = u]
Versions == {Changed(b, v, n, u) : b \in Base, v \in BOOLEAN, n \in Nat, u \in Int}

\* A set of rows, none twice.
RowsOK(M) ==
  /\ IsFiniteSet(M) /\ M \subseteq Versions
  /\ \A p, r \in M : p.id = r.id => p = r

LEMMA VersionKeeps ==
  ASSUME NEW b \in Base, NEW v \in BOOLEAN, NEW n \in Nat, NEW u \in Int
  PROVE  LET p == Changed(b, v, n, u) IN
         /\ p.id = b.id /\ p.created = b.created /\ p.access = b.access /\ p.url = b.url
         /\ p.words = b.words /\ p.maker = b.maker
         /\ p.verified = v /\ p.seen = n /\ p.upvotes = u /\ IsRow(p)
<1> USE CatalogueAssumption
<1>1. IsRow(b)
  OBVIOUS
<1> QED BY <1>1 DEF IsRow, Changed

\* A version of a row is a row, and one of its base row.
LEMMA VersionOf ==
  ASSUME NEW p \in Versions
  PROVE  /\ IsRow(p) /\ p.seen \in Nat
         /\ \E b \in Base : /\ p = Changed(b, p.verified, p.seen, p.upvotes)
                             /\ p.id = b.id /\ p.created = b.created /\ p.access = b.access
                             /\ p.url = b.url /\ p.words = b.words /\ p.maker = b.maker
<1>1. PICK b \in Base, v \in BOOLEAN, n \in Nat, u \in Int : p = Changed(b, v, n, u)
  BY DEF Versions
<1>2. /\ p.id = b.id /\ p.created = b.created /\ p.access = b.access /\ p.url = b.url
      /\ p.words = b.words /\ p.maker = b.maker
      /\ p.verified = v /\ p.seen = n /\ p.upvotes = u /\ IsRow(p)
  BY <1>1, VersionKeeps
<1> QED BY <1>1, <1>2

\* Rows created at one moment are one row.
LEMMA OneMoment ==
  ASSUME NEW M, RowsOK(M), NEW p \in M, NEW r \in M, p.created = r.created
  PROVE  p = r
<1>1. PICK b \in Base : p.created = b.created /\ p.id = b.id
  BY VersionOf DEF RowsOK
<1>2. PICK c \in Base : r.created = c.created /\ r.id = c.id
  BY VersionOf DEF RowsOK
<1>3. b = c
  BY <1>1, <1>2, CatalogueAssumption
<1> QED BY <1>1, <1>2, <1>3 DEF RowsOK

\* The least and the largest of two numbers.
LEMMA MinOfTwo == ASSUME NEW m \in Int, NEW n \in Int PROVE Min({m, n}) = IF m <= n THEN m ELSE n
<1>1. CASE m <= n
  <2>1. m \in {m, n} /\ \A y \in {m, n} : m =< y
    BY <1>1
  <2>2. Min({m, n}) \in {m, n} /\ \A y \in {m, n} : Min({m, n}) =< y
    BY <2>1 DEF Min
  <2>3. Min({m, n}) \in Int /\ Min({m, n}) <= m /\ m <= Min({m, n})
    BY <1>1, <2>2
  <2> QED BY <1>1, <2>3
<1>2. CASE ~(m <= n)
  <2>1. n \in {m, n} /\ \A y \in {m, n} : n =< y
    BY <1>2
  <2>2. Min({m, n}) \in {m, n} /\ \A y \in {m, n} : Min({m, n}) =< y
    BY <2>1 DEF Min
  <2>3. Min({m, n}) \in Int /\ Min({m, n}) <= n /\ n <= Min({m, n})
    BY <1>2, <2>2
  <2> QED BY <1>2, <2>3
<1> QED BY <1>1, <1>2

LEMMA MaxOfTwo == ASSUME NEW m \in Int, NEW n \in Int PROVE Max({m, n}) = IF m <= n THEN n ELSE m
<1>1. CASE m <= n
  <2>1. n \in {m, n} /\ \A y \in {m, n} : n >= y
    BY <1>1
  <2>2. Max({m, n}) \in {m, n} /\ \A y \in {m, n} : Max({m, n}) >= y
    BY <2>1 DEF Max
  <2>3. Max({m, n}) \in Int /\ Max({m, n}) >= n /\ n >= Max({m, n})
    BY <1>1, <2>2
  <2> QED BY <1>1, <2>3
<1>2. CASE ~(m <= n)
  <2>1. m \in {m, n} /\ \A y \in {m, n} : m >= y
    BY <1>2
  <2>2. Max({m, n}) \in {m, n} /\ \A y \in {m, n} : Max({m, n}) >= y
    BY <2>1 DEF Max
  <2>3. Max({m, n}) \in Int /\ Max({m, n}) >= m /\ m >= Max({m, n})
    BY <1>2, <2>2
  <2> QED BY <1>2, <2>3
<1> QED BY <1>1, <1>2

\* The score is a number.
LEMMA ScoreIsInt == ASSUME NEW p, IsRow(p) PROVE SignalScore(p) \in Int
<1> DEFINE a == IF p.verified THEN 50 + SpeedPoints(p.ms) ELSE 0
           c == p.previews * 2
           d == p.outbounds * 4
           e == p.matchEvents * 12 + p.matches * 8
           g == RecencyPoints(p.age)
<1>1. \A m \in Int, n \in Int : Min({m, n}) \in Int
  BY MinOfTwo
<1>2. a \in Int /\ c \in Int /\ d \in Int /\ e \in Int /\ g \in Int
  BY DEF IsRow, SpeedPoints, RecencyPoints
<1>3. SignalScore(p) = Min({100, a + Min({10, c}) + Min({12, d}) + Min({24, e}) + g})
  BY DEF SignalScore
<1> HIDE DEF a, c, d, e, g
<1>4. Min({10, c}) \in Int /\ Min({12, d}) \in Int /\ Min({24, e}) \in Int
  BY <1>1, <1>2
<1>5. a + Min({10, c}) + Min({12, d}) + Min({24, e}) + g \in Int
  BY <1>2, <1>4
<1> QED BY <1>1, <1>3, <1>5

LEMMA KeyIsInt == ASSUME NEW p, IsRow(p), NEW sort PROVE SortKey(p, sort) \in Int
BY DEF IsRow, SortKey

\* What is compared to put rows in order, and by when they were created.
Ahead(M, sort) == {x \in M \X M : Before(x[1], x[2], sort)}
Newer(M) == {x \in M \X M : x[1].created > x[2].created}

LEMMA AheadOrders == ASSUME NEW M, RowsOK(M), NEW sort PROVE Orders(Ahead(M, sort), M)
<1> DEFINE K(p) == SortKey(p, sort)
           C(p) == SignalScore(p)
<1>1. \A p \in M : K(p) \in Int /\ C(p) \in Int /\ p.created \in Int
  <2> TAKE p \in M
  <2>1. IsRow(p)
    BY VersionOf DEF RowsOK
  <2>2. p.created \in Int
    BY <2>1 DEF IsRow
  <2> QED BY <2>1, <2>2, ScoreIsInt, KeyIsInt
<1>2. \A p, r \in M : <<p, r>> \in Ahead(M, sort) <=>
        \/ K(p) > K(r)
        \/ K(p) = K(r) /\ C(p) > C(r)
        \/ K(p) = K(r) /\ C(p) = C(r) /\ p.created > r.created
  BY DEF Ahead, Before
<1>3. \A p, r \in M : p.created = r.created => p = r
  BY OneMoment
<1>4. Ahead(M, sort) \subseteq M \X M
  BY DEF Ahead
<1> HIDE DEF K, C
<1>5. \A p \in M : <<p, p>> \notin Ahead(M, sort)
  BY <1>1, <1>2
<1>6. \A p, r \in M : p = r \/ <<p, r>> \in Ahead(M, sort) \/ <<r, p>> \in Ahead(M, sort)
  <2> TAKE p \in M, r \in M
  <2>1. CASE p.created = r.created
    BY <1>3, <2>1
  <2>2. CASE p.created # r.created
    BY <1>1, <1>2, <2>2
  <2> QED BY <2>1, <2>2
<1>7. \A p, r, t \in M : <<p, r>> \in Ahead(M, sort) /\ <<r, t>> \in Ahead(M, sort)
                          => <<p, t>> \in Ahead(M, sort)
  BY <1>1, <1>2
<1> QED BY <1>4, <1>5, <1>6, <1>7 DEF Orders

LEMMA NewerOrders == ASSUME NEW M, RowsOK(M) PROVE Orders(Newer(M), M)
<1>1. \A p \in M : p.created \in Int
  <2> TAKE p \in M
  <2>1. IsRow(p)
    BY VersionOf DEF RowsOK
  <2> QED BY <2>1 DEF IsRow
<1>2. \A p, r \in M : <<p, r>> \in Newer(M) <=> p.created > r.created
  BY DEF Newer
<1>3. \A p, r \in M : p.created = r.created => p = r
  BY OneMoment
<1>4. Newer(M) \subseteq M \X M
  BY DEF Newer
<1>5. \A p \in M : <<p, p>> \notin Newer(M)
  BY <1>1, <1>2
<1>6. \A p, r \in M : p = r \/ <<p, r>> \in Newer(M) \/ <<r, p>> \in Newer(M)
  <2> TAKE p \in M, r \in M
  <2>1. CASE p.created = r.created
    BY <1>3, <2>1
  <2>2. CASE p.created # r.created
    BY <1>1, <1>2, <2>2
  <2> QED BY <2>1, <2>2
<1>7. \A p, r, t \in M : <<p, r>> \in Newer(M) /\ <<r, t>> \in Newer(M) => <<p, t>> \in Newer(M)
  BY <1>1, <1>2
<1> QED BY <1>4, <1>5, <1>6, <1>7 DEF Orders

\* A part of the rows is rows.
LEMMA PartOK == ASSUME NEW M, RowsOK(M), NEW N \in SUBSET M PROVE RowsOK(N)
BY FS_Subset DEF RowsOK

\* The ranking: each match once, in the order of Before.
LEMMA RankingIsComplete ==
  ASSUME NEW M, RowsOK(M), NEW q
  PROVE  LET found == {p \in M : Matches(p, q)}
             s == Ranked(M, q)
         IN /\ s \in Seq(found) /\ Len(s) = Cardinality(found)
            /\ \A i, j \in 1 .. Len(s) : i < j => Before(s[i], s[j], q.sort)
            /\ \A p \in found : \E i \in 1 .. Len(s) : s[i] = p
<1> DEFINE found == {p \in M : Matches(p, q)}
           R == Ahead(found, q.sort)
           rank == [x \in found |-> Cardinality({y \in found : Before(y, x, q.sort)})]
           s == [i \in 1 .. Cardinality(found) |-> CHOOSE x \in found : rank[x] = i - 1]
<1>1. RowsOK(found)
  <2>1. found \in SUBSET M
    OBVIOUS
  <2> HIDE DEF found
  <2> QED BY <2>1, PartOK
<1>2. Ranked(M, q) = s
  BY DEF Ranked, InOrder
<1> HIDE DEF found
<1>3. Orders(R, found) /\ IsFiniteSet(found)
  BY <1>1, AheadOrders DEF RowsOK
<1>4. \A x \in found : rank[x] = Cardinality({y \in found : <<y, x>> \in R})
  <2> TAKE x \in found
  <2>1. {y \in found : <<y, x>> \in R} = {y \in found : Before(y, x, q.sort)}
    BY DEF Ahead
  <2> QED BY <2>1
<1> HIDE DEF R
<1>5. ASSUME NEW i \in 1 .. Cardinality(found)
      PROVE  s[i] \in found /\ Cardinality({y \in found : <<y, s[i]>> \in R}) = i - 1
  <2>1. Cardinality(found) \in Nat
    BY <1>3, FS_CardinalityType
  <2>2. i - 1 \in 0 .. Cardinality(found) - 1
    BY <2>1
  <2>5. \E x \in found : Cardinality({y \in found : <<y, x>> \in R}) = i - 1
    BY <1>3, <2>2, EveryPlaceIsHeld
  <2>3. \E x \in found : rank[x] = i - 1
    BY <1>4, <2>5
  <2> HIDE DEF rank
  <2>4. s[i] \in found /\ rank[s[i]] = i - 1
    BY <2>3
  <2> QED BY <1>4, <2>4
<1> HIDE DEF rank, s
<1>6. s = [i \in 1 .. Cardinality(found) |-> s[i]]
  BY DEF s
<1>7. Placed(s, R, found)
  BY <1>5, <1>6 DEF Placed
<1>8. /\ s \in Seq(found) /\ Len(s) = Cardinality(found)
      /\ \A i, j \in 1 .. Len(s) : i < j => <<s[i], s[j]>> \in R
      /\ \A x \in found : \E i \in 1 .. Len(s) : s[i] = x
  BY <1>3, <1>7, PlacedInOrder
<1>9. \A i, j \in 1 .. Len(s) : i < j => Before(s[i], s[j], q.sort)
  BY <1>8 DEF R, Ahead
<1> QED BY <1>2, <1>8, <1>9 DEF found

\* And the maker's projects, the newest first.
OwnedBy(M, maker) == {p \in M : p.maker = maker}
Profiled(M, maker, s) ==
  /\ s \in Seq(OwnedBy(M, maker)) /\ Len(s) = Cardinality(OwnedBy(M, maker))
  /\ MakerProfile(M, maker) = [i \in DOMAIN s |-> Hydrate(s[i])]

LEMMA ProfileIsComplete ==
  ASSUME NEW M, RowsOK(M), NEW maker
  PROVE  \E s : Profiled(M, maker, s)
<1> DEFINE own == OwnedBy(M, maker)
           R == Newer(own)
           rank == [x \in own |-> Cardinality({y \in own : y.created > x.created})]
           s == [i \in 1 .. Cardinality(own) |-> CHOOSE x \in own : rank[x] = i - 1]
<1>1. RowsOK(own)
  BY PartOK DEF OwnedBy
<1>2. MakerProfile(M, maker) = [i \in DOMAIN s |-> Hydrate(s[i])]
  BY DEF MakerProfile, InOrder, OwnedBy
<1> HIDE DEF own
<1>3. Orders(R, own) /\ IsFiniteSet(own)
  BY <1>1, NewerOrders DEF RowsOK
<1>4. \A x \in own : rank[x] = Cardinality({y \in own : <<y, x>> \in R})
  <2> TAKE x \in own
  <2>1. {y \in own : <<y, x>> \in R} = {y \in own : y.created > x.created}
    BY DEF Newer
  <2> QED BY <2>1
<1> HIDE DEF R
<1>5. ASSUME NEW i \in 1 .. Cardinality(own)
      PROVE  s[i] \in own /\ Cardinality({y \in own : <<y, s[i]>> \in R}) = i - 1
  <2>1. Cardinality(own) \in Nat
    BY <1>3, FS_CardinalityType
  <2>2. i - 1 \in 0 .. Cardinality(own) - 1
    BY <2>1
  <2>5. \E x \in own : Cardinality({y \in own : <<y, x>> \in R}) = i - 1
    BY <1>3, <2>2, EveryPlaceIsHeld
  <2>3. \E x \in own : rank[x] = i - 1
    BY <1>4, <2>5
  <2> HIDE DEF rank
  <2>4. s[i] \in own /\ rank[s[i]] = i - 1
    BY <2>3
  <2> QED BY <1>4, <2>4
<1> HIDE DEF rank, s
<1>6. s = [i \in 1 .. Cardinality(own) |-> s[i]]
  BY DEF s
<1>7. Placed(s, R, own)
  BY <1>5, <1>6 DEF Placed
<1>8. s \in Seq(own) /\ Len(s) = Cardinality(own)
  BY <1>3, <1>7, PlacedInOrder
<1> QED BY <1>2, <1>8 DEF Profiled, own

------------------------------------------------------------------------------
(* Numbers: division, pages.                                                *)

LEMMA Division ==
  ASSUME NEW a \in Nat, NEW l \in Nat \ {0}
  PROVE  a \div l \in Nat /\ (a \div l) * l <= a /\ a < (a \div l) * l + l
OBVIOUS

LEMMA ProductIsNat == ASSUME NEW a \in Nat, NEW b \in Nat PROVE a * b \in Nat
OBVIOUS

LEMMA ProductGrows ==
  ASSUME NEW a \in Nat, NEW b \in Nat, NEW l \in Nat, a <= b PROVE a * l <= b * l
OBVIOUS

LEMMA OneMore == ASSUME NEW a \in Int, NEW l \in Int PROVE (a + 1) * l = a * l + l /\ (a - 1) * l = a * l - l
OBVIOUS

------------------------------------------------------------------------------
(* Pages of l elements of a sequence, put one after the other.               *)

Stop(k, l, n) == IF k * l <= n THEN k * l ELSE n
Piece(H, a, b) == [i \in 1 .. b - a |-> H[a + i]]
Paged(H, l, m) == [k \in 1 .. m |-> Piece(H, (k - 1) * l, Stop(k, l, Len(H)))]

LEMMA PieceIsSeq ==
  ASSUME NEW A, NEW H \in Seq(A), NEW a \in Nat, NEW b \in Nat, a <= b, b <= Len(H)
  PROVE  Piece(H, a, b) \in Seq(A) /\ Len(Piece(H, a, b)) = b - a
<1>1. \A i \in 1 .. b - a : H[a + i] \in A
  <2> TAKE i \in 1 .. b - a
  <2>1. a + i \in 1 .. Len(H)
    OBVIOUS
  <2> QED BY <2>1
<1>2. Piece(H, a, b) \in [1 .. b - a -> A] /\ b - a \in Nat
  BY <1>1 DEF Piece
<1> QED BY <1>2

LEMMA Glue ==
  ASSUME NEW A, NEW H \in Seq(A), NEW a \in Nat, NEW b \in Nat, a <= b, b <= Len(H)
  PROVE  Piece(H, 0, a) \o Piece(H, a, b) = Piece(H, 0, b)
<1> DEFINE x == Piece(H, 0, a)
           y == Piece(H, a, b)
           z == Piece(H, 0, b)
<1>1. x \in Seq(A) /\ Len(x) = a /\ y \in Seq(A) /\ Len(y) = b - a /\ z \in Seq(A) /\ Len(z) = b
  <2>1. 0 \in Nat /\ 0 <= a /\ 0 <= b /\ a <= Len(H) /\ a - 0 = a /\ b - 0 = b
    OBVIOUS
  <2>2. x \in Seq(A) /\ Len(x) = a - 0
    BY <2>1, PieceIsSeq
  <2>3. y \in Seq(A) /\ Len(y) = b - a
    BY PieceIsSeq
  <2>4. z \in Seq(A) /\ Len(z) = b - 0
    BY <2>1, PieceIsSeq
  <2> HIDE DEF x, y, z
  <2> QED BY <2>1, <2>2, <2>3, <2>4
<1>2. /\ \A i \in 1 .. a : x[i] = H[i]
      /\ \A i \in 1 .. b - a : y[i] = H[a + i]
      /\ \A i \in 1 .. b : z[i] = H[i]
  BY DEF Piece
<1> HIDE DEF x, y, z
<1>3. x \o y \in Seq(A) /\ Len(x \o y) = b
  BY <1>1
<1>4. ASSUME NEW i \in 1 .. b PROVE (x \o y)[i] = z[i]
  <2>1. CASE i <= a
    <3>1. (x \o y)[i] = x[i]
      BY <1>1, <2>1
    <3> QED BY <1>2, <2>1, <3>1
  <2>2. CASE ~(i <= a)
    <3>1. (x \o y)[i] = y[i - a]
      BY <1>1, <2>2
    <3>2. i - a \in 1 .. b - a /\ a + (i - a) = i
      BY <2>2
    <3> QED BY <1>2, <3>1, <3>2
  <2> QED BY <2>1, <2>2
<1>5. x \o y = z
  BY <1>1, <1>3, <1>4
<1> QED BY <1>5 DEF x, y, z

\* The recursion of FlattenSeq.
Flattening(g, s) == g = [i \in 1 .. Len(s) |-> IF i = 1 THEN s[i] ELSE g[i - 1] \o s[i]]

LEMMA FlattenUnfolded ==
  ASSUME NEW s, Len(s) # 0 PROVE FlattenSeq(s) = (CHOOSE g : Flattening(g, s))[Len(s)]
BY DEF FlattenSeq, Flattening

LEMMA PagesMakeTheWhole ==
  ASSUME NEW A, NEW H \in Seq(A), NEW l \in Nat \ {0}, NEW m \in Nat \ {0},
         Len(H) <= m * l, (m - 1) * l <= Len(H)
  PROVE  FlattenSeq(Paged(H, l, m)) = H
<1> DEFINE n == Len(H)
           s == Paged(H, l, m)
           w == [k \in 1 .. m |-> Piece(H, 0, Stop(k, l, n))]
<1>1. n \in Nat
  OBVIOUS
<1>2. \A k \in 1 .. m : /\ (k - 1) * l \in Nat /\ k * l \in Nat /\ (k - 1) * l <= n
                        /\ (k - 1) * l <= k * l
                        /\ Stop(k, l, n) \in Nat /\ (k - 1) * l <= Stop(k, l, n) /\ Stop(k, l, n) <= n
                        /\ (k # 1 => Stop(k - 1, l, n) = (k - 1) * l)
  <2> TAKE k \in 1 .. m
  <2>1. k - 1 \in Nat /\ k \in Nat /\ m - 1 \in Nat /\ k - 1 <= m - 1 /\ k - 1 <= k
    OBVIOUS
  <2>2. (k - 1) * l \in Nat /\ k * l \in Nat /\ (m - 1) * l \in Nat
    BY <2>1, ProductIsNat
  <2>3. (k - 1) * l <= (m - 1) * l /\ (k - 1) * l <= k * l
    BY <2>1, ProductGrows
  <2>4. (k - 1) * l <= n
    BY <1>1, <2>2, <2>3
  <2> HIDE DEF n
  <2> QED BY <1>1, <2>2, <2>3, <2>4 DEF Stop
<1>3. Len(s) = m /\ s = [k \in 1 .. m |-> Piece(H, (k - 1) * l, Stop(k, l, n))]
  BY DEF Paged
<1> HIDE DEF s, n
<1>4. \A k \in 1 .. m : w[k] = IF k = 1 THEN s[k] ELSE w[k - 1] \o s[k]
  <2> TAKE k \in 1 .. m
  <2>1. s[k] = Piece(H, (k - 1) * l, Stop(k, l, n)) /\ w[k] = Piece(H, 0, Stop(k, l, n))
    BY <1>3
  <2>2. CASE k = 1
    <3>1. (k - 1) * l = 0
      BY <2>2
    <3> QED BY <2>1, <2>2, <3>1
  <2>3. CASE k # 1
    <3>1. w[k - 1] = Piece(H, 0, (k - 1) * l)
      <4>3. k # 1 => Stop(k - 1, l, n) = (k - 1) * l
        BY <1>2
      <4>4. k - 1 \in 1 .. m
        BY <2>3
      <4>1. k - 1 \in 1 .. m /\ Stop(k - 1, l, n) = (k - 1) * l
        BY <2>3, <4>3, <4>4
      <4>2. w[k - 1] = Piece(H, 0, Stop(k - 1, l, n))
        BY <4>1
      <4> QED BY <4>1, <4>2
    <3>2. Piece(H, 0, (k - 1) * l) \o Piece(H, (k - 1) * l, Stop(k, l, n)) = Piece(H, 0, Stop(k, l, n))
      <4>1. /\ (k - 1) * l \in Nat /\ Stop(k, l, n) \in Nat
            /\ (k - 1) * l <= Stop(k, l, n) /\ Stop(k, l, n) <= Len(H)
        BY <1>2 DEF n
      <4> QED BY <4>1, Glue
    <3> QED BY <2>1, <2>3, <3>1, <3>2
  <2> QED BY <2>2, <2>3
<1>5. Flattening(w, s)
  <2>1. w = [k \in 1 .. m |-> w[k]]
    OBVIOUS
  <2> HIDE DEF w
  <2> QED BY <1>3, <1>4, <2>1 DEF Flattening
<1> DEFINE g == CHOOSE h : Flattening(h, s)
<1>6. Flattening(g, s)
  BY <1>5
<1> HIDE DEF g, w
<1>7. \A k \in 1 .. m : g[k] = IF k = 1 THEN s[k] ELSE g[k - 1] \o s[k]
  BY <1>3, <1>6 DEF Flattening
<1> DEFINE N == {k \in Nat : k \in 1 .. m => g[k] = w[k]}
<1>8. 0 \in N
  OBVIOUS
<1>9. ASSUME NEW k \in N PROVE k + 1 \in N
  <2>1. CASE k + 1 \in 1 .. m
    <3>1. CASE k = 0
      <4>1. g[1] = s[1] /\ w[1] = s[1]
        BY <1>4, <1>7, <2>1, <3>1
      <4> QED BY <3>1, <4>1
    <3>2. CASE k # 0
      <4>1. k \in 1 .. m /\ k + 1 # 1 /\ (k + 1) - 1 = k
        BY <2>1, <3>2
      <4>2. g[k] = w[k]
        BY <4>1
      <4>3. g[k + 1] = g[k] \o s[k + 1] /\ w[k + 1] = w[k] \o s[k + 1]
        BY <1>4, <1>7, <2>1, <4>1
      <4>4. g[k + 1] = w[k + 1]
        BY <4>2, <4>3
      <4> QED BY <4>4
    <3> QED BY <3>1, <3>2
  <2>2. CASE k + 1 \notin 1 .. m
    BY <2>2
  <2> QED BY <2>1, <2>2
<1> HIDE DEF N
<1>10. N = Nat
  <2>1. N \in SUBSET Nat
    BY DEF N
  <2> QED BY <1>8, <1>9, <2>1, NaturalsBySuccessor
<1>11. g[m] = w[m]
  BY <1>10 DEF N
<1>12. w[m] = H
  <2>1. Stop(m, l, n) = n /\ w[m] = Piece(H, 0, n)
    BY <1>1, ProductIsNat DEF w, Stop, n
  <2>2. Piece(H, 0, n) \in Seq(A) /\ Len(Piece(H, 0, n)) = n
    <3>1. 0 \in Nat /\ 0 <= n /\ n <= Len(H) /\ n - 0 = n
      BY <1>1 DEF n
    <3>2. Piece(H, 0, n) \in Seq(A) /\ Len(Piece(H, 0, n)) = n - 0
      BY <1>1, <3>1, PieceIsSeq
    <3> QED BY <3>1, <3>2
  <2>3. \A i \in 1 .. n : Piece(H, 0, n)[i] = H[i]
    BY <1>1 DEF Piece
  <2>4. Piece(H, 0, n) = H
    BY <2>2, <2>3 DEF n
  <2> QED BY <2>1, <2>4
<1>13. FlattenSeq(s) = g[m]
  <2>1. Len(s) # 0
    BY <1>3
  <2> QED BY <1>3, <2>1, FlattenUnfolded DEF g
<1> QED BY <1>11, <1>12, <1>13 DEF s

------------------------------------------------------------------------------
(* The answer of getProjectList.                                             *)

\* What leaves the server of a row, in any of its versions.
Hydrated == {Hydrate(p) : p \in Versions}

Shown(M, q) == [i \in DOMAIN Ranked(M, q) |-> Hydrate(Ranked(M, q)[i])]
PageCount(n, l) == IF n = 0 THEN 1 ELSE (n + l - 1) \div l
Clipped(k, m) == IF k <= m THEN k ELSE m

LEMMA ShownIsSeq ==
  ASSUME NEW M, RowsOK(M), NEW q
  PROVE  /\ Shown(M, q) \in Seq(Hydrated) /\ Len(Shown(M, q)) = Len(Ranked(M, q))
         /\ DOMAIN Ranked(M, q) = 1 .. Len(Ranked(M, q)) /\ Len(Ranked(M, q)) \in Nat
<1> DEFINE r == Ranked(M, q)
           found == {p \in M : Matches(p, q)}
<1>1. r \in Seq(found)
  BY RankingIsComplete
<1>2. found \subseteq Versions
  BY DEF RowsOK
<1> HIDE DEF found, r
<1>3. Len(r) \in Nat /\ DOMAIN r = 1 .. Len(r) /\ \A i \in 1 .. Len(r) : r[i] \in Versions
  BY <1>1, <1>2
<1>4. [i \in 1 .. Len(r) |-> Hydrate(r[i])] \in [1 .. Len(r) -> Hydrated]
  BY <1>3 DEF Hydrated
<1>5. [i \in 1 .. Len(r) |-> Hydrate(r[i])] \in Seq(Hydrated)
  BY <1>3, <1>4
<1>6. Len([i \in 1 .. Len(r) |-> Hydrate(r[i])]) = Len(r)
  BY <1>3
<1> QED BY <1>3, <1>5, <1>6 DEF Shown, r

\* The number of pages: enough for all, and no more than needed.
LEMMA PagesFit ==
  ASSUME NEW n \in Nat, NEW l \in 1 .. 100
  PROVE  /\ Max({1, (n + l - 1) \div l}) = PageCount(n, l)
         /\ PageCount(n, l) \in Nat \ {0}
         /\ n <= PageCount(n, l) * l /\ (PageCount(n, l) - 1) * l <= n
<1> DEFINE d == (n + l - 1) \div l
<1>1. d \in Nat /\ d * l \in Nat /\ d * l <= n + l - 1 /\ n + l - 1 < d * l + l
  <2>1. n + l - 1 \in Nat /\ l \in Nat \ {0}
    OBVIOUS
  <2> QED BY <2>1, Division, ProductIsNat
<1> HIDE DEF d
<1>2. CASE n = 0
  <2>1. d = 0
    <3> SUFFICES ASSUME d # 0 PROVE FALSE
      OBVIOUS
    <3>1. 1 * l <= d * l
      BY <1>1, ProductGrows
    <3> QED BY <1>1, <1>2, <3>1
  <2>2. Max({1, d}) = 1
    BY <2>1, MaxOfTwo
  <2> QED BY <1>2, <2>2 DEF PageCount, d
<1>3. CASE n # 0
  <2>1. d # 0
    BY <1>1, <1>3
  <2>2. Max({1, d}) = d
    BY <1>1, <2>1, MaxOfTwo
  <2>3. (d - 1) * l = d * l - l
    BY <1>1, OneMore
  <2>4. n <= d * l /\ (d - 1) * l <= n
    BY <1>1, <2>3
  <2> QED BY <1>1, <1>3, <2>1, <2>2, <2>4 DEF PageCount, d
<1> QED BY <1>2, <1>3

LEMMA PageIs ==
  ASSUME NEW M, RowsOK(M), NEW q, q.limit \in 1 .. 100, q.page \in Nat \ {0}
  PROVE  LET n == Len(Ranked(M, q))
             m == PageCount(n, q.limit)
             k == Clipped(q.page, m)
         IN PageOf(M, q) = [data |-> Piece(Shown(M, q), (k - 1) * q.limit, Stop(k, q.limit, n)),
                            meta |-> [total |-> n, page |-> k, pages |-> m,
                                      prev |-> k > 1, next |-> k < m]]
<1> DEFINE r == Ranked(M, q)
           n == Len(r)
           l == q.limit
           m == PageCount(n, l)
           k == Clipped(q.page, m)
           a == (k - 1) * l
           b == Stop(k, l, n)
           data == SubSeq(r, FirstOf(k, l), Min({FirstOf(k, l) + l - 1, n}))
<1>1. r \in Seq(M) /\ n \in Nat
  <2> DEFINE found == {p \in M : Matches(p, q)}
  <2>1. r \in Seq(found) /\ found \subseteq M
    BY RankingIsComplete
  <2> HIDE DEF found, r
  <2> QED BY <2>1
<1>2. Shown(M, q) = [i \in 1 .. n |-> Hydrate(r[i])]
  BY ShownIsSeq DEF Shown
<1>3. l \in 1 .. 100 /\ q.page \in Nat \ {0}
  OBVIOUS
<1> HIDE DEF r
<1>4. PageOf(M, q) = [data |-> [i \in DOMAIN data |-> Hydrate(data[i])],
                      meta |-> [total |-> n, page |-> k, pages |-> m, prev |-> k > 1, next |-> k < m]]
  <2>1. Max({1, (n + l - 1) \div l}) = m /\ m \in Nat \ {0}
    BY <1>1, <1>3, PagesFit
  <2>2. Max({1, q.page}) = q.page
    BY <1>3, MaxOfTwo
  <2>3. Min({Max({1, q.page}), m}) = k
    <3> HIDE DEF m
    <3>1. Min({q.page, m}) = IF q.page <= m THEN q.page ELSE m
      BY <1>3, <2>1, MinOfTwo
    <3> QED BY <2>2, <3>1 DEF Clipped
  <2> HIDE DEF m, k
  <2> QED BY <2>1, <2>3 DEF PageOf, r
<1>5. k \in 1 .. m /\ m \in Nat \ {0} /\ (m - 1) * l <= n
  <2>1. m \in Nat \ {0} /\ (m - 1) * l <= n
    BY <1>1, <1>3, PagesFit
  <2> HIDE DEF m
  <2> QED BY <1>3, <2>1 DEF Clipped
<1> HIDE DEF m, k, n
<1>6. /\ a \in Nat /\ a <= n /\ k * l = a + l
      /\ b = IF a + l <= n THEN a + l ELSE n
  <2>1. k - 1 \in Nat /\ m - 1 \in Nat /\ k - 1 <= m - 1 /\ k \in Nat
    BY <1>5
  <2>2. a \in Nat /\ (m - 1) * l \in Nat /\ a <= (m - 1) * l
    BY <1>3, <2>1, ProductIsNat, ProductGrows
  <2>3. k * l = a + l
    <3>1. ((k - 1) + 1) * l = (k - 1) * l + l /\ (k - 1) + 1 = k
      BY <1>3, <2>1, OneMore
    <3> QED BY <3>1
  <2> HIDE DEF a
  <2> QED BY <1>1, <1>3, <1>5, <2>2, <2>3 DEF Stop
<1>7. FirstOf(k, l) = a + 1
  BY DEF FirstOf
<1> HIDE DEF a, b, l
<1>8. FirstOf(k, l) + l - 1 = a + l /\ Min({a + l, n}) = b
  <2>1. Min({a + l, n}) = IF a + l <= n THEN a + l ELSE n
    BY <1>1, <1>3, <1>6, MinOfTwo
  <2> QED BY <1>3, <1>6, <1>7, <2>1
<1>9. data = SubSeq(r, a + 1, b)
  BY <1>7, <1>8
<1> HIDE DEF data
<1>10. DOMAIN data = 1 .. b - a /\ \A i \in 1 .. b - a : data[i] = r[a + i]
  <2>1. b \in Nat /\ a <= b /\ b <= n /\ n = Len(r)
    BY <1>1, <1>3, <1>6 DEF n
  <2> QED BY <1>1, <1>6, <1>9, <2>1
<1>11. \A i \in 1 .. b - a : a + i \in 1 .. n
  BY <1>1, <1>3, <1>6
<1>12. [i \in DOMAIN data |-> Hydrate(data[i])] = Piece(Shown(M, q), a, b)
  <2>1. \A i \in 1 .. b - a : Hydrate(data[i]) = Shown(M, q)[a + i]
    BY <1>2, <1>10, <1>11
  <2> QED BY <1>10, <2>1 DEF Piece
<1> QED BY <1>4, <1>12 DEF a, b, k, l, m, n, r

\* The page asked for changes neither the matches nor their order.
InPlace(found, sort) == InOrder(found, LAMBDA a, b : Before(a, b, sort))

LEMMA RankingIgnoresPage ==
  ASSUME NEW M, NEW n
  PROVE  LET k == [Key EXCEPT !.page = n]
         IN Ranked(M, k) = Ranked(M, Key) /\ k.page = n /\ k.limit = Key.limit
<1> DEFINE k == [Key EXCEPT !.page = n]
<1>1. /\ k.q = Key.q /\ k.category = Key.category /\ k.tag = Key.tag /\ k.access = Key.access
      /\ k.sort = Key.sort /\ k.page = n /\ k.limit = Key.limit /\ k.minSignal = Key.minSignal
      /\ k.verified = Key.verified /\ k.min = Key.min /\ k.max = Key.max
  BY DEF Key, Query
<1> HIDE DEF k
<1>2. \A p \in M : Matches(p, k) <=> Matches(p, Key)
  BY <1>1 DEF Matches
<1>3. {p \in M : Matches(p, k)} = {p \in M : Matches(p, Key)}
  BY <1>2
<1>4. /\ Ranked(M, k) = InPlace({p \in M : Matches(p, k)}, k.sort)
      /\ Ranked(M, Key) = InPlace({p \in M : Matches(p, Key)}, Key.sort)
  BY DEF Ranked, InPlace
<1>5. Ranked(M, k) = Ranked(M, Key)
  BY <1>1, <1>3, <1>4
<1> QED BY <1>1, <1>5 DEF k

LEMMA PagesCover ==
  ASSUME RowsOK(rows), f \in Filters PROVE PagesCoverTheRanking
<1> DEFINE Turn(n) == PageOf(rows, [Key EXCEPT !.page = n])
           H == Shown(rows, Key)
           size == Len(Ranked(rows, Key))
           l == Key.limit
           m == PageCount(size, l)
<1>1. l \in 1 .. 100
  BY DEF Key, Query, Filters
<1>2. size \in Nat /\ H \in Seq(Hydrated) /\ Len(H) = size
  BY ShownIsSeq
<1>3. ASSUME NEW n \in Nat \ {0}
      PROVE  Turn(n) = [data |-> Piece(H, (Clipped(n, m) - 1) * l, Stop(Clipped(n, m), l, size)),
                        meta |-> [total |-> size, page |-> Clipped(n, m), pages |-> m,
                                  prev |-> Clipped(n, m) > 1, next |-> Clipped(n, m) < m]]
  <2> DEFINE k == [Key EXCEPT !.page = n]
  <2>1. Ranked(rows, k) = Ranked(rows, Key) /\ k.page = n /\ k.limit = l
    BY RankingIgnoresPage
  <2> HIDE DEF k, l
  <2>2. Shown(rows, k) = H
    BY <2>1 DEF Shown
  <2>3. k.limit \in 1 .. 100 /\ k.page \in Nat \ {0}
    BY <1>1, <2>1
  <2> HIDE DEF H
  <2>4. PageOf(rows, k)
          = [data |-> Piece(Shown(rows, k), (Clipped(k.page, PageCount(Len(Ranked(rows, k)), k.limit)) - 1) * k.limit,
                            Stop(Clipped(k.page, PageCount(Len(Ranked(rows, k)), k.limit)), k.limit, Len(Ranked(rows, k)))),
             meta |-> [total |-> Len(Ranked(rows, k)),
                       page |-> Clipped(k.page, PageCount(Len(Ranked(rows, k)), k.limit)),
                       pages |-> PageCount(Len(Ranked(rows, k)), k.limit),
                       prev |-> Clipped(k.page, PageCount(Len(Ranked(rows, k)), k.limit)) > 1,
                       next |-> Clipped(k.page, PageCount(Len(Ranked(rows, k)), k.limit))
                                  < PageCount(Len(Ranked(rows, k)), k.limit)]]
    BY <2>3, PageIs
  <2>5. PageOf(rows, k) = Turn(n)
    BY DEF k
  <2> HIDE DEF Turn
  <2> QED BY <2>1, <2>2, <2>4, <2>5
<1>4. m \in Nat \ {0} /\ size <= m * l /\ (m - 1) * l <= size
  BY <1>1, <1>2, PagesFit
<1> HIDE DEF Turn, H, m, l, size
<1>5. Turn(1).meta.pages = m
  <2>1. Turn(1) = [data |-> Piece(H, (Clipped(1, m) - 1) * l, Stop(Clipped(1, m), l, size)),
                   meta |-> [total |-> size, page |-> Clipped(1, m), pages |-> m,
                             prev |-> Clipped(1, m) > 1, next |-> Clipped(1, m) < m]]
    BY <1>3
  <2> QED BY <2>1
<1>6. ASSUME NEW n \in 1 .. m PROVE Turn(n).data = Piece(H, (n - 1) * l, Stop(n, l, size))
  <2>1. n \in Nat \ {0} /\ Clipped(n, m) = n
    BY <1>4 DEF Clipped
  <2> QED BY <1>3, <2>1
<1>7. [n \in 1 .. m |-> Turn(n).data] = Paged(H, l, m)
  BY <1>2, <1>6 DEF Paged
<1>8. FlattenSeq([n \in 1 .. m |-> Turn(n).data]) = H
  <2>1. l \in Nat \ {0}
    BY <1>1
  <2> QED BY <1>2, <1>4, <1>7, <2>1, PagesMakeTheWhole
<1>9. Turn(m + 1) = Turn(m)
  <2>1. Clipped(m + 1, m) = m /\ Clipped(m, m) = m /\ m + 1 \in Nat \ {0}
    BY <1>4 DEF Clipped
  <2> QED BY <1>3, <1>4, <2>1
<1>10. H = [i \in DOMAIN Ranked(rows, Key) |-> Hydrate(Ranked(rows, Key)[i])]
  BY DEF H, Shown
<1>11. /\ FlattenSeq([n \in 1 .. Turn(1).meta.pages |-> Turn(n).data])
            = [i \in DOMAIN Ranked(rows, Key) |-> Hydrate(Ranked(rows, Key)[i])]
       /\ Turn(Turn(1).meta.pages + 1) = Turn(Turn(1).meta.pages)
  BY <1>5, <1>8, <1>9, <1>10
<1> QED BY <1>11 DEF PagesCoverTheRanking, Turn

------------------------------------------------------------------------------
(* What is shown of a screened project.                                      *)

LEMMA HydratedOf ==
  ASSUME NEW x \in Hydrated
  PROVE  \E b \in Base : x.id = b.id /\ x.url = IF b.access = "screened" THEN Redacted ELSE b.url
<1>1. PICK p \in Versions : x = Hydrate(p)
  BY DEF Hydrated
<1>2. PICK b \in Base : p.id = b.id /\ p.access = b.access /\ p.url = b.url
  BY VersionOf
<1> QED BY <1>1, <1>2 DEF Hydrate

LEMMA ProfilesHide ==
  ASSUME NEW M, RowsOK(M), NEW p \in M, p.access = "screened", NEW maker,
         NEW i \in DOMAIN MakerProfile(M, maker)
  PROVE  MakerProfile(M, maker)[i].url # p.url
<1>1. PICK s : Profiled(M, maker, s)
  BY ProfileIsComplete
<1>2. i \in DOMAIN s /\ s[i] \in M /\ MakerProfile(M, maker)[i] = Hydrate(s[i])
  <2>1. OwnedBy(M, maker) \subseteq M
    BY DEF OwnedBy
  <2> QED BY <1>1, <2>1 DEF Profiled
<1>3. p \in Versions /\ s[i] \in Versions
  BY <1>2 DEF RowsOK
<1>4. Hydrate(s[i]) \in Hydrated
  BY <1>3 DEF Hydrated
<1>5. PICK b \in Base : Hydrate(s[i]).url = IF b.access = "screened" THEN Redacted ELSE b.url
  BY <1>4, HydratedOf
<1>6. PICK c \in Base : c.url = p.url /\ c.access = "screened"
  BY <1>3, VersionOf
<1>7. c.url # Redacted /\ (b.access # "screened" => b.url # c.url)
  BY <1>6, AddressesAssumption
<1> QED BY <1>2, <1>5, <1>6, <1>7

LEMMA MakersHaveProfiles ==
  ASSUME NEW M, RowsOK(M), NEW m \in Sitemap(M).makers
  PROVE  MakerProfile(M, m) # <<>>
<1> DEFINE own == OwnedBy(M, m)
<1>1. PICK p \in M : p.maker = m
  BY DEF Sitemap
<1>2. own # {} /\ own \subseteq M
  BY <1>1 DEF OwnedBy
<1>3. PICK s : Profiled(M, m, s)
  BY ProfileIsComplete
<1>4. IsFiniteSet(own)
  BY <1>2, FS_Subset DEF RowsOK
<1>5. Cardinality(own) \in Nat /\ Cardinality(own) # 0
  <2>1. Cardinality(own) = 0 <=> own = {}
    BY <1>4, FS_EmptySet
  <2> QED BY <1>2, <1>4, <2>1, FS_CardinalityType
<1>6. 1 \in DOMAIN MakerProfile(M, m)
  BY <1>3, <1>5 DEF Profiled
<1> QED BY <1>6

LEMMA ScreenedHides ==
  ASSUME RowsOK(rows), f \in Filters, list \in Seq(Hydrated) PROVE ScreenedStaysHidden
<1>1. \A m \in Sitemap(rows).makers : MakerProfile(rows, m) # <<>>
  BY MakersHaveProfiles
<1>2. ASSUME NEW p \in rows, p.access = "screened"
      PROVE  /\ \A i \in DOMAIN list : list[i].id = p.id => list[i].url = Redacted
             /\ ~Matches(p, [Key EXCEPT !.q = p.url])
             /\ p.id \notin Sitemap(rows).projects
             /\ \A i \in DOMAIN MakerProfile(rows, p.maker) : MakerProfile(rows, p.maker)[i].url # p.url
  <2>1. PICK c \in Base : p.id = c.id /\ p.url = c.url /\ p.access = c.access /\ p.words = c.words
    BY VersionOf DEF RowsOK
  <2>2. p.url # "" /\ p.url \notin p.words
    BY <1>2, <2>1, AddressesAssumption
  <2>3. ASSUME NEW i \in DOMAIN list, list[i].id = p.id PROVE list[i].url = Redacted
    <3>1. list[i] \in Hydrated
      OBVIOUS
    <3>2. PICK b \in Base : list[i].id = b.id /\ list[i].url = IF b.access = "screened" THEN Redacted ELSE b.url
      BY <3>1, HydratedOf
    <3>3. b = c
      BY <2>1, <2>3, <3>2, CatalogueAssumption
    <3> QED BY <1>2, <2>1, <3>2, <3>3
  <2>4. ~Matches(p, [Key EXCEPT !.q = p.url])
    <3>1. [Key EXCEPT !.q = p.url].q = p.url
      BY DEF Key, Query
    <3>2. p.url \notin SearchedWords(p)
      BY <1>2, <2>2 DEF SearchedWords
    <3> QED BY <2>2, <3>1, <3>2 DEF Matches
  <2>5. p.id \notin Sitemap(rows).projects
    <3> SUFFICES ASSUME p.id \in Sitemap(rows).projects PROVE FALSE
      OBVIOUS
    <3>1. PICK r \in rows : r.access = "open" /\ r.id = p.id
      BY DEF Sitemap
    <3> QED BY <1>2, <3>1 DEF RowsOK
  <2>6. \A i \in DOMAIN MakerProfile(rows, p.maker) : MakerProfile(rows, p.maker)[i].url # p.url
    BY <1>2, ProfilesHide
  <2> QED BY <2>3, <2>4, <2>5, <2>6
<1> QED BY <1>1, <1>2 DEF ScreenedStaysHidden

------------------------------------------------------------------------------
(* The inductive invariant of the market list.                               *)

\* Whatever is shown, kept or on its way is rows that the server redacted.
ShownOK ==
  /\ list \in Seq(Hydrated) /\ sweep.rows \in Seq(Hydrated)
  /\ \A k \in DOMAIN cache : cache[k].data \in Seq(Hydrated)

\* A query under way asks for a page.
AskedOK == \A k \in flight : k.page \in Nat \ {0}

\* The effect has seen the answer that belongs to the controls.
ListFollows ==
  /\ dep = DataOf(Key, cache, admin)
  /\ dep # NoData => meta = dep[2].meta

\* What a reload will read is what is set, once that has been applied.
MemoryOK ==
  applied => RangeError(f) \/ ReadFilterPreset(url, preset) = Saved(f, configured)

MktInv == MarketTypeOK /\ RowsOK(rows) /\ ShownOK /\ AskedOK /\ ListFollows /\ MemoryOK

\* MarketTypeOK, in the parts that steps change together.
ControlsFit ==
  /\ {f, preset} \subseteq Filters /\ url \in [admin : BOOLEAN, params : Filters]
  /\ typed \in Entry /\ {configured, admin, applied} \subseteq BOOLEAN
CacheFits == \E k \in DOMAIN cache \cup {Key} : DOMAIN cache \subseteq {k, Key}
OthersFit ==
  favs \subseteq Starrable /\ clicks \in Nat /\ sweep.at \in {"none", "asked", "answered"}

LEMMA MarketTypeParts ==
  ASSUME RowsOK(rows), ControlsFit, CacheFits, OthersFit PROVE MarketTypeOK
<1>1. \A p \in rows : IsRow(p)
  BY VersionOf DEF RowsOK
<1> QED BY <1>1 DEF MarketTypeOK, ControlsFit, CacheFits, OthersFit

LEMMA MarketParts ==
  ASSUME MktInv
  PROVE  /\ RowsOK(rows) /\ ControlsFit /\ CacheFits /\ OthersFit
         /\ ShownOK /\ AskedOK /\ ListFollows /\ MemoryOK
BY DEF MktInv, MarketTypeOK, ControlsFit, CacheFits, OthersFit

\* The same of the next state, for the steps.
LEMMA MarketTypePartsNext ==
  ASSUME RowsOK(rows)', ControlsFit', CacheFits', OthersFit', ShownOK', AskedOK', ListFollows', MemoryOK'
  PROVE  MktInv'
<1>1. \A p \in rows' : IsRow(p)
  BY VersionOf DEF RowsOK
<1> QED BY <1>1 DEF MktInv, MarketTypeOK, ControlsFit, CacheFits, OthersFit

\* What the controls offer.
LEMMA DefaultsFit == Defaults \in Filters
BY MarketAssumption DEF Defaults, Filters, Entry, All

LEMMA SavedFits ==
  ASSUME NEW g \in Filters, NEW ready \in BOOLEAN, NEW inAdmin \in BOOLEAN
  PROVE  /\ Saved(g, ready) \in Filters
         /\ Address(g, ready, inAdmin) \in [admin : BOOLEAN, params : Filters]
         /\ Query(g, ready).page \in Nat \ {0}
<1>1. Normal(g, ready) \in Entry
  BY DEF Normal, Filters, Entry
<1>6. NormalAccess(g, ready) \in {All, "open", "screened"}
  BY DEF NormalAccess, Filters
<1>2. Saved(g, ready) \in Filters
  BY <1>1, <1>6 DEF Saved, Filters
<1>3. [Saved(g, ready) EXCEPT !.min = 0, !.max = 0] \in Filters
  BY <1>2 DEF Filters
<1>4. Address(g, ready, inAdmin) \in [admin : BOOLEAN, params : Filters]
  BY <1>2, <1>3 DEF Address
<1>5. Query(g, ready).page \in Nat \ {0}
  BY DEF Query, Filters
<1> QED BY <1>2, <1>4, <1>5

\* What a page carries.
LEMMA PageDataFits ==
  ASSUME NEW M, RowsOK(M), NEW q, q.limit \in 1 .. 100, q.page \in Nat \ {0}
  PROVE  PageOf(M, q).data \in Seq(Hydrated)
<1> DEFINE n == Len(Ranked(M, q))
           l == q.limit
           m == PageCount(n, l)
           k == Clipped(q.page, m)
           H == Shown(M, q)
<1>1. PageOf(M, q).data = Piece(H, (k - 1) * l, Stop(k, l, n))
  BY PageIs
<1>2. H \in Seq(Hydrated) /\ Len(H) = n /\ n \in Nat
  BY ShownIsSeq
<1>3. l \in 1 .. 100 /\ q.page \in Nat \ {0}
  OBVIOUS
<1>4. m \in Nat \ {0} /\ (m - 1) * l <= n
  BY <1>2, <1>3, PagesFit
<1> HIDE DEF n, l, m, H
<1>5. k \in 1 .. m
  BY <1>3, <1>4 DEF Clipped
<1> HIDE DEF k
<1>6. (k - 1) * l \in Nat /\ (k - 1) * l <= n /\ k * l \in Nat /\ (k - 1) * l <= k * l
  <2>1. k - 1 \in Nat /\ m - 1 \in Nat /\ k - 1 <= m - 1 /\ k \in Nat /\ k - 1 <= k /\ l \in Nat
    BY <1>3, <1>4, <1>5
  <2>2. /\ (k - 1) * l \in Nat /\ (m - 1) * l \in Nat /\ (k - 1) * l <= (m - 1) * l
        /\ k * l \in Nat /\ (k - 1) * l <= k * l
    BY <2>1, ProductIsNat, ProductGrows
  <2> QED BY <1>2, <1>4, <2>2
<1>7. Stop(k, l, n) \in Nat /\ (k - 1) * l <= Stop(k, l, n) /\ Stop(k, l, n) <= n
  BY <1>2, <1>6 DEF Stop
<1>8. Piece(H, (k - 1) * l, Stop(k, l, n)) \in Seq(Hydrated)
  BY <1>2, <1>6, <1>7, PieceIsSeq
<1> QED BY <1>1, <1>8

\* The effects after a render with other controls keep all of it.
LEMMA RenderKeeps ==
  ASSUME MktInv, NEW g \in Filters, NEW ready \in BOOLEAN, NEW inAdmin \in BOOLEAN,
         Render(g, ready, inAdmin), typed' \in Entry, Still, clicks' \in Nat
  PROVE  MktInv'
<1> DEFINE k == Query(g, ready)
<1>1. /\ RowsOK(rows) /\ ControlsFit /\ CacheFits /\ OthersFit
      /\ ShownOK /\ AskedOK /\ ListFollows /\ MemoryOK
  BY MarketParts
<1>2. /\ f' = g /\ configured' = ready /\ admin' = inAdmin
      /\ rows' = rows /\ favs' = favs /\ sweep' = sweep
  BY DEF Render, Still
<1>3. Key' = k
  BY <1>2 DEF Key
<1>4. RowsOK(rows)' /\ OthersFit'
  BY <1>1, <1>2 DEF OthersFit
<1>5. ControlsFit'
  <2>1. /\ preset \in Filters /\ url \in [admin : BOOLEAN, params : Filters] /\ applied \in BOOLEAN
    BY <1>1 DEF ControlsFit
  <2>2. \/ url' = url /\ preset' = preset /\ applied' = applied
        \/ url' = Address(g, ready, inAdmin) /\ preset' = Saved(g, ready) /\ applied' = TRUE
    BY DEF Render
  <2>3. url' \in [admin : BOOLEAN, params : Filters] /\ preset' \in Filters
    BY <2>1, <2>2, SavedFits
  <2>4. applied' \in BOOLEAN
    BY <2>1, <2>2
  <2> QED BY <1>2, <2>3, <2>4 DEF ControlsFit
<1>6. /\ DOMAIN cache' = {k, Key} \cap DOMAIN cache
      /\ \A j \in DOMAIN cache' : cache'[j] = cache[j]
  BY DEF Render, Restrict
<1>7. CacheFits'
  <2>1. CASE Key \in DOMAIN cache'
    BY <1>3, <1>6, <2>1 DEF CacheFits
  <2>2. CASE Key \notin DOMAIN cache'
    BY <1>3, <1>6, <2>2 DEF CacheFits
  <2> QED BY <2>1, <2>2
<1>8. AskedOK'
  <2>1. \A j \in flight' : j \in flight \/ j = k
    BY DEF Render
  <2>2. k.page \in Nat \ {0}
    BY SavedFits
  <2> HIDE DEF k
  <2> QED BY <1>1, <2>1, <2>2 DEF AskedOK
<1>9. Sync(DataOf(k, cache', inAdmin))
  BY DEF Render
<1>10. ListFollows'
  BY <1>1, <1>2, <1>3, <1>9 DEF ListFollows, Sync
<1>11. ShownOK'
  <2>1. \A j \in DOMAIN cache' : cache'[j].data \in Seq(Hydrated)
    BY <1>1, <1>6 DEF ShownOK
  <2>2. list' = list \/ (k \in DOMAIN cache' /\ list' = cache'[k].data)
    BY <1>9 DEF Sync, DataOf
  <2> HIDE DEF k
  <2> QED BY <1>1, <1>2, <2>1, <2>2 DEF ShownOK
<1>12. MemoryOK'
  <2>1. CASE <<Saved(g, ready), inAdmin>> = <<Saved(f, configured), admin>>
    <3>1. url' = url /\ preset' = preset /\ applied' = applied /\ Saved(g, ready) = Saved(f, configured)
      BY <2>1 DEF Render
    <3>2. g.min = f.min /\ g.max = f.max
      <4>1. Saved(g, ready).min = g.min /\ Saved(g, ready).max = g.max
        BY DEF Saved, Filters
      <4>2. Saved(f, configured).min = f.min /\ Saved(f, configured).max = f.max
        BY <1>1 DEF Saved, Filters, ControlsFit
      <4> QED BY <3>1, <4>1, <4>2
    <3> QED BY <1>1, <1>2, <3>1, <3>2 DEF MemoryOK, RangeError
  <2>2. CASE <<Saved(g, ready), inAdmin>> # <<Saved(f, configured), admin>>
    <3>1. url' = Address(g, ready, inAdmin) /\ preset' = Saved(g, ready)
      BY <2>2 DEF Render
    <3>2. CASE ~RangeError(g)
      <4>1. url'.params = Saved(g, ready)
        BY <3>1, <3>2 DEF Address
      <4>2. ReadFilterPreset(url', preset') = Saved(g, ready)
        BY <3>1, <4>1 DEF ReadFilterPreset
      <4> QED BY <1>2, <4>2 DEF MemoryOK
    <3> QED BY <1>2, <3>2 DEF MemoryOK, RangeError
  <2> QED BY <2>1, <2>2
<1> QED BY <1>4, <1>5, <1>7, <1>8, <1>10, <1>11, <1>12, MarketTypePartsNext

\* What a start remembers, once nothing of it waits, is what is in force.
LEMMA AtOnceIsSaved ==
  ASSUME NEW g \in Filters, AtOnce(g)
  PROVE  g = Saved([g EXCEPT !.q = ""], FALSE)
<1>1. [g EXCEPT !.q = ""] = g
  BY DEF AtOnce, Filters
<1>2. Normal(g, FALSE) = g.category
  BY DEF AtOnce, Normal
<1>4. NormalAccess(g, FALSE) = g.access
  BY DEF AtOnce, NormalAccess
<1>3. Saved(g, FALSE) = g
  BY <1>2, <1>4 DEF Saved, Filters
<1> QED BY <1>1, <1>3

\* A start, from the address and the preset.
LEMMA BootKeeps ==
  ASSUME MktInv, NEW u \in [admin : BOOLEAN, params : Filters], NEW p \in Filters,
         Boot(ReadFilterPreset(u, p), u, p), UNCHANGED <<rows, favs>>, clicks' \in Nat
  PROVE  MktInv'
<1> DEFINE g == ReadFilterPreset(u, p)
<1>1. RowsOK(rows) /\ OthersFit
  BY MarketParts
<1>2. g \in Filters
  BY DEF ReadFilterPreset
<1>3. /\ f' = [g EXCEPT !.q = ""] /\ typed' = g.q /\ configured' = FALSE
      /\ admin' = u.admin /\ url' = u /\ preset' = p
      /\ cache' = <<>> /\ dep' = NoData /\ list' = <<>> /\ meta' = NoMeta
      /\ flight' = IF u.admin THEN {} ELSE {Query(f', FALSE)}
      /\ sweep' = NoSweep /\ applied' = AtOnce(g)
  BY DEF Boot
<1> HIDE DEF g
<1>4. f' \in Filters
  <2>1. "" \in Entry
    BY DEF Entry
  <2> QED BY <1>2, <1>3, <2>1 DEF Filters
<1>5. RowsOK(rows)' /\ OthersFit'
  BY <1>1, <1>3 DEF OthersFit, NoSweep
<1>6. ControlsFit'
  <2>1. g.q \in Entry
    BY <1>2 DEF Filters
  <2>2. AtOnce(g) \in BOOLEAN
    BY DEF AtOnce
  <2> QED BY <1>3, <1>4, <2>1, <2>2 DEF ControlsFit
<1>7. DOMAIN cache' = {}
  <2>1. cache' = <<>>
    BY <1>3
  <2>2. DOMAIN <<>> = {}
    OBVIOUS
  <2> QED BY <2>1, <2>2
<1>8. CacheFits'
  BY <1>7 DEF CacheFits
<1>9. ShownOK'
  <2>1. <<>> \in Seq(Hydrated)
    OBVIOUS
  <2>2. list' = <<>> /\ sweep'.rows = <<>>
    BY <1>3 DEF NoSweep
  <2>3. list' \in Seq(Hydrated) /\ sweep'.rows \in Seq(Hydrated)
    BY <2>1, <2>2
  <2> QED BY <1>7, <2>3 DEF ShownOK
<1>10. AskedOK'
  <2>1. Query(f', FALSE).page \in Nat \ {0}
    BY <1>4, SavedFits
  <2> QED BY <1>3, <2>1 DEF AskedOK
<1>11. ListFollows'
  BY <1>3, <1>7 DEF ListFollows, DataOf
<1>12. MemoryOK'
  <2> SUFFICES ASSUME AtOnce(g) PROVE g = Saved(f', FALSE)
    BY <1>3 DEF MemoryOK, g
  <2> QED BY <1>2, <1>3, AtOnceIsSaved
<1> QED BY <1>5, <1>6, <1>8, <1>9, <1>10, <1>11, <1>12, MarketTypePartsNext

\* A project, as it is before anything happens to it, is a version of itself.
LEMMA BaseIsVersion == Base \subseteq Versions
<1> SUFFICES ASSUME NEW b \in Base PROVE b \in Versions
  OBVIOUS
<1>1. IsRow(b) /\ b.seen \in Nat
  BY CatalogueAssumption
<1>2. b.verified \in BOOLEAN /\ b.upvotes \in Int
  BY <1>1 DEF IsRow
<1>3. b = Changed(b, b.verified, b.seen, b.upvotes)
  BY <1>1 DEF IsRow, Changed
<1> QED BY <1>1, <1>2, <1>3 DEF Versions

\* What a probe, an upvote or a refresh makes of a version is another one.
LEMMA VersionAgain ==
  ASSUME NEW p \in Versions
  PROVE  /\ [p EXCEPT !.upvotes = 1 - @] \in Versions
         /\ [p EXCEPT !.seen = @ + 1] \in Versions
         /\ [p EXCEPT !.verified = ~@, !.seen = @ + 1] \in Versions
<1>1. IsRow(p) /\ p.seen \in Nat
  BY VersionOf
<1>2. PICK b \in Base : p = Changed(b, p.verified, p.seen, p.upvotes)
  BY VersionOf
<1>3. p.verified \in BOOLEAN /\ p.upvotes \in Int /\ IsRow(b)
  BY <1>1, CatalogueAssumption DEF IsRow
<1>4. [p EXCEPT !.upvotes = 1 - @] = Changed(b, p.verified, p.seen, 1 - p.upvotes)
  BY <1>1, <1>2, <1>3 DEF IsRow, Changed
<1>5. [p EXCEPT !.seen = @ + 1] = Changed(b, p.verified, p.seen + 1, p.upvotes)
  BY <1>1, <1>2, <1>3 DEF IsRow, Changed
<1>6. [p EXCEPT !.verified = ~@, !.seen = @ + 1] = Changed(b, ~p.verified, p.seen + 1, p.upvotes)
  BY <1>1, <1>2, <1>3 DEF IsRow, Changed
<1>7. 1 - p.upvotes \in Int /\ p.seen + 1 \in Nat
  BY <1>1, <1>3
<1>8. (~p.verified) \in BOOLEAN
  BY <1>3
<1>9. \A v \in BOOLEAN, n \in Nat, u \in Int : Changed(b, v, n, u) \in Versions
  BY DEF Versions
<1>10. /\ Changed(b, p.verified, p.seen, 1 - p.upvotes) \in Versions
       /\ Changed(b, p.verified, p.seen + 1, p.upvotes) \in Versions
  BY <1>1, <1>3, <1>7, <1>9
<1>11. Changed(b, ~p.verified, p.seen + 1, p.upvotes) \in Versions
  BY <1>3, <1>7, <1>8, <1>9, Zenon
<1> QED BY <1>4, <1>5, <1>6, <1>10, <1>11

\* One row takes the place of another of its id.
LEMMA Exchanged ==
  ASSUME NEW M, RowsOK(M), NEW p \in M, NEW q \in Versions, q.id = p.id
  PROVE  RowsOK((M \ {p}) \cup {q})
<1>1. IsFiniteSet(M \ {p})
  BY FS_RemoveElement DEF RowsOK
<1>2. IsFiniteSet((M \ {p}) \cup {q})
  BY <1>1, FS_AddElement
<1> QED BY <1>2 DEF RowsOK

\* Every row is looked at once more.
LEMMA AllSeen ==
  ASSUME NEW M, RowsOK(M)
  PROVE  RowsOK({[p EXCEPT !.seen = @ + 1] : p \in M})
<1> DEFINE Again(p) == [p EXCEPT !.seen = @ + 1]
           N == {Again(p) : p \in M}
<1>1. \A p \in M : Again(p) \in Versions /\ Again(p).id = p.id
  <2> SUFFICES ASSUME NEW p \in M PROVE Again(p) \in Versions /\ Again(p).id = p.id
    OBVIOUS
  <2>1. p \in Versions
    BY DEF RowsOK
  <2>2. IsRow(p)
    BY <2>1, VersionOf
  <2> QED BY <2>1, <2>2, VersionAgain DEF IsRow
<1> HIDE DEF Again
<1>2. IsFiniteSet(N)
  <2> DEFINE g == [p \in M |-> Again(p)]
  <2>1. g \in Surjection(M, N)
    BY DEF Surjection
  <2> HIDE DEF g, N
  <2> QED BY <2>1, FS_Surjection DEF RowsOK
<1>3. RowsOK(N)
  BY <1>1, <1>2 DEF RowsOK
<1> QED BY <1>3 DEF Again

LEMMA FirstPageFits == ASSUME NEW g \in Filters PROVE [g EXCEPT !.page = 1] \in Filters
BY DEF Filters

\* What a control offers fits its field, and takes the list to a first page.
LEMMA ChosenFits ==
  ASSUME NEW g \in Filters, NEW c \in Controls, NEW v \in Values[c]
  PROVE  [[g EXCEPT ![c] = v] EXCEPT !.page = 1] \in Filters
<1> DEFINE d == [Defaults EXCEPT ![c] = v]
<1>1. d \in Filters /\ Defaults \in Filters
  BY ControlsAssumption, DefaultsFit
<1>2. d[c] = v
  BY <1>1 DEF Filters, Controls
<1> HIDE DEF d
<1>3. [g EXCEPT ![c] = v] \in Filters
  <2>1. CASE c \in {"category", "tag", "q"}
    BY <1>1, <1>2, <2>1 DEF Filters
  <2>2. CASE c \in {"access", "sort"}
    BY <1>1, <1>2, <2>2 DEF Filters
  <2>3. CASE c \in {"minSignal", "min", "max", "limit"}
    BY <1>1, <1>2, <2>3 DEF Filters
  <2>4. CASE c = "verified"
    BY <1>1, <1>2, <2>4 DEF Filters
  <2> QED BY <2>1, <2>2, <2>3, <2>4 DEF Controls
<1> QED BY <1>3, FirstPageFits

\* The filters and the address of the start.
LEMMA StartFits ==
  ASSUME NEW p \in Presets
  PROVE  /\ p \in Filters /\ [p EXCEPT !.q = ""] \in Filters /\ p.q \in Entry
         /\ Query([p EXCEPT !.q = ""], FALSE).page \in Nat \ {0}
<1>1. p \in Filters
  BY ControlsAssumption
<1>2. "" \in Entry
  BY DEF Entry
<1>3. [p EXCEPT !.q = ""] \in Filters /\ p.q \in Entry
  BY <1>1, <1>2 DEF Filters
<1> QED BY <1>1, <1>3, SavedFits

LEMMA MarketInitKeeps == ASSUME MarketInit PROVE MktInv
<1>1. PICK p \in Presets :
         /\ rows = Catalogue /\ favs = {} /\ clicks = 0
         /\ f = [p EXCEPT !.q = ""] /\ typed = p.q /\ configured = FALSE /\ admin = FALSE
         /\ cache = <<>> /\ flight = {Query(f, FALSE)}
         /\ dep = NoData /\ list = <<>> /\ meta = NoMeta /\ sweep = NoSweep
         /\ url = [admin |-> FALSE, params |-> Defaults] /\ preset = p
         /\ applied = AtOnce(p)
  BY DEF MarketInit
<1>2. /\ p \in Filters /\ f \in Filters /\ typed \in Entry
      /\ Query(f, FALSE).page \in Nat \ {0}
  BY <1>1, StartFits
<1>3. RowsOK(rows)
  BY <1>1, BaseIsVersion, CatalogueAssumption DEF RowsOK, Base
<1>4. ControlsFit
  <2>1. AtOnce(p) \in BOOLEAN
    BY DEF AtOnce
  <2> QED BY <1>1, <1>2, <2>1, DefaultsFit DEF ControlsFit
<1>5. DOMAIN cache = {}
  <2>1. DOMAIN <<>> = {}
    OBVIOUS
  <2> QED BY <1>1, <2>1
<1>6. CacheFits /\ OthersFit
  BY <1>1, <1>5 DEF CacheFits, OthersFit, NoSweep
<1>7. ShownOK
  <2>1. <<>> \in Seq(Hydrated)
    OBVIOUS
  <2>2. list \in Seq(Hydrated) /\ sweep.rows \in Seq(Hydrated)
    BY <1>1, <2>1 DEF NoSweep
  <2> QED BY <1>5, <2>2 DEF ShownOK
<1>8. AskedOK
  BY <1>1, <1>2 DEF AskedOK
<1>9. ListFollows
  BY <1>1, <1>5 DEF ListFollows, DataOf
<1>10. MemoryOK
  <2> SUFFICES ASSUME AtOnce(p) PROVE ReadFilterPreset(url, preset) = Saved(f, configured)
    BY <1>1 DEF MemoryOK
  <2>1. p = Saved(f, FALSE)
    BY <1>1, <1>2, AtOnceIsSaved
  <2> QED BY <1>1, <2>1 DEF ReadFilterPreset, HasQuery
<1>11. MarketTypeOK
  BY <1>3, <1>4, <1>6, MarketTypeParts
<1> QED BY <1>3, <1>7, <1>8, <1>9, <1>10, <1>11 DEF MktInv

(* One step of each kind.                                                   *)

LEMMA ControlsHold == ASSUME MktInv PROVE f \in Filters /\ typed \in Entry /\ configured \in BOOLEAN /\ admin \in BOOLEAN
<1>1. ControlsFit
  BY MarketParts
<1> QED BY <1>1 DEF ControlsFit

LEMMA ShowKeeps ==
  ASSUME MktInv, NEW g, [g EXCEPT !.page = 1] \in Filters, Show(g),
         typed' \in Entry, Still, clicks' \in Nat
  PROVE  MktInv'
<1>1. configured \in BOOLEAN
  BY ControlsHold
<1>2. Render([g EXCEPT !.page = 1], configured, FALSE)
  BY DEF Show
<1> QED BY <1>1, <1>2, RenderKeeps

LEMMA ChooseKeeps ==
  ASSUME MktInv, NEW c \in Controls, Choose(c), clicks' \in Nat
  PROVE  MktInv'
<1>1. PICK v \in Values[c] : Show([f EXCEPT ![c] = v]) /\ UNCHANGED typed /\ Still
  BY DEF Choose
<1>2. f \in Filters /\ typed' \in Entry
  BY <1>1, ControlsHold
<1>3. [[f EXCEPT ![c] = v] EXCEPT !.page = 1] \in Filters
  BY <1>2, ChosenFits
<1> QED BY <1>1, <1>2, <1>3, ShowKeeps

\* The controls of the list: whichever is used, the filters stay filters.
Controlling ==
  \/ SelectCategory \/ SelectTag \/ SelectAccessMode \/ SortBy \/ OnlyVerified
  \/ ChooseBounds \/ ChoosePageSize \/ SortRecentClean \/ FundingRange \/ FavouritesOnly \/ Type
  \/ ClearSearch \/ ResetFilters \/ PrevPage \/ NextPage \/ SwitchView \/ Debounce \/ ConfigArrives

LEMMA ControlKeeps == ASSUME MktInv, Controlling, clicks' \in Nat PROVE MktInv'
<1>1. f \in Filters /\ typed \in Entry /\ configured \in BOOLEAN /\ admin \in BOOLEAN
  BY ControlsHold
<1>2. CASE SelectCategory \/ SelectTag \/ SelectAccessMode \/ SortBy \/ OnlyVerified
           \/ ChooseBounds \/ ChoosePageSize
  <2>1. PICK c \in Controls : Choose(c)
    BY <1>2 DEF SelectCategory, SelectTag, SelectAccessMode, SortBy, OnlyVerified,
                ChooseBounds, ChoosePageSize, Controls
  <2> QED BY <2>1, ChooseKeeps
<1>3. CASE SortRecentClean
  <2> DEFINE g == [f EXCEPT !.sort = "recent", !.verified = FALSE, !.minSignal = 0]
  <2>1. g \in Filters
    BY <1>1 DEF Filters
  <2>2. Show(g) /\ typed' = typed /\ Still
    BY <1>3 DEF SortRecentClean
  <2> HIDE DEF g
  <2>3. [g EXCEPT !.page = 1] \in Filters
    BY <2>1, FirstPageFits
  <2> QED BY <1>1, <2>2, <2>3, ShowKeeps
<1>4. CASE FundingRange
  <2>1. PICK lo \in Values["min"], hi \in Values["max"] :
           Show([f EXCEPT !.min = lo, !.max = hi]) /\ typed' = typed /\ Still
    BY <1>4 DEF FundingRange
  <2>2. lo \in Nat /\ hi \in Nat
    <3>1. [[f EXCEPT !["min"] = lo] EXCEPT !.page = 1] \in Filters
      BY <1>1, ChosenFits DEF Controls
    <3>2. [[f EXCEPT !["max"] = hi] EXCEPT !.page = 1] \in Filters
      BY <1>1, ChosenFits DEF Controls
    <3> QED BY <1>1, <3>1, <3>2 DEF Filters
  <2> DEFINE g == [f EXCEPT !.min = lo, !.max = hi]
  <2>3. g \in Filters
    BY <1>1, <2>2 DEF Filters
  <2>4. Show(g)
    BY <2>1
  <2> HIDE DEF g
  <2>5. [g EXCEPT !.page = 1] \in Filters
    BY <2>3, FirstPageFits
  <2> QED BY <1>1, <2>1, <2>4, <2>5, ShowKeeps
<1>5. CASE FavouritesOnly
  <2> DEFINE g == [f EXCEPT !.fav = ~@]
  <2>1. f.fav \in BOOLEAN
    BY <1>1 DEF Filters
  <2>2. \A b \in BOOLEAN : [f EXCEPT !.fav = b] \in Filters
    BY <1>1 DEF Filters
  <2>3. g \in Filters
    BY <2>1, <2>2
  <2>4. Show(g) /\ typed' = typed /\ Still
    BY <1>5 DEF FavouritesOnly
  <2> HIDE DEF g
  <2>5. [g EXCEPT !.page = 1] \in Filters
    BY <2>3, FirstPageFits
  <2> QED BY <1>1, <2>4, <2>5, ShowKeeps
<1>6. CASE Type
  <2>1. PICK w \in Values["q"] : typed' = w /\ Show(f) /\ Still
    BY <1>6 DEF Type
  <2>2. w \in Entry
    <3>1. [[f EXCEPT !["q"] = w] EXCEPT !.page = 1] \in Filters
      BY <1>1, ChosenFits DEF Controls
    <3> QED BY <1>1, <3>1 DEF Filters
  <2>3. [f EXCEPT !.page = 1] \in Filters
    BY <1>1, FirstPageFits
  <2> QED BY <2>1, <2>2, <2>3, ShowKeeps
<1>7. CASE ClearSearch
  <2> DEFINE g == [f EXCEPT !.q = ""]
  <2>1. "" \in Entry
    BY DEF Entry
  <2>2. g \in Filters
    BY <1>1, <2>1 DEF Filters
  <2>3. Show(g) /\ typed' \in Entry /\ Still
    BY <1>7, <2>1 DEF ClearSearch
  <2> HIDE DEF g
  <2>4. [g EXCEPT !.page = 1] \in Filters
    BY <2>2, FirstPageFits
  <2> QED BY <2>3, <2>4, ShowKeeps
<1>8. CASE ResetFilters
  <2> DEFINE g == [Defaults EXCEPT !.limit = f.limit]
  <2>1. g \in Filters
    <3>1. f.limit \in 1 .. 100
      BY <1>1 DEF Filters
    <3> QED BY <3>1, DefaultsFit DEF Filters
  <2>2. "" \in Entry
    BY DEF Entry
  <2>3. Show(g) /\ typed' \in Entry
    BY <1>8, <2>2 DEF ResetFilters
  <2> HIDE DEF g
  <2>4. [g EXCEPT !.page = 1] \in Filters
    BY <2>1, FirstPageFits
  <2> QED BY <1>8, <2>3, <2>4, ShowKeeps DEF ResetFilters
<1>9. CASE PrevPage
  <2> DEFINE g == [f EXCEPT !.page = @ - 1]
  <2>1. g \in Filters
    BY <1>1, <1>9 DEF PrevPage, Filters
  <2>2. Render(g, configured, FALSE) /\ typed' = typed /\ Still
    BY <1>9 DEF PrevPage
  <2> HIDE DEF g
  <2> QED BY <1>1, <2>1, <2>2, RenderKeeps
<1>10. CASE NextPage
  <2> DEFINE g == [f EXCEPT !.page = @ + 1]
  <2>1. g \in Filters
    BY <1>1 DEF Filters
  <2>2. Render(g, configured, FALSE) /\ typed' = typed /\ Still
    BY <1>10 DEF NextPage
  <2> HIDE DEF g
  <2> QED BY <1>1, <2>1, <2>2, RenderKeeps
<1>11. CASE SwitchView
  <2>1. (~admin) \in BOOLEAN
    BY <1>1
  <2> QED BY <1>1, <1>11, <2>1, RenderKeeps DEF SwitchView
<1>12. CASE Debounce
  <2> DEFINE g == [f EXCEPT !.q = typed]
  <2>1. g \in Filters
    BY <1>1 DEF Filters
  <2>2. Render(g, configured, admin) /\ typed' = typed /\ Still
    BY <1>12 DEF Debounce
  <2> HIDE DEF g
  <2> QED BY <1>1, <2>1, <2>2, RenderKeeps
<1>13. CASE ConfigArrives
  BY <1>1, <1>13, RenderKeeps DEF ConfigArrives
<1> QED BY <1>2, <1>3, <1>4, <1>5, <1>6, <1>7, <1>8, <1>9, <1>10, <1>11, <1>12, <1>13 DEF Controlling

\* A reload, and a visit from a link without filters.
LEMMA StartKeeps == ASSUME MktInv, Reload \/ OpenHome, clicks' \in Nat PROVE MktInv'
<1>1. url \in [admin : BOOLEAN, params : Filters] /\ preset \in Filters
  <2>1. ControlsFit
    BY MarketParts
  <2> QED BY <2>1 DEF ControlsFit
<1>2. CASE Reload
  BY <1>1, <1>2, BootKeeps DEF Reload
<1>3. CASE OpenHome
  <2> DEFINE home == [admin |-> FALSE, params |-> Defaults]
  <2>1. home \in [admin : BOOLEAN, params : Filters]
    BY DefaultsFit
  <2>2. Boot(ReadFilterPreset(home, preset), home, preset) /\ UNCHANGED <<rows, favs>>
    BY <1>3 DEF OpenHome
  <2> HIDE DEF home
  <2> QED BY <1>1, <2>1, <2>2, BootKeeps
<1> QED BY <1>2, <1>3

\* What neither the controls nor what they remember are part of.
Quiet == UNCHANGED <<f, typed, configured, admin, url, preset, applied>>

LEMMA QuietKeeps ==
  ASSUME MktInv, Quiet
  PROVE  ControlsFit' /\ MemoryOK' /\ Key' = Key
<1>1. ControlsFit /\ MemoryOK
  BY MarketParts
<1>2. Key' = Key
  BY DEF Quiet, Key
<1>3. ControlsFit'
  BY <1>1 DEF Quiet, ControlsFit
<1>4. MemoryOK'
  BY <1>1 DEF Quiet, MemoryOK
<1> QED BY <1>2, <1>3, <1>4

\* A step that leaves the queries' answers alone.
LEMMA AnswersKept ==
  ASSUME MktInv, Quiet, UNCHANGED <<cache, dep, meta>>,
         RowsOK(rows)', OthersFit', list' \in Seq(Hydrated), sweep'.rows \in Seq(Hydrated),
         \A k \in flight' : k \in flight \/ k = Key
  PROVE  MktInv'
<1>1. ControlsFit /\ CacheFits /\ ShownOK /\ AskedOK /\ ListFollows
  BY MarketParts
<1>2. ControlsFit' /\ MemoryOK' /\ Key' = Key
  BY QuietKeeps
<1>3. CacheFits'
  BY <1>1, <1>2 DEF CacheFits
<1>4. ShownOK'
  BY <1>1 DEF ShownOK
<1>5. AskedOK'
  <2>1. Key.page \in Nat \ {0}
    BY ControlsHold, SavedFits DEF Key
  <2> QED BY <1>1, <2>1 DEF AskedOK
<1>6. ListFollows'
  BY <1>1, <1>2 DEF ListFollows, Quiet
<1> QED BY <1>2, <1>3, <1>4, <1>5, <1>6, MarketTypePartsNext

\* An updated project takes the place of its row, or comes first.
LEMMA UpsertedIsSeq ==
  ASSUME NEW X, NEW l \in Seq(X), NEW x \in X
  PROVE  UpsertProject(l, x) \in Seq(X)
<1>1. [i \in DOMAIN l |-> IF l[i].id = x.id THEN x ELSE l[i]] \in Seq(X)
  <2> DEFINE h == [i \in 1 .. Len(l) |-> IF l[i].id = x.id THEN x ELSE l[i]]
  <2>1. \A i \in 1 .. Len(l) : l[i] \in X
    OBVIOUS
  <2>2. h \in [1 .. Len(l) -> X]
    BY <2>1
  <2>3. h \in Seq(X)
    BY <2>2
  <2> QED BY <2>3
<1>2. <<x>> \o l \in Seq(X)
  OBVIOUS
<1> QED BY <1>1, <1>2 DEF UpsertProject

LEMMA StarKeeps == ASSUME MktInv, Star, clicks' \in Nat PROVE MktInv'
<1>1. RowsOK(rows) /\ OthersFit /\ ShownOK
  BY MarketParts
<1>2. Quiet /\ UNCHANGED <<rows, cache, dep, meta, list, sweep, flight>>
  BY DEF Star, Quiet
<1>3. OthersFit'
  BY <1>1, <1>2 DEF OthersFit, Star
<1> QED BY <1>1, <1>2, <1>3, AnswersKept DEF ShownOK

LEMMA UpvoteKeeps == ASSUME MktInv, Upvote, clicks' \in Nat PROVE MktInv'
<1>1. RowsOK(rows) /\ OthersFit /\ ShownOK
  BY MarketParts
<1>2. Quiet /\ UNCHANGED <<cache, dep, meta, sweep, flight, favs>>
  BY DEF Upvote, Quiet
<1>3. PICK p \in rows : /\ rows' = (rows \ {p}) \cup {[p EXCEPT !.upvotes = 1 - @]}
                        /\ list' = UpsertProject(list, Hydrate([p EXCEPT !.upvotes = 1 - @]))
  BY DEF Upvote
<1> DEFINE q == [p EXCEPT !.upvotes = 1 - @]
<1>4. q \in Versions /\ q.id = p.id
  <2>1. p \in Versions
    BY <1>1 DEF RowsOK
  <2>2. IsRow(p)
    BY <2>1, VersionOf
  <2> QED BY <2>1, <2>2, VersionAgain DEF IsRow
<1>5. rows' = (rows \ {p}) \cup {q} /\ list' = UpsertProject(list, Hydrate(q))
  BY <1>3
<1> HIDE DEF q
<1>6. RowsOK(rows)'
  BY <1>1, <1>4, <1>5, Exchanged
<1>7. list' \in Seq(Hydrated)
  <2>1. Hydrate(q) \in Hydrated
    BY <1>4 DEF Hydrated
  <2> HIDE DEF Hydrated
  <2> QED BY <1>1, <1>5, <2>1, UpsertedIsSeq DEF ShownOK
<1>8. OthersFit'
  BY <1>1, <1>2 DEF OthersFit
<1> QED BY <1>1, <1>2, <1>6, <1>7, <1>8, AnswersKept DEF ShownOK

LEMMA RefreshAllKeeps == ASSUME MktInv, RefreshAll, clicks' \in Nat PROVE MktInv'
<1>1. RowsOK(rows) /\ OthersFit /\ ShownOK
  BY MarketParts
<1>2. /\ Quiet /\ UNCHANGED <<rows, cache, dep, meta, list, flight, favs>>
      /\ sweep'.at = "asked" /\ sweep'.rows = <<>>
  BY DEF RefreshAll, Quiet, Asked
<1>3. OthersFit'
  BY <1>1, <1>2 DEF OthersFit
<1>4. sweep'.rows \in Seq(Hydrated)
  <2>1. <<>> \in Seq(Hydrated)
    OBVIOUS
  <2> QED BY <1>2, <2>1
<1> QED BY <1>1, <1>2, <1>3, <1>4, AnswersKept DEF ShownOK

LEMMA SweepServedKeeps == ASSUME MktInv, SweepServed, clicks' \in Nat PROVE MktInv'
<1>1. RowsOK(rows) /\ OthersFit /\ ShownOK
  BY MarketParts
<1>2. Quiet /\ UNCHANGED <<cache, dep, meta, list, flight, favs>>
  BY DEF SweepServed, Quiet
<1>3. RowsOK(rows')
  BY <1>1, AllSeen DEF SweepServed
<1>4. sweep'.at = "answered" /\ sweep'.rows = Shown(rows', Query(Defaults, FALSE))
  BY DEF SweepServed, Shown
<1>5. sweep'.rows \in Seq(Hydrated)
  BY <1>3, <1>4, ShownIsSeq
<1>6. OthersFit'
  BY <1>1, <1>2, <1>4 DEF OthersFit
<1> QED BY <1>1, <1>2, <1>3, <1>5, <1>6, AnswersKept DEF ShownOK

LEMMA SweepArrivesKeeps == ASSUME MktInv, SweepArrives, clicks' \in Nat PROVE MktInv'
<1>1. RowsOK(rows) /\ OthersFit /\ ShownOK
  BY MarketParts
<1>2. Quiet /\ UNCHANGED <<rows, cache, dep, meta, favs>>
  BY DEF SweepArrives, Quiet
<1>3. list' = sweep.rows /\ sweep'.at = "none" /\ sweep'.rows = <<>>
  BY DEF SweepArrives, NoSweep
<1>4. \A k \in flight' : k \in flight \/ k = Key
  BY DEF SweepArrives
<1>5. list' \in Seq(Hydrated)
  BY <1>1, <1>3 DEF ShownOK
<1>6. sweep'.rows \in Seq(Hydrated)
  <2>1. <<>> \in Seq(Hydrated)
    OBVIOUS
  <2> QED BY <1>3, <2>1
<1>7. OthersFit'
  BY <1>1, <1>2, <1>3 DEF OthersFit
<1> QED BY <1>1, <1>2, <1>4, <1>5, <1>6, <1>7, AnswersKept

LEMMA OthersKeep == ASSUME MktInv, Probe \/ Register, clicks' \in Nat PROVE MktInv'
<1>1. RowsOK(rows) /\ OthersFit /\ ShownOK
  BY MarketParts
<1>2. Quiet /\ UNCHANGED <<cache, dep, meta, list, sweep, flight, favs>>
  BY DEF Probe, Register, Quiet
<1>3. RowsOK(rows)'
  <2>1. CASE Probe
    <3>1. PICK p \in rows : rows' = (rows \ {p}) \cup {[p EXCEPT !.verified = ~@, !.seen = @ + 1]}
      BY <2>1 DEF Probe
    <3> DEFINE q == [p EXCEPT !.verified = ~@, !.seen = @ + 1]
    <3>2. p \in Versions
      BY <1>1 DEF RowsOK
    <3>3. IsRow(p) /\ q \in Versions
      BY <3>2, VersionOf, VersionAgain
    <3>4. q.id = p.id
      BY <3>3 DEF IsRow
    <3>5. rows' = (rows \ {p}) \cup {q}
      BY <3>1
    <3> HIDE DEF q
    <3> QED BY <1>1, <3>3, <3>4, <3>5, Exchanged
  <2>2. CASE Register
    <3>1. Late \in Versions
      BY BaseIsVersion DEF Base
    <3>2. rows' = rows \cup {Late} /\ \A p \in rows : p.id # Late.id
      BY <2>2 DEF Register
    <3>3. IsFiniteSet(rows')
      BY <1>1, <3>2, FS_AddElement DEF RowsOK
    <3> QED BY <1>1, <3>1, <3>2, <3>3 DEF RowsOK
  <2> QED BY <2>1, <2>2
<1>4. OthersFit'
  BY <1>1, <1>2 DEF OthersFit
<1> QED BY <1>1, <1>2, <1>3, <1>4, AnswersKept DEF ShownOK

LEMMA PollKeeps == ASSUME MktInv, Poll \/ Lost, clicks' \in Nat PROVE MktInv'
<1>1. RowsOK(rows) /\ OthersFit /\ ShownOK
  BY MarketParts
<1>2. Quiet /\ UNCHANGED <<rows, cache, dep, meta, list, sweep, favs>>
  BY DEF Poll, Lost, Quiet
<1>3. \A k \in flight' : k \in flight \/ k = Key
  BY DEF Poll, Lost
<1>4. OthersFit'
  BY <1>1, <1>2 DEF OthersFit
<1> QED BY <1>1, <1>2, <1>3, <1>4, AnswersKept DEF ShownOK

\* An answer: it is kept under its query, and shown if that is the controls'.
LEMMA ArriveKeeps == ASSUME MktInv, Arrive, clicks' \in Nat PROVE MktInv'
<1>1. /\ RowsOK(rows) /\ ControlsFit /\ CacheFits /\ OthersFit
      /\ ShownOK /\ AskedOK /\ ListFollows
  BY MarketParts
<1>2. PICK k \in flight :
        /\ Accepted(k)
        /\ flight' = flight \ {k}
        /\ cache' = [j \in (IF k = Key THEN DOMAIN cache ELSE {Key} \cap DOMAIN cache) \cup {k} |->
                       IF j = k THEN PageOf(rows, k) ELSE cache[j]]
        /\ Sync(DataOf(Key, cache', admin))
        /\ UNCHANGED <<rows, f, typed, configured, favs, admin, sweep, url, preset, applied>>
  BY DEF Arrive
<1>3. Quiet
  BY <1>2 DEF Quiet
<1>4. ControlsFit' /\ MemoryOK' /\ Key' = Key
  BY <1>3, QuietKeeps
<1>5. RowsOK(rows)' /\ OthersFit' /\ AskedOK'
  BY <1>1, <1>2 DEF OthersFit, AskedOK
<1>6. PageOf(rows, k).data \in Seq(Hydrated)
  <2>1. k.limit \in 1 .. 100 /\ k.page \in Nat \ {0}
    BY <1>1, <1>2 DEF Accepted, AskedOK
  <2> QED BY <1>1, <2>1, PageDataFits
<1>7. \A j \in DOMAIN cache' : \/ j = k /\ cache'[j] = PageOf(rows, k)
                               \/ j \in DOMAIN cache /\ cache'[j] = cache[j]
  BY <1>2
<1>8. CacheFits'
  BY <1>1, <1>2, <1>4 DEF CacheFits
<1>9. ShownOK'
  <2>1. \A j \in DOMAIN cache' : cache'[j].data \in Seq(Hydrated)
    BY <1>1, <1>6, <1>7 DEF ShownOK
  <2>2. list' = list \/ (Key \in DOMAIN cache' /\ list' = cache'[Key].data)
    <3>1. Sync(DataOf(Key, cache', admin))
      BY <1>2
    <3> QED BY <3>1 DEF Sync, DataOf
  <2>3. sweep' = sweep
    BY <1>2
  <2> QED BY <1>1, <2>1, <2>2, <2>3 DEF ShownOK
<1>10. ListFollows'
  <2>1. Sync(DataOf(Key, cache', admin)) /\ admin' = admin
    BY <1>2
  <2> QED BY <1>1, <1>4, <2>1 DEF ListFollows, Sync
<1> QED BY <1>4, <1>5, <1>8, <1>9, <1>10, MarketTypePartsNext

LEMMA MarketStutterKeeps == ASSUME MktInv, UNCHANGED marketVars PROVE MktInv'
<1>1. RowsOK(rows) /\ OthersFit /\ ShownOK
  BY MarketParts
<1>2. Quiet /\ UNCHANGED <<rows, cache, dep, meta, list, sweep, flight, favs, clicks>>
  BY DEF marketVars, Quiet
<1>3. OthersFit'
  BY <1>1, <1>2 DEF OthersFit
<1> QED BY <1>1, <1>2, <1>3, AnswersKept DEF ShownOK
------------------------------------------------------------------------------
\* The invariant holds from the start on.
THEOREM MarketInvariance == MarketSpec => []MktInv
<1>1. MarketInit => MktInv
  BY MarketInitKeeps
<1>2. MktInv /\ [MarketNext]_marketVars => MktInv'
  <2> SUFFICES ASSUME MktInv, [MarketNext]_marketVars PROVE MktInv'
    OBVIOUS
  <2>1. CASE UNCHANGED marketVars
    BY <2>1, MarketStutterKeeps
  <2>2. CASE MarketNext
    <3>1. clicks' \in Nat
      <4>1. clicks \in Nat
        BY MarketParts DEF OthersFit
      <4> QED BY <2>2, <4>1 DEF MarketNext, Viewer, Click
    <3>2. \/ Controlling \/ Star \/ Reload \/ OpenHome \/ Upvote \/ RefreshAll
          \/ World \/ Poll \/ Arrive \/ Lost \/ SweepArrives
      BY <2>2 DEF MarketNext, Viewer, System, Controlling
    <3> QED BY <3>1, <3>2, ControlKeeps, StarKeeps, StartKeeps, UpvoteKeeps, RefreshAllKeeps,
               SweepServedKeeps, SweepArrivesKeeps, OthersKeep, PollKeeps, ArriveKeeps DEF World
  <2> QED BY <2>1, <2>2
<1> QED BY <1>1, <1>2, PTL DEF MarketSpec

\* Every variable of the market list keeps its type.
THEOREM MarketTypeCorrect == MarketSpec => []MarketTypeOK
<1>1. MktInv => MarketTypeOK
  BY DEF MktInv
<1> QED BY <1>1, MarketInvariance, PTL

\* The counters and the pager belong to the newest answer to the query that
\* the controls describe, in whatever order answers arrive.
THEOREM MetaStaysCurrent == MarketSpec => []MetaIsCurrent
<1>1. MktInv => MetaIsCurrent
  <2> SUFFICES ASSUME MktInv, ~admin, Key \in DOMAIN cache PROVE meta = cache[Key].meta
    BY DEF MetaIsCurrent
  <2>1. dep = <<Key, cache[Key]>> /\ (dep # NoData => meta = dep[2].meta)
    BY MarketParts DEF ListFollows, DataOf
  <2>2. dep # NoData
    BY <2>1 DEF NoData
  <2> QED BY <2>1, <2>2
<1> QED BY <1>1, MarketInvariance, PTL

\* Whatever becomes of the rows and whatever is asked: turning the pages one
\* by one reads the ranking from end to end, and no page lies past the last.
THEOREM PagesAlwaysCover == MarketSpec => []PagesCoverTheRanking
<1>1. MktInv => PagesCoverTheRanking
  BY MarketParts, ControlsHold, PagesCover
<1> QED BY <1>1, MarketInvariance, PTL

\* The address of a screened project stays out of the list, of the search and
\* of the site map.
THEOREM ScreenedAlwaysHidden == MarketSpec => []ScreenedStaysHidden
<1>1. MktInv => ScreenedStaysHidden
  BY MarketParts, ControlsHold, ScreenedHides DEF ShownOK
<1> QED BY <1>1, MarketInvariance, PTL

\* A reload brings back the filters in force, once what an earlier visit left
\* has been applied.
THEOREM ReloadRestores == MarketSpec => ReloadRestoresFilters
<1>1. MktInv /\ [MarketNext]_marketVars
        => [(Reload /\ applied /\ ~RangeError(f))
             => [f' EXCEPT !.q = typed'] = Saved(f, configured)]_marketVars
  <2> SUFFICES ASSUME MktInv, Reload, applied, ~RangeError(f)
               PROVE  [f' EXCEPT !.q = typed'] = Saved(f, configured)
    OBVIOUS
  <2> DEFINE g == ReadFilterPreset(url, preset)
  <2>1. g = Saved(f, configured)
    BY MarketParts DEF MemoryOK
  <2>2. g \in Filters
    BY <2>1, ControlsHold, SavedFits
  <2>3. f' = [g EXCEPT !.q = ""] /\ typed' = g.q
    BY DEF Reload, Boot
  <2> HIDE DEF g
  <2>4. [f' EXCEPT !.q = typed'] = g
    BY <2>2, <2>3 DEF Filters
  <2> QED BY <2>1, <2>4
<1> QED BY <1>1, MarketInvariance, PTL DEF MarketSpec, ReloadRestoresFilters
=============================================================================
