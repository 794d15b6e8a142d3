--------------------------- MODULE MatchingProofs ---------------------------
(***************************************************************************)
(* Proofs about Matching, for any investors, projects, funding ranges and  *)
(* bounds.                                                                 *)
(***************************************************************************)
EXTENDS Matching, FiniteFacts, TLAPS

\* The sums of the model are those that the facts about finite sets speak of.
LEMMA SumIsAdded == ASSUME NEW f PROVE SumOf(f) = Added(f)
BY DEF SumOf, MapThenSumSet, MapThenFoldSet, Added, Recursion, Pick

------------------------------------------------------------------------------
(* The inductive invariant.  Every conjunct but the first is a property of  *)
(* its own; ScreenedAfterMatch needs TotalsMatchProposals, because a        *)
(* preview is let through by the counter and not by the log of events.      *)
MInv ==
  /\ TypeOK
  /\ TotalsMatchProposals
  /\ ConsentIsAudited
  /\ RecordedAsSent
  /\ ScreenedAfterMatch

Message == [id : Nat, investor : Investors, project : Projects, range : Ranges,
            sent : Versions, read : Versions]

PageState == [config : Versions, dialog : Projects \cup {NoProject},
              ticked : BOOLEAN, read : Versions, waiting : Nat]

LEMMA TypeInit == Init => TypeOK
<1> SUFFICES ASSUME Init PROVE TypeOK
  OBVIOUS
<1>1. 1 \in 1 .. MaxTerms /\ 0 \in Versions
  BY BoundsAssumption DEF Versions
<1>2. page \in [Investors -> PageState]
  BY <1>1 DEF Init, PageState
<1> QED BY <1>1, <1>2 DEF Init, TypeOK, PageState

\* The steps of a page change nothing but the page and what it waits for.
LEMMA TypeOfPage ==
  ASSUME TypeOK, NEW i \in Investors,
         \/ Poll(i) \/ CloseDialog(i) \/ Tick(i) \/ Answer(i) \/ TimeOut(i)
         \/ \E p \in Projects : OpenDialog(i, p)
  PROVE  TypeOK'
<1>1. page \in [Investors -> PageState] /\ terms \in Versions /\ 0 \in Versions
  BY BoundsAssumption DEF TypeOK, PageState, Versions
<1>2. /\ page[i].config \in Versions /\ page[i].dialog \in Projects \cup {NoProject}
      /\ page[i] \in PageState
  BY <1>1 DEF PageState
<1>3. page' \in [Investors -> PageState]
  <2>1. CASE Poll(i)
    <3> DEFINE to == [page[i] EXCEPT !.config = terms]
    <3>1. to \in PageState
      BY <1>1, <1>2 DEF PageState
    <3>2. page' = [page EXCEPT ![i] = to]
      BY <1>1, <2>1 DEF Poll
    <3> QED BY <1>1, <3>1, <3>2
  <2>2. ASSUME NEW p \in Projects, OpenDialog(i, p) PROVE page' \in [Investors -> PageState]
    <3> DEFINE to == [page[i] EXCEPT !.dialog = p, !.ticked = FALSE, !.read = 0]
    <3>1. to \in PageState
      BY <1>1, <1>2 DEF PageState
    <3>2. page' = [page EXCEPT ![i] = to]
      BY <1>1, <2>2 DEF OpenDialog
    <3> QED BY <1>1, <3>1, <3>2
  <2>3. CASE CloseDialog(i)
    <3> DEFINE to == [page[i] EXCEPT !.dialog = NoProject, !.ticked = FALSE, !.read = 0]
    <3>1. to \in PageState
      BY <1>1, <1>2 DEF PageState
    <3>2. page' = [page EXCEPT ![i] = to]
      BY <1>1, <2>3 DEF CloseDialog
    <3> QED BY <1>1, <3>1, <3>2
  <2>4. CASE Tick(i)
    <3> DEFINE to == [page[i] EXCEPT !.ticked = ~@,
                                     !.read = IF page[i].ticked THEN 0 ELSE page[i].config]
    <3>1. to \in PageState
      BY <1>1, <1>2 DEF PageState
    <3>2. page' = [page EXCEPT ![i] = to]
      BY <1>1, <2>4 DEF Tick
    <3> QED BY <1>1, <3>1, <3>2
  <2>5. CASE Answer(i)
    <3>1. \A c \in Loaded(i) : c \in Versions
      BY <1>1, <1>2 DEF Loaded
    <3>2. PICK c \in Versions, d \in Projects \cup {NoProject} :
            page' = [page EXCEPT ![i] = [config |-> c, dialog |-> d, ticked |-> FALSE,
                                         read |-> 0, waiting |-> 0]]
      BY <1>2, <2>5, <3>1 DEF Answer, Accepted, RejectedStale
    <3>3. [config |-> c, dialog |-> d, ticked |-> FALSE, read |-> 0, waiting |-> 0]
            \in PageState
      BY <1>1 DEF PageState
    <3> QED BY <1>1, <3>2, <3>3
  <2>6. CASE TimeOut(i)
    <3> DEFINE to == [page[i] EXCEPT !.waiting = 0]
    <3>1. to \in PageState
      BY <1>1, <1>2 DEF PageState
    <3>2. page' = [page EXCEPT ![i] = to]
      BY <1>1, <2>6 DEF TimeOut
    <3> QED BY <1>1, <3>1, <3>2
  <2> QED BY <2>1, <2>2, <2>3, <2>4, <2>5, <2>6
<1>4. answers' \subseteq answers /\ UNCHANGED <<terms, proposals, totals, events, audit,
                                               notices, wire, submits>>
  BY DEF Poll, OpenDialog, CloseDialog, Tick, Answer, TimeOut, serverVars
<1> QED BY <1>3, <1>4 DEF TypeOK, PageState

LEMMA TypeOfSubmit ==
  ASSUME TypeOK, NEW i \in Investors, NEW range \in Ranges, Submit(i, range)
  PROVE  TypeOK'
<1>1. /\ page \in [Investors -> PageState] /\ submits \in Nat
      /\ wire \subseteq Message
  BY DEF TypeOK, PageState, Message
<1>2. page[i] \in PageState
  BY <1>1
<1> DEFINE req == [id |-> submits + 1, investor |-> i, project |-> page[i].dialog,
                   range |-> range, sent |-> page[i].config, read |-> page[i].read]
           to == [page[i] EXCEPT !.waiting = submits + 1]
<1>3. req \in Message
  <2>1. page[i].dialog \in Projects
    BY <1>2 DEF Submit, PageState
  <2> QED BY <1>1, <1>2, <2>1 DEF PageState, Message
<1>4. wire' \subseteq Message
  <2>1. wire' = wire \cup {req}
    BY DEF Submit
  <2> HIDE DEF req
  <2> QED BY <1>1, <1>3, <2>1
<1>5. page' \in [Investors -> PageState]
  <2>1. to \in PageState
    BY <1>1, <1>2 DEF PageState
  <2>2. page' = [page EXCEPT ![i] = to]
    BY <1>1 DEF Submit
  <2> QED BY <1>1, <2>1, <2>2
<1>6. submits' \in Nat /\ UNCHANGED <<serverVars, answers>>
  BY <1>1 DEF Submit
<1> HIDE DEF req, to
<1> QED BY <1>4, <1>5, <1>6 DEF TypeOK, PageState, Message, serverVars

Proposal == [investor : Investors, project : Projects, range : Ranges,
             consent : Versions, sent : Versions, read : Versions]

Accepts == [investor : Investors, project : Projects, consent : Versions]

Counters == [investors : Nat, matches : Nat, min : Nat, max : Nat]

LEMMA TypeOfRecord ==
  ASSUME TypeOK, NEW req \in wire, Record(req)
  PROVE  /\ proposals' \in Seq(Proposal)
         /\ totals' \in [Projects -> Counters]
         /\ events' \in Seq([project : Projects, type : EventTypes])
         /\ audit' \in Seq(Accepts)
         /\ notices' \in [Projects -> Nat]
<1>1. /\ req \in Message /\ terms \in Versions
      /\ proposals \in Seq(Proposal) /\ totals \in [Projects -> Counters]
      /\ audit \in Seq(Accepts) /\ notices \in [Projects -> Nat]
      /\ events \in Seq([project : Projects, type : EventTypes])
  BY DEF TypeOK, Message, Proposal, Accepts, Counters, Versions
<1>2. /\ req.investor \in Investors /\ req.project \in Projects /\ req.range \in Ranges
      /\ req.sent \in Versions /\ req.read \in Versions
  BY <1>1 DEF Message
<1>3. MinAmount[req.range] \in Nat /\ MaxAmount[req.range] \in Nat
  BY <1>2, RangesAssumption
<1>4. proposals' \in Seq(Proposal)
  <2> DEFINE e == [investor |-> req.investor, project |-> req.project, range |-> req.range,
                   consent |-> terms, sent |-> req.sent, read |-> req.read]
  <2>1. e \in Proposal /\ proposals' = Append(proposals, e)
    BY <1>1, <1>2 DEF Proposal, Record
  <2> HIDE DEF e
  <2> QED BY <1>1, <2>1
<1>5. totals' \in [Projects -> Counters]
  <2> DEFINE c == totals[req.project]
             to == [investors |-> c.investors + 1, matches |-> c.matches + 1,
                    min |-> c.min + MinAmount[req.range], max |-> c.max + MaxAmount[req.range]]
  <2>1. c \in Counters
    BY <1>1, <1>2
  <2>2. to \in Counters
    BY <1>3, <2>1 DEF Counters
  <2>3. totals' = [totals EXCEPT ![req.project] = to]
    BY DEF Record
  <2> HIDE DEF to
  <2> QED BY <1>1, <2>2, <2>3
<1>6. events' \in Seq([project : Projects, type : EventTypes])
  <2> DEFINE e == [project |-> req.project, type |-> "match"]
  <2>1. e \in [project : Projects, type : EventTypes] /\ events' = Append(events, e)
    BY <1>2 DEF Record, EventTypes
  <2> HIDE DEF e
  <2> QED BY <1>1, <2>1
<1>7. audit' \in Seq(Accepts)
  <2> DEFINE e == [investor |-> req.investor, project |-> req.project, consent |-> terms]
  <2>1. e \in Accepts /\ audit' = Append(audit, e)
    BY <1>1, <1>2 DEF Record, Accepts
  <2> HIDE DEF e
  <2> QED BY <1>1, <2>1
<1>8. notices' \in [Projects -> Nat]
  BY <1>1, <1>2 DEF Record
<1> QED BY <1>4, <1>5, <1>6, <1>7, <1>8

LEMMA TypeOfHandle ==
  ASSUME TypeOK, NEW req \in wire, Handle(req)
  PROVE  TypeOK'
<1>1. answers' \subseteq [id : Nat, ok : BOOLEAN]
  <2> DEFINE a == [id |-> req.id, ok |-> ~Stale(req)]
  <2>1. req \in Message /\ answers \subseteq [id : Nat, ok : BOOLEAN]
    BY DEF TypeOK, Message
  <2>2. Stale(req) \in BOOLEAN
    BY DEF Stale
  <2>3. a \in [id : Nat, ok : BOOLEAN]
    BY <2>1, <2>2 DEF Message
  <2>4. answers' \subseteq answers \cup {a}
    BY DEF Handle
  <2> HIDE DEF a
  <2> QED BY <2>1, <2>3, <2>4
<1>2. CASE Stale(req)
  BY <1>1, <1>2 DEF Handle, TypeOK
<1>3. CASE ~Stale(req)
  <2>1. Record(req) /\ wire' \subseteq wire /\ UNCHANGED <<terms, page, submits>>
    BY <1>3 DEF Handle
  <2> QED BY <1>1, <2>1, TypeOfRecord DEF TypeOK, Proposal, Accepts, Counters
<1> QED BY <1>2, <1>3

LEMMA TypeOfLose ==
  ASSUME TypeOK, NEW req \in wire, Lose(req)
  PROVE  TypeOK'
BY DEF Lose, TypeOK, serverVars

LEMMA TypeOfDeploy ==
  ASSUME TypeOK, Deploy
  PROVE  TypeOK'
<1>1. terms' \in 1 .. MaxTerms
  BY BoundsAssumption DEF Deploy, TypeOK
<1> QED BY <1>1 DEF Deploy, TypeOK

LEMMA TypeOfEvent ==
  ASSUME TypeOK, NEW p \in Projects, NEW type \in EventTypes, RecordProjectEvent(p, type)
  PROVE  TypeOK'
<1> DEFINE E == [project : Projects, type : EventTypes]
<1>1. [project |-> p, type |-> type] \in E /\ events \in Seq(E)
  BY DEF TypeOK
<1>2. events' \in Seq(E)
  <2> HIDE DEF E
  <2> QED BY <1>1 DEF RecordProjectEvent
<1> QED BY <1>2 DEF RecordProjectEvent, TypeOK

LEMMA TypeStep == TypeOK /\ [Next]_vars => TypeOK'
<1> SUFFICES ASSUME TypeOK, [Next]_vars PROVE TypeOK'
  OBVIOUS
<1>1. ASSUME NEW i \in Investors,
             \/ Poll(i) \/ CloseDialog(i) \/ Tick(i) \/ Answer(i) \/ TimeOut(i)
             \/ \E p \in Projects : OpenDialog(i, p)
      PROVE  TypeOK'
  BY <1>1, TypeOfPage
<1>2. ASSUME NEW req \in wire, Lose(req) \/ Handle(req) PROVE TypeOK'
  BY <1>2, TypeOfLose, TypeOfHandle
<1>3. CASE UNCHANGED vars
  BY <1>3 DEF vars, TypeOK
<1> QED BY <1>1, <1>2, <1>3, TypeOfSubmit, TypeOfDeploy, TypeOfEvent DEF Next

------------------------------------------------------------------------------
(* A recorded proposal.                                                     *)

LEMMA MineIsFinite ==
  ASSUME TypeOK, NEW p
  PROVE  IsFiniteSet(Mine(p)) /\ Cardinality(Mine(p)) \in Nat
<1>1. Len(proposals) \in Nat
  BY DEF TypeOK
<1>2. IsFiniteSet(1 .. Len(proposals)) /\ Mine(p) \in SUBSET (1 .. Len(proposals))
  BY <1>1, FS_Interval DEF Mine
<1> QED BY <1>2, FS_Subset, FS_CardinalityType

\* t is s with e at its end; the others stay where they are.
Appended(s, t, e) ==
  /\ Len(s) \in Nat /\ Len(t) = Len(s) + 1
  /\ \A k \in 1 .. Len(s) : t[k] = s[k]
  /\ t[Len(s) + 1] = e

LEMMA AppendAppends ==
  ASSUME NEW S, NEW s \in Seq(S), NEW e \in S
  PROVE  Appended(s, Append(s, e), e)
BY DEF Appended

NewProposal(req) ==
  [investor |-> req.investor, project |-> req.project, range |-> req.range,
   consent |-> terms, sent |-> req.sent, read |-> req.read]
MatchEvent(p) == [project |-> p, type |-> "match"]
NewAccept(req) == [investor |-> req.investor, project |-> req.project, consent |-> terms]

LEMMA RecordAppends ==
  ASSUME TypeOK, NEW req \in wire, Record(req)
  PROVE  /\ Appended(proposals, proposals', NewProposal(req))
         /\ Appended(events, events', MatchEvent(req.project))
         /\ Appended(audit, audit', NewAccept(req))
<1> DEFINE E == [project : Projects, type : EventTypes]
<1>1. /\ req \in Message /\ terms \in Versions
      /\ proposals \in Seq(Proposal) /\ audit \in Seq(Accepts) /\ events \in Seq(E)
  BY DEF TypeOK, Message, Proposal, Accepts, Versions
<1>2. /\ NewProposal(req) \in Proposal /\ MatchEvent(req.project) \in E
      /\ NewAccept(req) \in Accepts
  BY <1>1 DEF NewProposal, MatchEvent, NewAccept, Message, Proposal, Accepts, EventTypes
<1>3. /\ proposals' = Append(proposals, NewProposal(req))
      /\ events' = Append(events, MatchEvent(req.project))
      /\ audit' = Append(audit, NewAccept(req))
  BY DEF Record, NewProposal, MatchEvent, NewAccept
<1> HIDE DEF E
<1> QED BY <1>1, <1>2, <1>3, AppendAppends

MatchEvents(p) == {k \in 1 .. Len(events) : events[k] = [project |-> p, type |-> "match"]}

LEMMA MatchEventsAreFinite ==
  ASSUME TypeOK, NEW p
  PROVE  IsFiniteSet(MatchEvents(p))
<1>1. Len(events) \in Nat
  BY DEF TypeOK
<1>2. IsFiniteSet(1 .. Len(events)) /\ MatchEvents(p) \in SUBSET (1 .. Len(events))
  BY <1>1, FS_Interval DEF MatchEvents
<1> QED BY <1>2, FS_Subset

LEMMA OthersUntouched ==
  ASSUME TypeOK, NEW req \in wire, Record(req), NEW p \in Projects, p # req.project
  PROVE  /\ Mine(p)' = Mine(p) /\ MatchEvents(p)' = MatchEvents(p)
         /\ totals'[p] = totals[p] /\ notices'[p] = notices[p]
<1>1. Mine(p)' = Mine(p)
  <2>1. Appended(proposals, proposals', NewProposal(req)) /\ NewProposal(req).project # p
    BY RecordAppends DEF NewProposal
  <2> QED BY <2>1 DEF Mine, Appended
<1>2. MatchEvents(p)' = MatchEvents(p)
  <2>1. Appended(events, events', MatchEvent(req.project))
    BY RecordAppends
  <2>2. MatchEvent(req.project) # [project |-> p, type |-> "match"]
    BY DEF MatchEvent
  <2> QED BY <2>1, <2>2 DEF MatchEvents, Appended
<1>3. totals'[p] = totals[p] /\ notices'[p] = notices[p]
  <2>1. totals \in [Projects -> Counters] /\ notices \in [Projects -> Nat]
    BY DEF TypeOK, Counters
  <2> QED BY <2>1 DEF Record
<1> QED BY <1>1, <1>2, <1>3

LEMMA OneMoreOfIts ==
  ASSUME TypeOK, NEW req \in wire, Record(req)
  PROVE  LET p == req.project  n == Len(proposals)  m == Len(events)
         IN /\ Mine(p)' = Mine(p) \cup {n + 1} /\ n + 1 \notin Mine(p)
            /\ MatchEvents(p)' = MatchEvents(p) \cup {m + 1} /\ m + 1 \notin MatchEvents(p)
<1> DEFINE p == req.project
           n == Len(proposals)
           m == Len(events)
<1>1. /\ Appended(proposals, proposals', NewProposal(req)) /\ NewProposal(req).project = p
      /\ Appended(events, events', MatchEvent(p)) /\ n \in Nat /\ m \in Nat
  BY RecordAppends DEF NewProposal, Appended
<1>2. Mine(p)' = Mine(p) \cup {n + 1}
  <2>1. 1 .. Len(proposals') = (1 .. n) \cup {n + 1}
    BY <1>1 DEF Appended
  <2>2. proposals'[n + 1].project = p /\ \A k \in 1 .. n : proposals'[k] = proposals[k]
    BY <1>1 DEF Appended
  <2> QED BY <2>1, <2>2 DEF Mine
<1>3. MatchEvents(p)' = MatchEvents(p) \cup {m + 1}
  <2>1. 1 .. Len(events') = (1 .. m) \cup {m + 1}
    BY <1>1 DEF Appended
  <2>2. events'[m + 1] = MatchEvent(p) /\ \A k \in 1 .. m : events'[k] = events[k]
    BY <1>1 DEF Appended
  <2> QED BY <2>1, <2>2 DEF MatchEvents, MatchEvent
<1>4. n + 1 \notin Mine(p) /\ m + 1 \notin MatchEvents(p)
  BY <1>1 DEF Mine, MatchEvents
<1> QED BY <1>2, <1>3, <1>4

\* What TotalsMatchProposals says of one project.
Minima(p) == [k \in Mine(p) |-> MinAmount[proposals[k].range]]
Maxima(p) == [k \in Mine(p) |-> MaxAmount[proposals[k].range]]

TotalsMatch(p) ==
  /\ totals[p].investors = Cardinality(Mine(p))
  /\ totals[p].matches = Cardinality(Mine(p))
  /\ totals[p].min = SumOf(Minima(p))
  /\ totals[p].max = SumOf(Maxima(p))
  /\ Cardinality(MatchEvents(p)) = Cardinality(Mine(p))
  /\ notices[p] = Cardinality(Mine(p))

LEMMA TotalsByProject == TotalsMatchProposals <=> \A p \in Projects : TotalsMatch(p)
BY DEF TotalsMatchProposals, TotalsMatch, Minima, Maxima, MatchEvents

LEMMA SumsGrow ==
  ASSUME TypeOK, NEW req \in wire, Record(req)
  PROVE  LET p == req.project
         IN /\ SumOf(Minima(p)') = SumOf(Minima(p)) + MinAmount[req.range]
            /\ SumOf(Maxima(p)') = SumOf(Maxima(p)) + MaxAmount[req.range]
<1> DEFINE p == req.project
           x == Len(proposals) + 1
<1>1. Mine(p)' = Mine(p) \cup {x} /\ x \notin Mine(p) /\ IsFiniteSet(Mine(p))
  BY OneMoreOfIts, MineIsFinite
<1>2. /\ proposals'[x].range = req.range
      /\ \A k \in Mine(p) : proposals'[k] = proposals[k]
  <2>1. Appended(proposals, proposals', NewProposal(req)) /\ NewProposal(req).range = req.range
    BY RecordAppends DEF NewProposal
  <2> QED BY <2>1 DEF Appended, Mine
<1>3. \A k \in Mine(p) : proposals[k].range \in Ranges
  <2>1. proposals \in Seq(Proposal)
    BY DEF TypeOK, Proposal
  <2>2. \A k \in 1 .. Len(proposals) : proposals[k] \in Proposal
    BY <2>1
  <2> QED BY <2>2 DEF Mine, Proposal
<1>4. req.range \in Ranges
  <2>1. req \in Message
    BY DEF TypeOK, Message
  <2> QED BY <2>1 DEF Message
<1> HIDE DEF p, x
<1>5. SumOf(Minima(p)') = SumOf(Minima(p)) + MinAmount[req.range]
  <2> DEFINE f == Minima(p)
             h == Minima(p)'
  <2>1. DOMAIN f = Mine(p) /\ DOMAIN h = Mine(p) \cup {x}
    BY <1>1 DEF Minima
  <2>2. h[x] = MinAmount[req.range] /\ \A k \in Mine(p) : h[k] = f[k]
    BY <1>1, <1>2 DEF Minima
  <2>3. \A k \in Mine(p) : f[k] \in Nat
    BY <1>3, RangesAssumption DEF Minima
  <2>4. \A k \in Mine(p) \cup {x} : h[k] \in Nat
    BY <1>4, <2>2, <2>3, RangesAssumption
  <2>5. f = [k \in DOMAIN f |-> f[k]] /\ h = [k \in DOMAIN h |-> h[k]]
    BY DEF Minima
  <2>6. f \in [DOMAIN f -> Nat] /\ h \in [DOMAIN h -> Nat]
    BY <2>1, <2>3, <2>4, <2>5
  <2> HIDE DEF f, h
  <2>7. SumOf(h) = SumOf(f) + h[x]
    BY <1>1, <2>1, <2>2, <2>6, SumIsAdded, AddedOneMore
  <2> QED BY <2>2, <2>7 DEF f, h
<1>6. SumOf(Maxima(p)') = SumOf(Maxima(p)) + MaxAmount[req.range]
  <2> DEFINE f == Maxima(p)
             h == Maxima(p)'
  <2>1. DOMAIN f = Mine(p) /\ DOMAIN h = Mine(p) \cup {x}
    BY <1>1 DEF Maxima
  <2>2. h[x] = MaxAmount[req.range] /\ \A k \in Mine(p) : h[k] = f[k]
    BY <1>1, <1>2 DEF Maxima
  <2>3. \A k \in Mine(p) : f[k] \in Nat
    BY <1>3, RangesAssumption DEF Maxima
  <2>4. \A k \in Mine(p) \cup {x} : h[k] \in Nat
    BY <1>4, <2>2, <2>3, RangesAssumption
  <2>5. f = [k \in DOMAIN f |-> f[k]] /\ h = [k \in DOMAIN h |-> h[k]]
    BY DEF Maxima
  <2>6. f \in [DOMAIN f -> Nat] /\ h \in [DOMAIN h -> Nat]
    BY <2>1, <2>3, <2>4, <2>5
  <2> HIDE DEF f, h
  <2>7. SumOf(h) = SumOf(f) + h[x]
    BY <1>1, <2>1, <2>2, <2>6, SumIsAdded, AddedOneMore
  <2> QED BY <2>2, <2>7 DEF f, h
<1> QED BY <1>5, <1>6 DEF p

LEMMA TotalsOfRecord ==
  ASSUME TypeOK, TotalsMatchProposals, NEW req \in wire, Record(req)
  PROVE  TotalsMatchProposals'
<1>1. ASSUME NEW p \in Projects, p # req.project PROVE TotalsMatch(p)'
  <2>1. /\ Mine(p)' = Mine(p) /\ MatchEvents(p)' = MatchEvents(p)
        /\ totals'[p] = totals[p] /\ notices'[p] = notices[p]
    BY <1>1, OthersUntouched
  <2>2. \A k \in Mine(p) : proposals'[k] = proposals[k]
    BY RecordAppends DEF Appended, Mine
  <2>3. Minima(p)' = Minima(p) /\ Maxima(p)' = Maxima(p)
    BY <2>1, <2>2 DEF Minima, Maxima
  <2>4. TotalsMatch(p)
    BY TotalsByProject
  <2> QED BY <2>1, <2>3, <2>4 DEF TotalsMatch
<1>2. ASSUME NEW p \in Projects, p = req.project PROVE TotalsMatch(p)'
  <2> DEFINE c == Cardinality(Mine(p))
  <2>1. TotalsMatch(p)
    BY TotalsByProject
  <2>2. Cardinality(Mine(p)') = c + 1 /\ Cardinality(MatchEvents(p)') = Cardinality(MatchEvents(p)) + 1
    BY <1>2, OneMoreOfIts, MineIsFinite, MatchEventsAreFinite, FS_AddElement
  <2>3. totals \in [Projects -> Counters] /\ notices \in [Projects -> Nat]
    BY DEF TypeOK, Counters
  <2>4. /\ totals'[p].investors = totals[p].investors + 1
        /\ totals'[p].matches = totals[p].matches + 1
        /\ totals'[p].min = totals[p].min + MinAmount[req.range]
        /\ totals'[p].max = totals[p].max + MaxAmount[req.range]
        /\ notices'[p] = notices[p] + 1
    BY <1>2, <2>3 DEF Record
  <2>5. /\ SumOf(Minima(p)') = SumOf(Minima(p)) + MinAmount[req.range]
        /\ SumOf(Maxima(p)') = SumOf(Maxima(p)) + MaxAmount[req.range]
    BY <1>2, SumsGrow
  <2> QED BY <2>1, <2>2, <2>4, <2>5 DEF TotalsMatch
<1> QED BY <1>1, <1>2, TotalsByProject DEF TotalsMatchProposals, TotalsMatch, Minima, Maxima,
       MatchEvents

LEMMA LogsOfRecord ==
  ASSUME TypeOK, ConsentIsAudited, RecordedAsSent, ScreenedAfterMatch,
         NEW req \in wire, Record(req), ~Stale(req)
  PROVE  ConsentIsAudited' /\ RecordedAsSent' /\ ScreenedAfterMatch'
<1>1. /\ Appended(proposals, proposals', NewProposal(req))
      /\ Appended(events, events', MatchEvent(req.project))
      /\ Appended(audit, audit', NewAccept(req))
  BY RecordAppends
<1>2. ConsentIsAudited'
  <2> DEFINE n == Len(proposals)
  <2>1. /\ n \in Nat /\ Len(audit) = n /\ Len(proposals') = n + 1 /\ Len(audit') = n + 1
        /\ proposals'[n + 1] = NewProposal(req) /\ audit'[n + 1] = NewAccept(req)
        /\ \A k \in 1 .. n : proposals'[k] = proposals[k] /\ audit'[k] = audit[k]
    BY <1>1 DEF ConsentIsAudited, Appended
  <2>2. ASSUME NEW k \in 1 .. n + 1
        PROVE  audit'[k] = [investor |-> proposals'[k].investor,
                            project |-> proposals'[k].project,
                            consent |-> proposals'[k].consent]
    <3>1. CASE k = n + 1
      BY <2>1, <3>1 DEF NewProposal, NewAccept
    <3>2. CASE k \in 1 .. n
      BY <2>1, <3>2 DEF ConsentIsAudited
    <3> QED BY <2>1, <3>1, <3>2
  <2> QED BY <2>1, <2>2 DEF ConsentIsAudited
<1>3. RecordedAsSent'
  <2> DEFINE n == Len(proposals)
  <2>1. /\ n \in Nat /\ Len(proposals') = n + 1 /\ proposals'[n + 1] = NewProposal(req)
        /\ \A k \in 1 .. n : proposals'[k] = proposals[k]
    BY <1>1 DEF Appended
  <2>2. ASSUME NEW k \in 1 .. n + 1
        PROVE  proposals'[k].sent # 0 => proposals'[k].consent = proposals'[k].sent
    <3>1. CASE k = n + 1
      BY <2>1, <3>1 DEF NewProposal, Stale
    <3>2. CASE k \in 1 .. n
      BY <2>1, <3>2 DEF RecordedAsSent
    <3> QED BY <2>1, <3>1, <3>2
  <2> QED BY <2>1, <2>2 DEF RecordedAsSent
<1>4. ScreenedAfterMatch'
  <2> DEFINE n == Len(events)
  <2>1. /\ n \in Nat /\ Len(events') = n + 1 /\ events'[n + 1].type = "match"
        /\ \A k \in 1 .. n : events'[k] = events[k]
    BY <1>1 DEF Appended, MatchEvent
  <2> QED BY <2>1 DEF ScreenedAfterMatch
<1> QED BY <1>2, <1>3, <1>4

\* The counter lets a preview through only if the log holds a match before it.
LEMMA LogOfEvent ==
  ASSUME TypeOK, TotalsMatchProposals, ScreenedAfterMatch, NEW p \in Projects,
         NEW type \in EventTypes, RecordProjectEvent(p, type)
  PROVE  ScreenedAfterMatch' /\ \A q \in Projects : MatchEvents(q)' = MatchEvents(q)
<1> DEFINE E == [project : Projects, type : EventTypes]
           e == [project |-> p, type |-> type]
           n == Len(events)
<1>1. Appended(events, events', e)
  <2>1. e \in E /\ events \in Seq(E) /\ events' = Append(events, e)
    BY DEF TypeOK, RecordProjectEvent
  <2> HIDE DEF e, E
  <2> QED BY <2>1, AppendAppends
<1>2. /\ n \in Nat /\ Len(events') = n + 1 /\ events'[n + 1] = e
      /\ \A k \in 1 .. n : events'[k] = events[k]
  BY <1>1 DEF Appended
<1>3. ASSUME p \in Screened, type \in {"preview", "outbound"}
      PROVE  \E l \in 1 .. n : events[l] = [project |-> p, type |-> "match"]
  <2>1. totals[p].matches > 0
    BY <1>3 DEF RecordProjectEvent, ApprovedAccess
  <2>2. totals[p].matches = Cardinality(Mine(p)) /\ Cardinality(MatchEvents(p)) = Cardinality(Mine(p))
    BY TotalsByProject DEF TotalsMatch
  <2>3. MatchEvents(p) # {}
    BY <2>1, <2>2, FS_EmptySet
  <2> QED BY <2>3 DEF MatchEvents
<1>4. ScreenedAfterMatch'
  <2>1. ASSUME NEW k \in 1 .. n + 1, events'[k].project \in Screened,
               events'[k].type \in {"preview", "outbound"}
        PROVE  \E l \in 1 .. k - 1 : events'[l] = [project |-> events'[k].project,
                                                   type |-> "match"]
    <3>1. CASE k \in 1 .. n
      BY <1>2, <2>1, <3>1 DEF ScreenedAfterMatch
    <3>2. CASE k = n + 1
      BY <1>2, <1>3, <2>1, <3>2
    <3> QED BY <1>2, <3>1, <3>2
  <2> QED BY <1>2, <2>1 DEF ScreenedAfterMatch
<1>5. ASSUME NEW q \in Projects PROVE MatchEvents(q)' = MatchEvents(q)
  <2>1. e # [project |-> q, type |-> "match"]
    BY DEF RecordProjectEvent
  <2> QED BY <1>2, <2>1 DEF MatchEvents
<1> QED BY <1>4, <1>5

------------------------------------------------------------------------------
LEMMA MInit == Init => MInv
<1> SUFFICES ASSUME Init PROVE MInv
  OBVIOUS
<1>1. proposals = <<>> /\ events = <<>> /\ audit = <<>>
  BY DEF Init
<1>2. Len(proposals) = 0 /\ Len(events) = 0 /\ Len(audit) = 0
  BY <1>1
<1>3. ASSUME NEW p \in Projects PROVE TotalsMatch(p)
  <2>1. Mine(p) = {} /\ MatchEvents(p) = {}
    BY <1>2 DEF Mine, MatchEvents
  <2>2. SumOf(Minima(p)) = 0 /\ SumOf(Maxima(p)) = 0
    BY <2>1, SumIsAdded, AddedNothing DEF Minima, Maxima
  <2>3. /\ totals[p] = [investors |-> 0, matches |-> 0, min |-> 0, max |-> 0]
        /\ notices[p] = 0
    BY DEF Init
  <2> QED BY <2>1, <2>2, <2>3, FS_EmptySet DEF TotalsMatch
<1>4. ConsentIsAudited /\ RecordedAsSent /\ ScreenedAfterMatch
  BY <1>2 DEF ConsentIsAudited, RecordedAsSent, ScreenedAfterMatch
<1> QED BY <1>3, <1>4, TypeInit, TotalsByProject DEF MInv

\* The properties but the type read only what the server keeps.
Kept == <<proposals, totals, events, audit, notices>>

LEMMA TotalsKept ==
  ASSUME TotalsMatchProposals, UNCHANGED <<proposals, totals, notices>>,
         \A q \in Projects : MatchEvents(q)' = MatchEvents(q)
  PROVE  TotalsMatchProposals'
<1>1. ASSUME NEW q \in Projects PROVE TotalsMatch(q)'
  <2>1. TotalsMatch(q)
    BY TotalsByProject
  <2>2. /\ Mine(q)' = Mine(q) /\ Minima(q)' = Minima(q) /\ Maxima(q)' = Maxima(q)
        /\ MatchEvents(q)' = MatchEvents(q)
    BY DEF Mine, Minima, Maxima
  <2> QED BY <2>1, <2>2 DEF TotalsMatch
<1> QED BY <1>1 DEF TotalsMatchProposals, TotalsMatch, Minima, Maxima, MatchEvents

LEMMA KeptUnchanged ==
  ASSUME MInv, UNCHANGED Kept
  PROVE  TotalsMatchProposals' /\ ConsentIsAudited' /\ RecordedAsSent' /\ ScreenedAfterMatch'
<1>1. TotalsMatchProposals'
  BY TotalsKept DEF MInv, Kept, MatchEvents
<1> QED BY <1>1 DEF MInv, Kept, ConsentIsAudited, RecordedAsSent, ScreenedAfterMatch

LEMMA MStep == MInv /\ [Next]_vars => MInv'
<1> SUFFICES ASSUME MInv, [Next]_vars PROVE MInv'
  OBVIOUS
<1> DEFINE Rest == /\ TotalsMatchProposals' /\ ConsentIsAudited'
                   /\ RecordedAsSent' /\ ScreenedAfterMatch'
<1>1. ASSUME NEW req \in wire, Handle(req) PROVE Rest
  <2>1. CASE Stale(req)
    <3>1. UNCHANGED Kept
      BY <1>1, <2>1 DEF Handle, Kept
    <3> QED BY <3>1, KeptUnchanged
  <2>2. CASE ~Stale(req)
    <3>1. Record(req)
      BY <1>1, <2>2 DEF Handle
    <3>2. TotalsMatchProposals'
      BY <3>1, TotalsOfRecord DEF MInv
    <3>3. ConsentIsAudited' /\ RecordedAsSent' /\ ScreenedAfterMatch'
      BY <2>2, <3>1, LogsOfRecord DEF MInv
    <3> QED BY <3>2, <3>3
  <2> QED BY <2>1, <2>2
<1>2. ASSUME NEW p \in Projects, NEW type \in EventTypes, RecordProjectEvent(p, type)
      PROVE  Rest
  <2>1. ScreenedAfterMatch' /\ \A q \in Projects : MatchEvents(q)' = MatchEvents(q)
    BY <1>2, LogOfEvent DEF MInv
  <2>2. UNCHANGED <<proposals, totals, audit, notices>>
    BY <1>2 DEF RecordProjectEvent
  <2>3. ConsentIsAudited' /\ RecordedAsSent'
    BY <2>2 DEF MInv, ConsentIsAudited, RecordedAsSent
  <2>4. TotalsMatchProposals'
    BY <2>1, <2>2, TotalsKept DEF MInv
  <2> QED BY <2>1, <2>3, <2>4
<1>3. ASSUME NEW i \in Investors,
             \/ Poll(i) \/ CloseDialog(i) \/ Tick(i) \/ Answer(i) \/ TimeOut(i)
             \/ \E p \in Projects : OpenDialog(i, p)
             \/ \E range \in Ranges : Submit(i, range)
      PROVE  UNCHANGED Kept
  BY <1>3 DEF Kept, serverVars, Poll, CloseDialog, Tick, Answer, TimeOut, OpenDialog, Submit
<1>4. ASSUME NEW req \in wire, Lose(req) PROVE UNCHANGED Kept
  BY <1>4 DEF Kept, serverVars, Lose
<1>5. ASSUME Deploy \/ UNCHANGED vars PROVE UNCHANGED Kept
  BY <1>5 DEF Kept, Deploy, vars
<1>6. ASSUME UNCHANGED Kept PROVE Rest
  BY <1>6, KeptUnchanged
<1>7. TypeOK'
  BY TypeStep DEF MInv
<1>8. Rest
  <2> HIDE DEF Rest
  <2>1. CASE Next
    BY <1>1, <1>2, <1>3, <1>4, <1>5, <1>6, <2>1 DEF Next
  <2> QED BY <1>5, <1>6, <2>1
<1> QED BY <1>7, <1>8 DEF MInv

\* The invariant is inductive.
THEOREM Invariance == Spec => []MInv
BY MInit, MStep, PTL DEF Spec

\* The server's records, the pages and the messages between them keep their
\* types, and no version on them is newer than the last build's.
THEOREM TypeCorrect == Spec => []TypeOK
<1>1. MInv => TypeOK
  BY DEF MInv
<1> QED BY <1>1, Invariance, PTL

\* Lost answers, requests sent twice or handled after the page gave up, new
\* terms in between: the counters of a project, the sums of its funding ranges,
\* its match events and its maker's notices always agree with its proposals.
THEOREM TotalsAgree == Spec => []TotalsMatchProposals
<1>1. MInv => TotalsMatchProposals
  BY DEF MInv
<1> QED BY <1>1, Invariance, PTL

\* Every proposal has its entry in the audit log, in the same place, naming
\* the investor, the project and the version consented to; there is no other.
THEOREM ConsentProved == Spec => []ConsentIsAudited
<1>1. MInv => ConsentIsAudited
  BY DEF MInv
<1> QED BY <1>1, Invariance, PTL

\* A page that sends a version has its proposal recorded under that version,
\* whichever builds are deployed while the request is on its way.
THEOREM SentIsRecorded == Spec => []RecordedAsSent
<1>1. MInv => RecordedAsSent
  BY DEF MInv
<1> QED BY <1>1, Invariance, PTL

\* The link of a screened project is never opened before its first match.
THEOREM ScreenedFirst == Spec => []ScreenedAfterMatch
<1>1. MInv => ScreenedAfterMatch
  BY DEF MInv
<1> QED BY <1>1, Invariance, PTL
=============================================================================
