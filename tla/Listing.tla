------------------------------ MODULE Listing ------------------------------
(* What the server answers to GET /projects: which rows match a query, in     *)
(* which order, on which page; the signal score that orders them; the public  *)
(* profile of a maker and the site map.  A row is a project with its counters; *)
(* a text is the set of words a search finds in it, and ages are in hours.    *)
EXTENDS Integers, FiniteSets, Sequences, SequencesExt

All   == "All"
Unset == -1

(* The elements of S in the order of Earlier, which is strict and total on S. *)
InOrder(S, Earlier(_, _)) ==
  LET rank == [x \in S |-> Cardinality({y \in S : Earlier(y, x)})]
  IN [i \in 1..Cardinality(S) |-> CHOOSE x \in S : rank[x] = i - 1]

(* A project with its counters, as far as the listing reads it.               *)
IsRow(p) ==
  /\ p = [n \in {"id", "maker", "title", "created", "access", "url", "words", "tags",
                 "category", "verified", "ms", "previews", "outbounds", "matchEvents", "matches", "age",
                 "reviewers", "committedMin", "committedMax", "upvotes", "seen"} |-> p[n]]
  /\ {p.created, p.ms, p.previews, p.outbounds, p.matchEvents, p.matches, p.age, p.committedMax,
      p.upvotes} \subseteq Int
  /\ p.verified \in BOOLEAN

(* calculateProjectSignalScore: fifty points for a verified address, up to 24 *)
(* for a fast one, the rest for what visitors did and how recently.           *)
SpeedPoints(ms) ==
  IF ms = Unset THEN 0
  ELSE IF ms <= 200 THEN 24 ELSE IF ms <= 500 THEN 18
  ELSE IF ms <= 1000 THEN 12 ELSE IF ms <= 2000 THEN 6 ELSE 2

RecencyPoints(age) ==
  IF age = Unset THEN 0 ELSE IF age <= 24 THEN 6 ELSE IF age <= 72 THEN 3 ELSE 0

SignalScore(p) ==
  Min({100, (IF p.verified THEN 50 + SpeedPoints(p.ms) ELSE 0)
            + Min({10, p.previews * 2}) + Min({12, p.outbounds * 4})
            + Min({24, p.matchEvents * 12 + p.matches * 8})
            + RecencyPoints(p.age)})

(* hydrateProject: what leaves the server.  The address of a screened project *)
(* is redacted.                                                               *)
Redacted == "redacted"
Hydrate(p) ==
  [id |-> p.id, title |-> p.title, url |-> IF p.access = "screened" THEN Redacted ELSE p.url,
   verified |-> p.verified, score |-> SignalScore(p), upvotes |-> p.upvotes,
   ladder |-> p.verified /\ p.upvotes >= 5 /\ p.reviewers >= 3, seen |-> p.seen]

(* buildFilteredProjects.                                                     *)
\* Mutant of SearchedWords: the address of a screened project is searched too.
SearchedWordsAll(p) == p.words \cup {p.url}

SearchedWords(p) == p.words \cup (IF p.access = "screened" THEN {} ELSE {p.url})

Matches(p, q) ==
  /\ q.category \in {All, p.category}
  /\ q.access \in {All, p.access}
  /\ q.tag = All \/ q.tag \in p.tags
  /\ q.verified => p.verified
  /\ q.min # Unset => p.committedMax >= q.min
  /\ q.max # Unset => p.committedMin <= q.max
  /\ q.q # "" => q.q \in SearchedWords(p)
  /\ q.minSignal # Unset => SignalScore(p) >= q.minSignal

(* applySort: the chosen key first, then the score, then the newest first.    *)
SortKey(p, sort) ==
  CASE sort = "recent"  -> IF p.age = Unset THEN -1000000 ELSE -p.age
    [] sort = "created" -> p.created
    [] sort = "funding" -> p.committedMax
    [] sort = "upvotes" -> p.upvotes
    [] OTHER            -> 0

Before(a, b, sort) ==
  LET ka == SortKey(a, sort)  kb == SortKey(b, sort)
      sa == SignalScore(a)    sb == SignalScore(b)
  IN \/ ka > kb
     \/ ka = kb /\ sa > sb
     \/ ka = kb /\ sa = sb /\ a.created > b.created

Ranked(rows, q) ==
  InOrder({p \in rows : Matches(p, q)}, LAMBDA a, b : Before(a, b, q.sort))

(* The query DTO and assertValidFundingRange: what is not accepted is a 400.  *)
Accepted(q) ==
  /\ q.page >= 1 /\ q.limit \in 1..100 /\ q.minSignal \in {Unset} \cup 0..1000
  /\ (q.min # Unset /\ q.max # Unset) => q.max >= q.min

\* Mutant of FirstOf: pages counted from zero.
FirstOfFromZero(page, limit) == page * limit + 1

(* getProjectList: one page of the ranking; a page past the end is the last.  *)
FirstOf(page, limit) == (page - 1) * limit + 1
PageOf(rows, q) ==
  LET ranking == Ranked(rows, q)
      pages   == Max({1, (Len(ranking) + q.limit - 1) \div q.limit})
      page    == Min({Max({1, q.page}), pages})
      first   == FirstOf(page, q.limit)
      data    == SubSeq(ranking, first, Min({first + q.limit - 1, Len(ranking)}))
  IN [data |-> [i \in DOMAIN data |-> Hydrate(data[i])],
      meta |-> [total |-> Len(ranking), page |-> page, pages |-> pages,
                prev |-> page > 1, next |-> page < pages]]

(* getMakerProfile and getSitemapData.                                        *)
MakerProfile(rows, maker) ==
  LET own == InOrder({p \in rows : p.maker = maker}, LAMBDA a, b : a.created > b.created)
  IN [i \in DOMAIN own |-> Hydrate(own[i])]

Sitemap(rows) ==
  LET open == {r \in rows : r.access = "open"}
  IN [projects |-> {p.id : p \in open}, makers |-> {p.maker : p \in open}]
=============================================================================
