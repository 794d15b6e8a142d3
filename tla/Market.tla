------------------------------- MODULE Market -------------------------------
(* The market list of the web client: the filter controls, the address bar    *)
(* and the preset that remember them, react-query's cache of answers keyed by *)
(* the query, the effect that copies an answer into the list on screen, and   *)
(* the answers that patch that list without a query.  The server is the       *)
(* listing of module Listing over rows that change under the viewer.          *)
EXTENDS Listing

CONSTANTS Catalogue,   \* the rows at the start
          Late,        \* a row registered later, by another maker
          Unstable,    \* ids of the projects whose probe result changes
          Own,         \* ids of the projects the viewer upvotes
          Starrable,   \* ids of the projects the viewer may save
          Categories,  \* what GET /market/config lists
          Presets,     \* the presets an earlier visit may have stored
          Values,      \* field of the filters |-> the values a control offers
          DefaultLimit,\* rows of a page (12 in the code)
          MaxClicks,   \* bound on what the viewer does
          MaxSeen      \* bound on the probes of a project

ASSUME MarketAssumption == DefaultLimit \in 1..100 /\ {MaxClicks, MaxSeen} \subseteq Nat

(* Rows have what Listing reads of them; no two have one id or one moment.    *)
Base == Catalogue \cup {Late}
ASSUME CatalogueAssumption ==
  /\ IsFiniteSet(Catalogue)
  /\ \A p \in Base : IsRow(p) /\ p.seen \in Nat
  /\ \A p, r \in Base : p.id = r.id \/ p.created = r.created => p = r

(* What a maker of a screened project keeps to himself: its address is not in *)
(* its text and no open project has it.                                       *)
ASSUME AddressesAssumption ==
  \A p \in Base : p.access = "screened" =>
    /\ p.url \notin {"", Redacted} \cup p.words
    /\ \A r \in Base : r.access # "screened" => r.url # p.url

VARIABLES rows, f, typed, configured, favs, admin,   \* server; controls of the hook
          cache, flight, dep, list, meta,            \* queries and what they show
          sweep, url, preset, clicks,                \* refresh of everything; memory
          applied   \* history: what was remembered is in the controls and the address
marketVars == <<rows, f, typed, configured, favs, admin, cache, flight, dep, list, meta,
                sweep, url, preset, clicks, applied>>

NoData   == <<>>
NoSweep  == [at |-> "none",  rows |-> <<>>]
Asked    == [at |-> "asked", rows |-> <<>>]
Defaults == [category |-> All, tag |-> All, access |-> All, q |-> "", sort |-> "signal",
             minSignal |-> 0, min |-> 0, max |-> 0, verified |-> FALSE, fav |-> FALSE,
             page |-> 1, limit |-> DefaultLimit]
NoMeta   == [total |-> 0, page |-> 1, pages |-> 1, prev |-> FALSE, next |-> FALSE]

(* What the controls can hold, and what each of them offers.  The two strings *)
(* are named because the provers do not know that a literal is one.           *)
Entry == STRING \cup {"", All}
Filters == [category : Entry, tag : Entry, access : {All, "open", "screened"}, q : Entry,
            sort : {"signal", "upvotes", "recent", "created", "funding"},
            minSignal : Nat, min : Nat, max : Nat, verified : BOOLEAN, fav : BOOLEAN,
            page : Nat \ {0}, limit : 1..100]
Controls == {"category", "tag", "access", "q", "sort", "minSignal", "min", "max", "verified", "limit"}
ASSUME ControlsAssumption ==
  /\ Presets \subseteq Filters
  /\ \A c \in Controls : \A v \in Values[c] : [Defaults EXCEPT ![c] = v] \in Filters

(* normalizedCategory and normalizedAccessMode: until the configuration has    *)
(* arrived it lists neither categories nor access modes; then it lists all of *)
(* the latter.                                                                *)
Normal(g, ready) == IF ready /\ g.category \in Categories THEN g.category ELSE All
NormalAccess(g, ready) == IF ready THEN g.access ELSE All
OrUnset(n) == IF n > 0 THEN n ELSE Unset

RangeError(g) == g.max > 0 /\ g.min > 0 /\ g.max < g.min

(* projectQuery, which is also the key of the query.                          *)
Query(g, ready) ==
  [q |-> g.q, category |-> Normal(g, ready), tag |-> g.tag, access |-> NormalAccess(g, ready),
   sort |-> g.sort, page |-> g.page, limit |-> g.limit,
   minSignal |-> OrUnset(g.minSignal), verified |-> g.verified,
   min |-> IF RangeError(g) THEN Unset ELSE OrUnset(g.min),
   max |-> IF RangeError(g) THEN Unset ELSE OrUnset(g.max)]
Key == Query(f, configured)

(* The effect that writes the address and the preset.                         *)
Saved(g, ready) ==
  [g EXCEPT !.category = Normal(g, ready), !.access = NormalAccess(g, ready)]
\* Mutant of Address: the category is left out of the address.
AddressNoCategory(g, ready, inAdmin) ==
  [admin |-> inAdmin, params |-> [Saved(g, ready) EXCEPT !.category = All]]

Address(g, ready, inAdmin) ==
  LET s == IF RangeError(g) THEN [Saved(g, ready) EXCEPT !.min = 0, !.max = 0]
                            ELSE Saved(g, ready)
  IN [admin |-> inAdmin, params |-> s]
HasQuery(u) == u.admin \/ u.params # Defaults
ReadFilterPreset(u, p) == IF HasQuery(u) THEN u.params ELSE p

(* The effect that copies the data of the current query into the list.        *)
DataOf(k, c, inAdmin) == IF inAdmin \/ k \notin DOMAIN c THEN NoData ELSE <<k, c[k]>>
Sync(d) ==
  /\ dep' = d
  /\ IF d # dep /\ d # NoData THEN list' = d[2].data /\ meta' = d[2].meta
                              ELSE UNCHANGED <<list, meta>>

(* A render with other controls: another key is fetched when it is mounted,   *)
(* and the effects run.  Of the entries and requests that nobody observes any  *)
(* more the model keeps those of the query just left (react-query collects an *)
(* entry five minutes after its last use).                                    *)
Render(g, ready, inAdmin) ==
  LET k == Query(g, ready)
  IN /\ f' = g /\ configured' = ready /\ admin' = inAdmin
     /\ IF inAdmin \/ (k = Key /\ ~admin) THEN UNCHANGED flight
          ELSE flight' = (flight \cap {Key}) \cup {k}
     /\ cache' = Restrict(cache, {k, Key} \cap DOMAIN cache)
     /\ Sync(DataOf(k, cache', inAdmin))
     /\ IF <<Saved(g, ready), inAdmin>> = <<Saved(f, configured), admin>>
          THEN UNCHANGED <<url, preset, applied>>
          ELSE url' = Address(g, ready, inAdmin) /\ preset' = Saved(g, ready) /\ applied' = TRUE

\* Filters that wait for neither the debounce nor the configuration.
AtOnce(g) == g.q = "" /\ g.category = All /\ g.access = All

Boot(g, u, p) ==
  /\ f' = [g EXCEPT !.q = ""] /\ typed' = g.q /\ configured' = FALSE
  /\ admin' = u.admin /\ url' = u /\ preset' = p
  /\ cache' = <<>> /\ dep' = NoData /\ list' = <<>> /\ meta' = NoMeta
  /\ flight' = IF u.admin THEN {} ELSE {Query(f', FALSE)}
  /\ sweep' = NoSweep /\ applied' = AtOnce(g)

MarketInit ==
  \E p \in Presets :
    /\ rows = Catalogue /\ favs = {} /\ clicks = 0
    /\ f = [p EXCEPT !.q = ""] /\ typed = p.q /\ configured = FALSE /\ admin = FALSE
    /\ cache = <<>> /\ flight = {Query(f, FALSE)}
    /\ dep = NoData /\ list = <<>> /\ meta = NoMeta /\ sweep = NoSweep
    /\ url = [admin |-> FALSE, params |-> Defaults] /\ preset = p
    /\ applied = AtOnce(p)
-----------------------------------------------------------------------------
(* The controls.  Each sets its field and returns to the first page.          *)
Show(g) == ~admin /\ Render([g EXCEPT !.page = 1], configured, FALSE)
Still   == UNCHANGED <<rows, favs, sweep>>

Choose(field) == \E v \in Values[field] :
  Show([f EXCEPT ![field] = v]) /\ UNCHANGED typed /\ Still

SelectCategory   == Choose("category")
SelectTag        == Choose("tag")
SelectAccessMode == Choose("access")
SortBy           == Choose("sort")
OnlyVerified     == Choose("verified")
ChooseBounds     == Choose("minSignal") \/ Choose("min") \/ Choose("max")
ChoosePageSize   == Choose("limit")

SortRecentClean ==
  /\ Show([f EXCEPT !.sort = "recent", !.verified = FALSE, !.minSignal = 0])
  /\ UNCHANGED typed /\ Still

FundingRange == \E lo \in Values["min"], hi \in Values["max"] :
  /\ lo <= hi
  /\ Show([f EXCEPT !.min = lo, !.max = hi]) /\ UNCHANGED typed /\ Still

FavouritesOnly ==
  /\ f.fav \/ favs # {}
  /\ Show([f EXCEPT !.fav = ~@]) /\ UNCHANGED typed /\ Still

Type == \E w \in Values["q"] : typed' = w /\ Show(f) /\ Still
ClearSearch == f.q # "" /\ Show([f EXCEPT !.q = ""]) /\ typed' = "" /\ Still
Debounce == typed # f.q /\ Render([f EXCEPT !.q = typed], configured, admin)
                        /\ UNCHANGED typed /\ Still
ResetFilters == Show([Defaults EXCEPT !.limit = f.limit]) /\ typed' = "" /\ Still

(* The pager: the buttons follow the shown answer, the clicks the own number. *)
PrevPage == /\ ~admin /\ meta.prev /\ f.page > 1
            /\ Render([f EXCEPT !.page = @ - 1], configured, FALSE)
            /\ UNCHANGED typed /\ Still
NextPage == /\ ~admin /\ meta.next /\ f.page < Cardinality(rows) + 1
            /\ Render([f EXCEPT !.page = @ + 1], configured, FALSE)
            /\ UNCHANGED typed /\ Still

Star == \E p \in Starrable :
  /\ favs' = IF p \in favs THEN favs \ {p} ELSE favs \cup {p}
  /\ UNCHANGED <<rows, f, typed, configured, admin, cache, flight, dep, list, meta, sweep, url, preset, applied>>

SwitchView == Render(f, configured, ~admin) /\ UNCHANGED typed /\ Still
Reload == Boot(ReadFilterPreset(url, preset), url, preset) /\ UNCHANGED <<rows, favs>>
OpenHome == LET home == [admin |-> FALSE, params |-> Defaults]
            IN Boot(ReadFilterPreset(home, preset), home, preset) /\ UNCHANGED <<rows, favs>>
-----------------------------------------------------------------------------
(* The queries: config, polls, answers, failures.                             *)
ConfigArrives == ~configured /\ Render(f, TRUE, admin) /\ UNCHANGED typed /\ Still

Poll == /\ ~admin /\ Key \notin flight /\ flight' = flight \cup {Key}
        /\ UNCHANGED <<rows, f, typed, configured, favs, admin, cache, dep, list, meta, sweep, url, preset, applied>>

\* Mutant of Arrive: the newest answer is shown, whatever it was asked for.
ArriveShowsAny == \E k \in flight :
  /\ Accepted(k)
  /\ flight' = flight \ {k}
  /\ cache' = [j \in (DOMAIN cache \cap {Key}) \cup {k} |->
                 IF j = k THEN PageOf(rows, k) ELSE cache[j]]
  /\ Sync(DataOf(k, cache', admin))
  /\ UNCHANGED <<rows, f, typed, configured, favs, admin, sweep, url, preset, applied>>

Arrive == \E k \in flight :
  /\ Accepted(k)
  /\ flight' = flight \ {k}
  /\ cache' = [j \in (IF k = Key THEN DOMAIN cache ELSE {Key} \cap DOMAIN cache) \cup {k} |->
                 IF j = k THEN PageOf(rows, k) ELSE cache[j]]
  /\ Sync(DataOf(Key, cache', admin))
  /\ UNCHANGED <<rows, f, typed, configured, favs, admin, sweep, url, preset, applied>>

Lost ==
  /\ Key \in flight /\ flight' = flight \ {Key}
  /\ UNCHANGED <<rows, f, typed, configured, favs, admin, cache, dep, list, meta, sweep, url, preset, applied>>
-----------------------------------------------------------------------------
UpsertProject(l, row) ==
  IF \E i \in DOMAIN l : l[i].id = row.id
    THEN [i \in DOMAIN l |-> IF l[i].id = row.id THEN row ELSE l[i]]
    ELSE <<row>> \o l

Upvote == \E p \in rows :
  LET q == [p EXCEPT !.upvotes = 1 - @]
  IN /\ p.id \in Own
     /\ rows' = (rows \ {p}) \cup {q}
     /\ list' = UpsertProject(list, Hydrate(q))
     /\ UNCHANGED <<f, typed, configured, favs, admin, cache, flight, dep, meta, sweep, url, preset, applied>>

RefreshAll == /\ sweep = NoSweep /\ \A p \in rows : p.seen < MaxSeen
              /\ sweep' = Asked
              /\ UNCHANGED <<rows, f, typed, configured, favs, admin, cache, flight, dep, list, meta, url, preset, applied>>
SweepServed ==
  /\ sweep = Asked
  /\ rows' = {[p EXCEPT !.seen = @ + 1] : p \in rows}
  /\ sweep' = [at |-> "answered",
               rows |-> LET all == Ranked(rows', Query(Defaults, FALSE))
                        IN [i \in DOMAIN all |-> Hydrate(all[i])]]
  /\ UNCHANGED <<f, typed, configured, favs, admin, cache, flight, dep, list, meta, url, preset, applied>>
SweepArrives ==
  /\ sweep.at = "answered"
  /\ list' = sweep.rows /\ sweep' = NoSweep
  /\ flight' = IF admin THEN flight ELSE flight \cup {Key}
  /\ UNCHANGED <<rows, f, typed, configured, favs, admin, cache, dep, meta, url, preset, applied>>

(* What others do on the server.                                              *)
Probe == \E p \in rows :
  /\ p.id \in Unstable /\ p.seen < MaxSeen
  /\ rows' = (rows \ {p}) \cup {[p EXCEPT !.verified = ~@, !.seen = @ + 1]}
  /\ UNCHANGED <<f, typed, configured, favs, admin, cache, flight, dep, list, meta, sweep, url, preset, applied>>
Register ==
  /\ Late \notin rows /\ \A p \in rows : p.id # Late.id
  /\ rows' = rows \cup {Late}
  /\ UNCHANGED <<f, typed, configured, favs, admin, cache, flight, dep, list, meta, sweep, url, preset, applied>>

Click  == clicks < MaxClicks /\ clicks' = clicks + 1
Viewer == Click /\ (
          \/ SelectCategory \/ SelectTag \/ SelectAccessMode \/ SortBy \/ OnlyVerified
          \/ ChooseBounds \/ ChoosePageSize \/ SortRecentClean \/ FundingRange \/ FavouritesOnly \/ Type
          \/ ClearSearch \/ ResetFilters \/ PrevPage \/ NextPage \/ Star \/ SwitchView \/ Reload \/ OpenHome
          \/ Upvote \/ RefreshAll)
World  == SweepServed \/ Probe \/ Register
System == Debounce \/ ConfigArrives \/ Poll \/ Arrive \/ Lost \/ SweepArrives
MarketNext == Viewer \/ ((World \/ System) /\ UNCHANGED clicks)

MarketSpec == MarketInit /\ [][MarketNext]_marketVars
-----------------------------------------------------------------------------
MarketTypeOK ==
  /\ {f, preset} \subseteq Filters /\ url \in [admin : BOOLEAN, params : Filters]
  /\ typed \in Entry /\ {configured, admin, applied} \subseteq BOOLEAN
  /\ favs \subseteq Starrable /\ clicks \in Nat
  /\ \A p \in rows : IsRow(p)
  /\ sweep.at \in {"none", "asked", "answered"}
  /\ \E k \in DOMAIN cache \cup {Key} : DOMAIN cache \subseteq {k, Key}

(* The counters and the pager belong to the newest answer to the query that   *)
(* the controls describe, however late the answers to others arrive.          *)
MetaIsCurrent == (~admin /\ Key \in DOMAIN cache) => meta = cache[Key].meta

(* Turning the pages one by one reads the whole ranking, each match once, and *)
(* what is past the last page is the last page again.                         *)
PagesCoverTheRanking ==
  LET Turn(n) == PageOf(rows, [Key EXCEPT !.page = n])
      last    == Turn(1).meta.pages
      ranking == Ranked(rows, Key)
  IN /\ FlattenSeq([n \in 1..last |-> Turn(n).data]) = [i \in DOMAIN ranking |-> Hydrate(ranking[i])]
     /\ Turn(last + 1) = Turn(last)

(* The address of a screened project shows in no list, finds the project in   *)
(* no search and is on no site map, whose makers all have a profile.          *)
ScreenedStaysHidden ==
  /\ \A m \in Sitemap(rows).makers : MakerProfile(rows, m) # <<>>
  /\ \A p \in {r \in rows : r.access = "screened"} :
      /\ \A i \in DOMAIN list : list[i].id = p.id => list[i].url = Redacted
      /\ p \notin {r \in rows : Matches(r, [Key EXCEPT !.q = p.url])}
      /\ p.id \notin Sitemap(rows).projects
      /\ \A i \in DOMAIN MakerProfile(rows, p.maker) : MakerProfile(rows, p.maker)[i].url # p.url

(* A reload brings back the filters in force, except an impossible funding    *)
(* range, once what an earlier visit left has been applied: a search after    *)
(* the debounce, a category or an access mode after the configuration.  Until *)
(* then the address and the preset are that visit's, or, after a first click, *)
(* already without the category and the access mode that have yet to come.    *)
ReloadRestoresFilters ==
  [][(Reload /\ applied /\ ~RangeError(f))
       => [f' EXCEPT !.q = typed'] = Saved(f, configured)]_marketVars

(* The chips above the list; where there is one, the link can be copied.      *)
ActiveFilters ==
  {d \in DOMAIN f \ {"page", "limit", "min", "max"} :
      Saved(f, configured)[d] # Defaults[d]}
  \cup (IF ~RangeError(f) /\ (f.min > 0 \/ f.max > 0) THEN {"fundingRange"} ELSE {})

(* What the toast of "copy the link" says: the copied link carries the query  *)
(* conditions that are in force.                                              *)
LinkTellsTheQuery ==
  (ActiveFilters # {} /\ typed = f.q) => Query(url.params, configured) = Key
=============================================================================
