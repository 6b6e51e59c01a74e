----------------------------- MODULE MarketData -----------------------------
(***************************************************************************)
(* The ingestion of market prices (src/src/server/market-data.server.ts,   *)
(* src/src/lib/market-data.ts) and the worker it asks for the prices of    *)
(* funds (src/workers/reksadana-nav/src).                                  *)
(*                                                                         *)
(* A sync reads the catalog of instruments, sorts them by the adapter that *)
(* prices them, and for each adapter in turn asks its sources, then stages *)
(* the raw answer and upserts the quotes in one database transaction.      *)
(* Syncs of several users overlap, and a process may stop at any point.    *)
(* Gold asks a chain of sources for a page with the price of the day; the  *)
(* worker asks a site for the series of a fund, and keeps the last answer  *)
(* in a cache for when the site is down.                                   *)
(*                                                                         *)
(* An instrument is its symbol and its currency: the rest of its identity  *)
(* does not tell apart the instruments of these two adapters.              *)
(***************************************************************************)
EXTENDS Integers, FiniteSets, FiniteSetsExt, SequencesExt, Rounding

CONSTANTS
  Syncs,          \* processes that run a sync or a backfill
  Funds,          \* fund codes
  FundCurrency,   \* Funds -> the currency the site quotes it in
  GoldChain,      \* the sources of gold, the closest first
  Configured,     \* adapters whose address is set
  Days,
  Navs,           \* prices a fund may have
  Pages,          \* source of gold -> rows it may publish, <<weight, price>> each
  PriceScale, GramScale, OunceNum, OunceDen,   \* fixed-point scales
  LatestTail,     \* points that the worker sends of a series
  MaxNews,        \* bound on what the sites publish
  MaxCalls,       \* bound on the syncs and backfills
  MaxRegistered   \* bound on the funds registered from the form

ASSUME MarketDataAssumption ==
  /\ Days \subseteq Nat \ {0} /\ IsFiniteSet(Days) /\ Navs \subseteq Nat \ {0}
  /\ DOMAIN FundCurrency = Funds /\ "XAU-BSI" \notin Funds
  /\ GoldChain \in Seq(STRING) /\ GoldChain # <<>> /\ "reksadana_id" \notin Range(GoldChain)
  /\ \A source \in Range(GoldChain) :
       Pages[source] \subseteq Seq((Nat \ {0}) \X (Nat \ {0}))
  /\ PriceScale \in Nat \ {0} /\ GramScale \in Nat \ {0}
  /\ OunceNum \in Nat /\ OunceDen \in Nat \ {0} /\ OunceNum > OunceDen
  /\ LatestTail \in Nat \ {0} /\ MaxNews \in Nat /\ MaxCalls \in Nat /\ MaxRegistered \in Nat

VARIABLES
  page,       \* source of gold -> what it shows now
  nav,        \* Funds -> what the site shows now
  published,  \* every price that was ever shown, <<source, symbol, day, price>>
  cache,      \* Funds -> the points of the last payload that the worker kept
  catalog,    \* instrument -> its provider column
  raws,       \* RawMarketDataFetch, in order
  quotes,     \* MarketQuote
  mark,       \* instrument -> the quote that a refresh last took
  sync,       \* Syncs -> the call it runs
  counts      \* news, calls and registrations so far

marketVars == <<page, nav, published, cache, catalog, raws, quotes, mark, sync, counts>>

-----------------------------------------------------------------------------
(* Instruments and their adapters. *)

Gold == <<"XAU-BSI", "IDR">>
FundIn(f, currency) == <<f, currency>>
Registrable == {FundIn(f, "IDR") : f \in Funds}
Identities == {Gold} \cup Registrable \cup {FundIn(f, FundCurrency[f]) : f \in Funds}

Missing == "missing"     \* no row
Undeclared == "none"     \* a row whose provider is NULL
Present == {id \in Identities : catalog[id] # Missing}

\* resolveProviderId: the column, or what follows from the kind.
Route(id) ==
  CASE catalog[id] = Missing -> Missing
    [] catalog[id] # Undeclared -> catalog[id]
    [] OTHER -> IF id = Gold THEN "logam_mulia" ELSE "yahoo"

\* createDefaultProviderRegistry
Registry == {"logam_mulia", "reksadana_id"}
Routed(adapter) == {id \in Present : Route(id) = adapter}

\* ensureBsiGoldInstrument and ensureReksadanaInstrument: a row that is there
\* stays as it is.
Ensured(cat, id, provider) == IF cat[id] = Missing THEN [cat EXCEPT ![id] = provider] ELSE cat

-----------------------------------------------------------------------------
(* The prices of gold: published for a weight, kept per ounce, read per gram. *)

Weight(row) == row[1]
Price(row) == row[2]
OneGram(row) == Weight(row) = GramScale

\* chooseGoldEntry: the first of a gram, or of the least weight.
ChosenEntry(rows) ==
  LET grams == {n \in DOMAIN rows : OneGram(rows[n])}
      least == {n \in DOMAIN rows : \A m \in DOMAIN rows : Weight(rows[n]) <= Weight(rows[m])}
  IN rows[Min(IF grams # {} THEN grams ELSE least)]

\* perGramBuybackDecimal
PerGram(row) == HalfEven(Price(row) * GramScale * PriceScale, Weight(row))

\* goldPerGramDecimalToPerOunceDecimal, encoded by encodeSpotPrice.
PerOunce(gram) == HalfEven(gram * OunceNum, OunceDen)

\* spotPriceScaledPerGram
FromOunce(ounce) == HalfEven(ounce * OunceDen, OunceNum)

\* parseLogamMuliaGoldResponse of a page that has rows.
Observed(id, day, price) == [id |-> id, day |-> day, price |-> price]
GoldObservation(p) == Observed(Gold, p.day, PerOunce(PerGram(ChosenEntry(p.rows))))
NoPage == [day |-> 0, rows |-> <<>>]

-----------------------------------------------------------------------------
(* The series of funds: sets of points, one for a day. *)

Point(day, price) == [day |-> day, price |-> price]
SeriesOf(f) == {Point(d, nav[f][d]) : d \in {d \in Days : nav[f][d] # 0}}
Newer(points, p) == {q \in points : q.day > p.day}

\* buildPayload: the whole series, or its tail; the latest point is in both.
Payload(points, mode) ==
  IF mode = "history" THEN points
  ELSE {p \in points : Cardinality(Newer(points, p)) < LatestTail}

\* parseReksadanaNavResponse
FundObservations(f, points) ==
  {Observed(FundIn(f, FundCurrency[f]), p.day, p.price) : p \in points}

-----------------------------------------------------------------------------
(* What the sites publish, outside of the program. *)

Count(what) == [counts EXCEPT ![what] = @ + 1]

PublishGold(source) ==
  /\ counts.news < MaxNews
  /\ \E d \in Days, rows \in Pages[source] :
       /\ page' = [page EXCEPT ![source] = [day |-> d, rows |-> rows]]
       /\ published' = published \cup
            IF rows = <<>> THEN {} ELSE {<<source, Gold[1], d, PerGram(ChosenEntry(rows))>>}
  /\ counts' = Count("news")
  /\ UNCHANGED <<nav, cache, catalog, raws, quotes, mark, sync>>

PublishNav(f) ==
  /\ counts.news < MaxNews
  /\ \E d \in Days, p \in Navs :
       /\ nav' = [nav EXCEPT ![f][d] = p]
       /\ published' = published \cup {<<"reksadana_id", f, d, p>>}
  /\ counts' = Count("news")
  /\ UNCHANGED <<page, cache, catalog, raws, quotes, mark, sync>>

-----------------------------------------------------------------------------
(* A sync, step by step. *)

\* groups: adapters still to ask.  funds: those routed to the worker.  at: place
\* in the chain.  known: instruments loaded that an adapter prices.  down: those
\* whose source gave no answer, or whose quotes were not stored.
Idle ==
  [pc |-> "idle", mode |-> "latest", groups |-> {}, funds |-> {}, queue |-> {}, at |-> 1,
   reply |-> {}, live |-> FALSE, asked |-> "none", got |-> {}, ok |-> FALSE, source |-> "none",
   known |-> {}, down |-> {}]

Calling == counts.calls < MaxCalls /\ counts' = Count("calls")
Step(s, call) == sync' = [sync EXCEPT ![s] = call]

\* syncMarketPricesOnce makes sure of gold before it loads the catalog.
Start(s) ==
  /\ sync[s].pc = "idle"
  /\ Calling
  /\ catalog' = Ensured(catalog, Gold, Undeclared)
  /\ Step(s, [Idle EXCEPT !.pc = "load"])
  /\ UNCHANGED <<page, nav, published, cache, raws, quotes, mark>>

\* ingestAllInstrumentsOnce: what routes nowhere, or to no adapter, is skipped.
Load(s) ==
  /\ sync[s].pc = "load"
  /\ Step(s, [Idle EXCEPT !.pc = "next",
       !.groups = {Route(id) : id \in Present} \cap Registry,
       !.funds = {id[1] : id \in Routed("reksadana_id")},
       !.known = UNION {Routed(a) : a \in Registry}])
  /\ UNCHANGED <<page, nav, published, cache, catalog, raws, quotes, mark, counts>>

\* ingestReksadanaPricesOnce
Backfill(s, f) ==
  /\ sync[s].pc = "idle"
  /\ Calling
  /\ Step(s, [Idle EXCEPT !.pc = "next", !.mode = "history", !.groups = {"reksadana_id"},
                          !.funds = {f}])
  /\ UNCHANGED <<page, nav, published, cache, catalog, raws, quotes, mark>>

KnownTo(call, adapter) ==
  {id \in call.known : (id = Gold) = (adapter = "logam_mulia")}

\* Faulty variant: the first group that fails ends the sync.
GroupsAfterFirst(call) == {}

\* What is left to ask after a group failed.
GroupsAfter(call) == call.groups

\* The group of an adapter failed, whatever it was that threw.
Failed(call, adapter) ==
  [call EXCEPT !.pc = "next", !.groups = GroupsAfter(call),
               !.down = @ \cup KnownTo(call, adapter)]

\* requireLogamMuliaApiUrl and requireReksadanaApiUrl
Addressed(adapter) == adapter \in Configured

\* The providers: gold asks its chain from the first, the others fund by fund.
Asking(call, adapter) ==
  IF adapter = "logam_mulia" THEN [call EXCEPT !.pc = "gold", !.at = 1]
  ELSE [call EXCEPT !.pc = "funds", !.queue = call.funds, !.source = "reksadana_id"]

\* The groups come in the order of the catalog, which is none.
OpenGroup(s) ==
  /\ sync[s].pc = "next"
  /\ \E a \in sync[s].groups :
       LET call == [sync[s] EXCEPT !.groups = @ \ {a}, !.got = {}, !.ok = FALSE]
       IN Step(s, IF Addressed(a) THEN Asking(call, a) ELSE Failed(call, a))
  /\ UNCHANGED <<page, nav, published, cache, catalog, raws, quotes, mark, counts>>

-----------------------------------------------------------------------------
(* Asking. *)

\* Faulty variant: the name is that of the first source, whoever answered.
SourceNamePrimary(n) == GoldChain[1]

\* The name of the provider, once source n of the chain has answered.
SourceName(n) == GoldChain[n]

\* fetchGold: the first source that answers with a usable page.
AskGold(s) ==
  /\ sync[s].pc = "gold"
  /\ LET n == sync[s].at
         p == page[GoldChain[n]]
         next == IF n < Len(GoldChain) THEN [sync[s] EXCEPT !.at = n + 1]
                 ELSE [sync[s] EXCEPT !.pc = "write", !.source = GoldChain[1],
                                      !.down = @ \cup {Gold}]
     IN \/ Step(s, next)
        \/ /\ p.rows # <<>>
           /\ Step(s, [sync[s] EXCEPT !.pc = "write", !.source = SourceName(n),
                                      !.got = {GoldObservation(p)}, !.ok = TRUE])
  /\ UNCHANGED <<page, nav, published, cache, catalog, raws, quotes, mark, counts>>

\* What a call does once fund f has been dealt with.
After(call) == [call EXCEPT !.pc = IF call.queue = {} THEN "write" ELSE "funds"]
Unanswered(call, f) == After([call EXCEPT !.down = @ \cup {FundIn(f, "IDR")}])

\* resolveSeries: the site, in JSON or scraped, and the cache when neither answers.
Resolved(f, up) == IF up /\ SeriesOf(f) # {} THEN SeriesOf(f) ELSE cache[f]

\* fetchOneFund, up to the reply that handleNav of the worker has made.
AskFund(s) ==
  /\ sync[s].pc = "funds"
  /\ \E f \in sync[s].queue :
       LET call == [sync[s] EXCEPT !.queue = @ \ {f}] IN
       \/ Step(s, Unanswered(call, f))
       \/ \E up \in BOOLEAN :
            /\ Resolved(f, up) # {}
            /\ Step(s, [call EXCEPT !.pc = "reply", !.asked = f,
                                    !.reply = Payload(Resolved(f, up), call.mode),
                                    !.live = up /\ SeriesOf(f) # {}])
  /\ UNCHANGED <<page, nav, published, cache, catalog, raws, quotes, mark, counts>>

\* writeStaleCache, which may fail, and the reply, which may be lost.
Reply(s) ==
  /\ sync[s].pc = "reply"
  /\ LET f == sync[s].asked
         call == [sync[s] EXCEPT !.reply = {}, !.live = FALSE, !.asked = "none"]
     IN /\ \/ cache' = cache
           \/ sync[s].live /\ cache' = [cache EXCEPT ![f] = sync[s].reply]
        /\ \/ Step(s, Unanswered(call, f))
           \/ Step(s, After([call EXCEPT !.ok = TRUE,
                                         !.got = @ \cup FundObservations(f, sync[s].reply)]))
  /\ UNCHANGED <<page, nav, published, catalog, raws, quotes, mark, counts>>

-----------------------------------------------------------------------------
(* Storing (ingestMarketDataOnce). *)

KeyOf(q) == <<q.id, q.day, q.source>>
QuoteOf(o, source, raw) ==
  [id |-> o.id, day |-> o.day, price |-> o.price, source |-> source, raw |-> raw]
Upserted(qs, new) == {q \in qs : \A n \in new : KeyOf(n) # KeyOf(q)} \cup new

AdapterOf(source) == IF source = "reksadana_id" THEN source ELSE "logam_mulia"

\* The raw fetch first, then the quotes; resolveInstrumentId makes the instruments
\* that are not there.  The database may refuse: a loser of the race to make one
\* is thrown out of its transaction.
Store(s) ==
  /\ sync[s].pc = "write"
  /\ LET call == sync[s]
         raw == Len(raws) + 1
         new == {QuoteOf(o, call.source, raw) : o \in call.got}
     IN \/ /\ raws' = Append(raws, [source |-> call.source, ok |-> call.ok, got |-> call.got])
           /\ quotes' = Upserted(quotes, new)
           /\ catalog' = [id \in Identities |->
                IF \E n \in new : n.id = id THEN Ensured(catalog, id, Undeclared)[id]
                ELSE catalog[id]]
           /\ Step(s, [call EXCEPT !.pc = "next", !.got = {}])
        \/ /\ Step(s, Failed([call EXCEPT !.got = {}], AdapterOf(call.source)))
           /\ UNCHANGED <<raws, quotes, catalog>>
  /\ UNCHANGED <<page, nav, published, cache, mark, counts>>

\* The summary is returned; nothing is ever thrown.
Finish(s) ==
  /\ sync[s].pc = "next" /\ sync[s].groups = {}
  /\ Step(s, Idle)
  /\ UNCHANGED <<page, nav, published, cache, catalog, raws, quotes, mark, counts>>

\* The process of the call stops.
Stop(s) ==
  /\ sync[s].pc # "idle"
  /\ Step(s, Idle)
  /\ UNCHANGED <<page, nav, published, cache, catalog, raws, quotes, mark, counts>>

-----------------------------------------------------------------------------
(* The rest of the program. *)

\* ensureReksadanaInstrumentForFamily
Register(f) ==
  /\ counts.registered < MaxRegistered
  /\ catalog' = Ensured(catalog, FundIn(f, "IDR"), "reksadana_id")
  /\ counts' = Count("registered")
  /\ UNCHANGED <<page, nav, published, cache, raws, quotes, mark, sync>>

\* listMarketInstrumentsForFamily makes sure of gold, so that it can be linked.
Browse ==
  /\ catalog' = Ensured(catalog, Gold, Undeclared)
  /\ UNCHANGED <<page, nav, published, cache, raws, quotes, mark, sync, counts>>

\* Faulty variant: the quote that was ingested last.
NewestIngested(qs) == {q \in qs : \A p \in qs : p.raw <= q.raw}

\* loadLatestPrice: the latest by date, any of them when several sources have one.
Newest(qs) == {q \in qs : \A p \in qs : p.day <= q.day}

\* refreshHoldingPricesForFamily, for the positions linked to one instrument.
TakePrice(id) ==
  /\ \E q \in Newest({q \in quotes : q.id = id}) : mark' = [mark EXCEPT ![id] = q]
  /\ UNCHANGED <<page, nav, published, cache, catalog, raws, quotes, sync, counts>>

NoCounts == [news |-> 0, calls |-> 0, registered |-> 0]
Unmarked(id) == [id |-> id, day |-> 0, price |-> 0, source |-> "none", raw |-> 0]

MarketInit ==
  /\ page = [source \in Range(GoldChain) |-> NoPage]
  /\ nav = [f \in Funds |-> [d \in Days |-> 0]]
  /\ published = {}
  /\ cache = [f \in Funds |-> {}]
  /\ catalog = [id \in Identities |-> Missing]
  /\ raws = <<>>
  /\ quotes = {}
  /\ mark = [id \in Identities |-> Unmarked(id)]
  /\ sync = [s \in Syncs |-> Idle]
  /\ counts = NoCounts

MarketNext ==
  \/ \E source \in Range(GoldChain) : PublishGold(source)
  \/ \E f \in Funds : PublishNav(f) \/ Register(f)
  \/ \E s \in Syncs :
       \/ Start(s) \/ Load(s) \/ OpenGroup(s) \/ AskGold(s) \/ AskFund(s) \/ Reply(s)
       \/ Store(s) \/ Finish(s) \/ Stop(s)
       \/ \E f \in Funds : Backfill(s, f)
  \/ Browse \/ \E id \in Identities : TakePrice(id)

MarketSpec == MarketInit /\ [][MarketNext]_marketVars

-----------------------------------------------------------------------------
(* Properties. *)

\* Every variable has its type.
MarketTypeOK ==
  /\ published \subseteq (Range(GoldChain) \cup {"reksadana_id"}) \X (Funds \cup {Gold[1]}) \X Days \X Nat
  /\ catalog \in [Identities -> {Missing, Undeclared} \cup Registry]
  /\ \A q \in quotes : q.id \in Identities /\ q.day \in Days /\ q.price \in Nat \ {0}
  /\ DOMAIN sync = Syncs

\* The price per unit that a quote stands for.
UnitPrice(q) == IF q.id = Gold THEN FromOunce(q.price) ELSE q.price

\* Whatever fell back on another source or on the cache, arrived late or was
\* overwritten, a quote says what its source has shown for its day, to the last
\* digit once it is read per gram, and the raw fetch it names is the one it came
\* from (ingestMarketDataOnce, LogamMuliaGoldProvider, handleNav of the worker).
EveryQuoteWasPublished ==
  \A q \in quotes :
    /\ <<q.source, q.id[1], q.day, UnitPrice(q)>> \in published
    /\ raws[q.raw].ok /\ raws[q.raw].source = q.source
    /\ Observed(q.id, q.day, q.price) \in raws[q.raw].got

\* Quotes are true, and an outage costs no other instrument its own: a sync that
\* ends has a quote for every instrument that an adapter prices and whose source
\* answered, whichever of the other groups failed and however other syncs
\* overlapped, except for a fund that the site quotes in another currency than
\* its instrument (the loop over the groups of ingestAllInstrumentsOnce).
QuotesTellTheMarket ==
  [][/\ EveryQuoteWasPublished'
     /\ \A s \in Syncs :
          sync[s].pc = "next" /\ sync[s].groups = {} /\ sync'[s].pc = "idle" =>
            \A id \in sync[s].known \ sync[s].down :
              \/ \E q \in quotes : q.id = id
              \/ id # Gold /\ FundCurrency[id[1]] # "IDR"]_marketVars

\* A refresh never takes a price that is older than the one it took before, although
\* the cache of the worker and a late answer bring old prices back
\* (loadLatestPrice of refreshHoldingPricesForFamily).
MarksMoveForward ==
  [][\A id \in Identities : mark'[id].day >= mark[id].day]_marketVars

=============================================================================
