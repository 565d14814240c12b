--------------------------- MODULE HoldingQuotes ---------------------------
(***************************************************************************)
(* What a user's holdings are worth: GET /investment-holdings/valuation    *)
(* (core/views/investment_holdings.py) with the quotes of                  *)
(* services/market_data.py.                                                *)
(*                                                                         *)
(* The provider's answer for a set of instruments is kept in Redis as it   *)
(* came, and looked through anew whenever it is used.  Requests overlap,   *)
(* answers take a while, administrators change the terms (currency, unit,  *)
(* type of price) an instrument is to be quoted in, and the market goes    *)
(* on.  The provider has terms of its own: instruments either fit them or  *)
(* cannot be priced.  A quote is how long ago it was observed; its price   *)
(* and the money computed from it are left out.                            *)
(***************************************************************************)
EXTENDS Naturals

CONSTANTS
  Papers,        \* instruments
  QuoteThreads,  \* requests under way at once
  MaxAge,        \* max_quote_age_seconds
  Ttl,           \* MARKET_DATA_CACHE_TTL_SECONDS
  Patience,      \* MARKET_DATA_TIMEOUT_SECONDS
  Horizon        \* bound: how long ago is told apart

ASSUME QuotesAssumption ==
  /\ MaxAge \in Nat \ {0} /\ Ttl \in Nat \ {0} /\ Patience \in Nat
  /\ Horizon \in Nat /\ Horizon > Ttl + Patience /\ Horizon > MaxAge

VARIABLES
  market,       \* the provider's newest quote of each instrument
  fitting,      \* the instruments that the catalogue has in the provider's terms
  held,         \* the instruments the user holds
  quoteCache,   \* Redis: the provider's answer for each set of instruments, and its
                \* time to live
  quoteReq,     \* what each request has read so far
  page          \* the valuation that was answered last

quotesVars == <<market, fitting, held, quoteCache, quoteReq, page>>

Ages     == 0..Horizon
NoQuote == Horizon + 1
Quotes  == [Papers -> Ages \cup {NoQuote}]
NoQuotes == [p \in Papers |-> NoQuote]

NoEntry    == [answer |-> NoQuotes, left |-> 0]
NoRequest  == [at |-> "idle"]
Inquiry    == [at : {"read", "asked"}, of : SUBSET Papers, fit : SUBSET Papers,
               since : 0..Patience]
WithAnswer == [at : {"answered"}, of : SUBSET Papers, fit : SUBSET Papers,
               since : 0..Patience, answer : Quotes]
\* What a page says of an instrument, whether the instrument was in the provider's
\* terms, and for how long a newer quote than the one shown had been there.
Row     == [status : {"not held", "unavailable", "current", "needs_refresh"},
            fit : BOOLEAN, behind : Ages]
NotHeld == [status |-> "not held", fit |-> FALSE, behind |-> 0]

QuotesTypeOK ==
  /\ market \in Quotes
  /\ fitting \subseteq Papers /\ held \subseteq Papers
  /\ quoteCache \in [SUBSET Papers -> [answer : Quotes, left : 0..Ttl]]
  /\ quoteReq \in [QuoteThreads -> {NoRequest} \cup Inquiry \cup WithAnswer]
  /\ page \in [Papers -> Row]

QuotesInit ==
  /\ market = NoQuotes
  /\ fitting = Papers /\ held = {}
  /\ quoteCache = [papers \in SUBSET Papers |-> NoEntry]
  /\ quoteReq = [r \in QuoteThreads |-> NoRequest]
  /\ page = [p \in Papers |-> NotHeld]

(***************************************************************************)
(* The market, the catalogue and the user                                  *)
(***************************************************************************)

Older(ago)  == IF ago \in {Horizon, NoQuote} THEN ago ELSE ago + 1
AllOlder(quotes) == [p \in Papers |-> Older(quotes[p])]

\* A moment passes.  No request to the provider outlives its timeout.
TimePasses ==
  /\ \A r \in QuoteThreads : quoteReq[r] # NoRequest => quoteReq[r].since < Patience
  /\ market' = AllOlder(market)
  /\ quoteCache' = [papers \in SUBSET Papers |->
       LET entry == quoteCache[papers]
       IN  IF entry.left <= 1 THEN NoEntry
           ELSE [answer |-> AllOlder(entry.answer), left |-> entry.left - 1]]
  /\ quoteReq' = [r \in QuoteThreads |->
       LET req == quoteReq[r]
       IN  IF req = NoRequest THEN req
           ELSE IF req.at # "answered" THEN [req EXCEPT !.since = @ + 1]
           ELSE [req EXCEPT !.since = @ + 1, !.answer = AllOlder(@)]]
  /\ UNCHANGED <<fitting, held, page>>

MarketMoves(p) ==
  /\ market' = [market EXCEPT ![p] = 0]
  /\ UNCHANGED <<fitting, held, quoteCache, quoteReq, page>>

\* PATCH /admin/investment-instruments/{id}: to other terms, or back.
Recurate(p) ==
  /\ fitting' = IF p \in fitting THEN fitting \ {p} ELSE fitting \cup {p}
  /\ UNCHANGED <<market, held, quoteCache, quoteReq, page>>

HoldOrSell(p) ==
  /\ held' = IF p \in held THEN held \ {p} ELSE held \cup {p}
  /\ UNCHANGED <<market, fitting, quoteCache, quoteReq, page>>

(***************************************************************************)
(* GET /investment-holdings/valuation                                      *)
(***************************************************************************)

Answered(r, request) == quoteReq' = [quoteReq EXCEPT ![r] = request]

\* _validate_quotes: only what is quoted in the terms of the instrument, as read.
Validated(answer, r) ==
  [p \in Papers |-> IF p \in quoteReq[r].of \cap quoteReq[r].fit THEN answer[p] ELSE NoQuote]

\* quote_status
StatusOf(quote) ==
  IF quote = NoQuote THEN "unavailable"
  ELSE IF quote <= MaxAge THEN "current" ELSE "needs_refresh"

Shows(r, quotes) ==
  /\ page' = [p \in Papers |->
                IF p \notin quoteReq[r].of THEN NotHeld
                ELSE [status |-> StatusOf(quotes[p]), fit |-> p \in quoteReq[r].fit,
                      behind |-> IF quotes[p] \in {NoQuote, market[p]} THEN 0
                                 ELSE market[p]]]
  /\ Answered(r, NoRequest)

\* The holdings with their instruments.
ReadHoldings(r) ==
  /\ quoteReq[r] = NoRequest
  /\ Answered(r, [at |-> "read", of |-> held, fit |-> fitting, since |-> 0])
  /\ UNCHANGED <<market, fitting, held, quoteCache, page>>

CacheLive(papers) == quoteCache[papers].left > 0

FromCache(r) ==
  /\ quoteReq[r].at = "read" /\ CacheLive(quoteReq[r].of)
  /\ Shows(r, Validated(quoteCache[quoteReq[r].of].answer, r))
  /\ UNCHANGED <<market, fitting, held, quoteCache>>

\* Nothing is asked for no holdings.
NothingHeld(r) ==
  /\ quoteReq[r].at = "read" /\ quoteReq[r].of = {}
  /\ Shows(r, NoQuotes)
  /\ UNCHANGED <<market, fitting, held, quoteCache>>

AskProvider(r) ==
  /\ quoteReq[r].at = "read" /\ quoteReq[r].of # {} /\ ~CacheLive(quoteReq[r].of)
  /\ Answered(r, [quoteReq[r] EXCEPT !.at = "asked", !.since = 0])
  /\ UNCHANGED <<market, fitting, held, quoteCache, page>>

\* The provider answers with its newest quotes, of some or all that were asked for.
ProviderAnswers(r, known) ==
  /\ quoteReq[r].at = "asked" /\ known \subseteq quoteReq[r].of
  /\ LET answer == [p \in Papers |-> IF p \in known THEN market[p] ELSE NoQuote]
     IN  Answered(r, [at |-> "answered", of |-> quoteReq[r].of, fit |-> quoteReq[r].fit,
                      since |-> quoteReq[r].since, answer |-> answer])
  /\ UNCHANGED <<market, fitting, held, quoteCache, page>>

\* A timeout, an error or an answer that is none: MarketDataUnavailable, not cached.
ProviderFails(r) ==
  /\ quoteReq[r].at = "asked"
  /\ Shows(r, NoQuotes)
  /\ UNCHANGED <<market, fitting, held, quoteCache>>

CacheAndShow(r) ==
  /\ quoteReq[r].at = "answered"
  /\ quoteCache' = [quoteCache EXCEPT ![quoteReq[r].of] =
                      [answer |-> quoteReq[r].answer, left |-> Ttl]]
  /\ Shows(r, Validated(quoteReq[r].answer, r))
  /\ UNCHANGED <<market, fitting, held>>

QuotesNext ==
  \/ TimePasses
  \/ \E p \in Papers : MarketMoves(p) \/ Recurate(p) \/ HoldOrSell(p)
  \/ \E r \in QuoteThreads :
       \/ ReadHoldings(r) \/ FromCache(r) \/ NothingHeld(r) \/ AskProvider(r)
       \/ \E known \in SUBSET Papers : ProviderAnswers(r, known)
       \/ ProviderFails(r) \/ CacheAndShow(r)

QuotesSpec == QuotesInit /\ [][QuotesNext]_quotesVars

(***************************************************************************)
(* Properties                                                              *)
(***************************************************************************)

Priced(p)  == page[p].status \in {"current", "needs_refresh"}
IsComplete == \A p \in Papers : page[p].status # "unavailable"

\* A price is shown only of an instrument that was in the provider's terms when the
\* holdings were read, though the answer may have been cached before an
\* administrator changed them, and a total is of such prices only.  A quote is
\* behind the market by no more than the life of a cached answer and the patience
\* with the provider, however requests overlap and late answers replace newer
\* ones: what is called current never misses a quote for longer than that.
QuotesAsObserved ==
  /\ \A p \in Papers : Priced(p) => page[p].fit /\ page[p].behind < Ttl + Patience
  /\ IsComplete => \A p \in Papers : page[p].status = "not held" \/ page[p].fit
=============================================================================
