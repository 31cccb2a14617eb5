------------------------------- MODULE Tokens -------------------------------
(***************************************************************************)
(* TokenService.ts with TokenController.ts: prices from CoinGecko behind a *)
(* circuit and a cache, balances and custom tokens from the RPC node       *)
(* behind another circuit, for concurrent requests.  A price is the time   *)
(* at which it was the market's.                                           *)
(***************************************************************************)
EXTENDS Circuit, FiniteSets

CONSTANTS
    Ask,
    Token,              \* known tokens other than XLM
    TTL,                \* 5 minutes
    Patience,           \* the longest a price is waited for, retries included
    Idle, NoPrice,
    MaxTime, MaxFound

VARIABLES
    now,
    priceCircuit, rpcCircuit,
    priceCache,         \* symbols to [data, timestamp]
    asks,               \* requests under way
    served              \* history: age and kind of the last price given out

tokenVars == <<now, priceCircuit, rpcCircuit, priceCache, asks, served>>

Keys == (SUBSET Token) \ {{}}

Init ==
    /\ now = 0
    /\ priceCircuit = NewCircuit /\ rpcCircuit = NewCircuit
    /\ priceCache = [k \in Keys |-> NoPrice]
    /\ asks = [a \in Ask |-> Idle]
    /\ served = NoPrice

Goes(a, rec) == asks' = [asks EXCEPT ![a] = rec]
Ends(a) == Goes(a, Idle)
At(a, step) == asks[a] # Idle /\ asks[a].step = step
Serve(a, price, fresh) ==
    /\ Ends(a)
    /\ served' = IF price = NoPrice THEN NoPrice
                 ELSE [age |-> now - price.data, fresh |-> fresh]

-----------------------------------------------------------------------------
Fresh(k) == priceCache[k] # NoPrice /\ now - priceCache[k].timestamp < TTL

(* getTokenPrices, for a request or for the value of a portfolio: the cache,*)
(* else the circuit, else the cache again, however old.                     *)
GetTokenPrices(a, k) ==
    IF Fresh(k)
      THEN Serve(a, priceCache[k], TRUE) /\ UNCHANGED priceCircuit
      ELSE IF Refuses(priceCircuit, now)
        THEN Serve(a, priceCache[k], FALSE) /\ priceCircuit' = Cleaned(priceCircuit, now)
        ELSE /\ Goes(a, [step |-> "price", key |-> k, from |-> now])
             /\ priceCircuit' = Admitted(priceCircuit, now)
             /\ UNCHANGED served

AskPrices(a, k) ==
    /\ asks[a] = Idle
    /\ GetTokenPrices(a, k)
    /\ UNCHANGED <<now, rpcCircuit, priceCache>>

(* The answer: the market's price at some time since it was asked.          *)
PriceAnswer(a, t) ==
    /\ At(a, "price")
    /\ t \in asks[a].from..now
    /\ priceCircuit' = Succeeded(priceCircuit)
    /\ priceCache' = [priceCache EXCEPT ![asks[a].key] = [data |-> t, timestamp |-> now]]
    /\ Serve(a, priceCache'[asks[a].key], TRUE)
    /\ UNCHANGED <<now, rpcCircuit>>

MutRecache(a) ==
    /\ At(a, "price")
    /\ priceCircuit' = Failed(priceCircuit, now)
    /\ priceCache' = [priceCache EXCEPT ![asks[a].key] =
                         IF @ = NoPrice THEN @ ELSE [@ EXCEPT !.timestamp = now]]
    /\ Serve(a, priceCache[asks[a].key], FALSE)
    /\ UNCHANGED <<now, rpcCircuit>>
PriceError(a) ==
    /\ At(a, "price")
    /\ priceCircuit' = Failed(priceCircuit, now)
    /\ Serve(a, priceCache[asks[a].key], FALSE)
    /\ UNCHANGED <<now, rpcCircuit, priceCache>>

-----------------------------------------------------------------------------
(* getTokenBalances: the native token, of which parseAccountEntry never     *)
(* reports any, then the other known ones, one after the other.  A call     *)
(* that fails or is refused counts as a balance of nothing.                 *)
Native == "XLM"
GetTokenBalances(a, valued) ==
    /\ asks[a] = Idle
    /\ Goes(a, [step |-> "balances", left |-> Token \cup {Native}, held |-> {}, valued |-> valued])
    /\ UNCHANGED <<now, priceCircuit, rpcCircuit, priceCache, served>>

Next1(left) == IF Native \in left THEN Native ELSE CHOOSE t \in left : TRUE
GetTokenBalanceForContract(a) ==
    /\ At(a, "balances") /\ asks[a].left # {}
    /\ IF Refuses(rpcCircuit, now)
         THEN /\ rpcCircuit' = Cleaned(rpcCircuit, now)
              /\ asks' = [asks EXCEPT ![a].left = @ \ {Next1(@)}]
         ELSE /\ rpcCircuit' = Admitted(rpcCircuit, now)
              /\ asks' = [asks EXCEPT ![a].step = "balance"]
    /\ UNCHANGED <<now, priceCircuit, priceCache, served>>

BalanceAnswer(a, ok, some) ==
    /\ At(a, "balance")
    /\ rpcCircuit' = IF ok THEN Succeeded(rpcCircuit) ELSE Failed(rpcCircuit, now)
    /\ LET t == Next1(asks[a].left)
       IN  asks' = [asks EXCEPT ![a].step = "balances", ![a].left = @ \ {t},
                                ![a].held = IF ok /\ some /\ t # Native THEN @ \cup {t} ELSE @]
    /\ UNCHANGED <<now, priceCircuit, priceCache, served>>

(* The balances are answered, or valued: calculatePortfolioValue asks the   *)
(* prices of what is held, and nothing when nothing is.                     *)
CalculatePortfolioValue(a) ==
    /\ At(a, "balances") /\ asks[a].left = {}
    /\ IF asks[a].valued /\ asks[a].held # {}
         THEN GetTokenPrices(a, asks[a].held)
         ELSE Ends(a) /\ UNCHANGED <<priceCircuit, served>>
    /\ UNCHANGED <<now, rpcCircuit, priceCache>>

(* discoverCustomTokens: getEvents is called outside the circuit; each      *)
(* contract it names is then asked through it (fetchTokenInfo).             *)
DiscoverCustomTokens(a, n) ==
    /\ asks[a] = Idle
    /\ Goes(a, IF n = 0 THEN Idle ELSE [step |-> "infos", left |-> n])
    /\ UNCHANGED <<now, priceCircuit, rpcCircuit, priceCache, served>>

Less(rec) == IF rec.left = 1 THEN Idle ELSE [step |-> "infos", left |-> rec.left - 1]
FetchTokenInfo(a) ==
    /\ At(a, "infos")
    /\ IF Refuses(rpcCircuit, now)
         THEN rpcCircuit' = Cleaned(rpcCircuit, now) /\ Goes(a, Less(asks[a]))
         ELSE rpcCircuit' = Admitted(rpcCircuit, now) /\ Goes(a, [asks[a] EXCEPT !.step = "info"])
    /\ UNCHANGED <<now, priceCircuit, priceCache, served>>

TokenInfo(a, ok) ==
    /\ At(a, "info")
    /\ rpcCircuit' = IF ok THEN Succeeded(rpcCircuit) ELSE Failed(rpcCircuit, now)
    /\ Goes(a, Less(asks[a]))
    /\ UNCHANGED <<now, priceCircuit, priceCache, served>>

(* Time passes; no price is waited for longer than the timeouts allow.      *)
Tick ==
    /\ now < MaxTime
    /\ \A a \in Ask : At(a, "price") => now - asks[a].from < Patience
    /\ now' = now + 1
    /\ UNCHANGED <<priceCircuit, rpcCircuit, priceCache, asks, served>>

Next ==
    \/ \E a \in Ask :
          \/ \E k \in Keys : AskPrices(a, k)
          \/ \E t \in 0..now : PriceAnswer(a, t)
          \/ PriceError(a)
          \/ \E valued \in BOOLEAN : GetTokenBalances(a, valued)
          \/ GetTokenBalanceForContract(a) \/ CalculatePortfolioValue(a)
          \/ \E ok, some \in BOOLEAN : BalanceAnswer(a, ok, some)
          \/ \E n \in 0..MaxFound : DiscoverCustomTokens(a, n)
          \/ FetchTokenInfo(a) \/ \E ok \in BOOLEAN : TokenInfo(a, ok)
    \/ Tick

Spec == Init /\ [][Next]_tokenVars

-----------------------------------------------------------------------------
(* However late the answers come and in whatever order, a price given out   *)
(* as fresh was the market's within the life of a cache entry and the time  *)
(* one answer may take.                                                     *)
FreshPricesAreRecent ==
    served # NoPrice /\ served.fresh => served.age < TTL + Patience
=============================================================================
