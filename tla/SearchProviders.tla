----------------------------- MODULE SearchProviders -----------------------------
(***************************************************************************)
(* The providers behind the analysis Graph: the readiness probe that picks *)
(* the search provider of a process (providers/capability_probe.py,        *)
(* graph/runtime.py), the budgets of a search and of an OKX snapshot       *)
(* (providers/retry_policy.py), what a reply counts as                     *)
(* (providers/search.py, okx.py, web_market.py), and the two fallbacks     *)
(* (agents/research.py, collect_market_snapshot).                          *)
(* Time is in quarters of a second since the current budget began.  A      *)
(* timeout that a provider's client is given is taken as honoured.         *)
(***************************************************************************)
EXTENDS Integers, FiniteSets, Sequences

CONSTANTS
    Starters,       \* threads that ask for the runtime at start-up
    RetryAfters,    \* what a provider answers in retry-after
    Endpoints,      \* the OKX endpoints of a snapshot, in order (seven in the code)
    WebFields       \* optional values a web snapshot may cite

\* a delay is never negative: max(0.0, retry_after_seconds)
ASSUME ProvidersAssumption == RetryAfters \subseteq Nat

VARIABLES
    settings,   \* search_provider, whether there is a Tavily key, the environment
    starters,   \* each thread's own runtime until it is cached
    runtime,    \* the cached runtime of the process
    call        \* the provider call of a Graph node

providerVars == <<settings, starters, runtime, call>>

Providers == {"builtin", "tavily", "ddgs"}
NoRuntime == [provider |-> "none", fallback |-> FALSE]
NotReady == [provider |-> "none", connected |-> FALSE]
NoCall == [stage |-> "idle"]

\* Settings refuses Tavily without a key, and DDGS where a probe is required
ProvidersInit ==
    /\ settings \in [requested : Providers, key : BOOLEAN, strict : BOOLEAN]
    /\ settings.requested = "tavily" => settings.key
    /\ settings.strict => settings.requested # "ddgs"
    /\ starters = [s \in Starters |-> NoRuntime]
    /\ runtime = NoRuntime
    /\ call = NoCall

-----------------------------------------------------------------------------
(* Readiness.  What a probe finds: every required model capability, a       *)
(* built-in search with a citation, and which search services answer.       *)

Findings == [capable : BOOLEAN, cited : BOOLEAN, tavily : BOOLEAN, ddgs : BOOLEAN]

\* select_search_provider
SelectSearchProvider(f, connected) ==
    IF settings.requested = "tavily" THEN (IF connected THEN "tavily" ELSE "none")
    ELSE IF f.cited THEN "builtin" ELSE "none"

\* establish_search_readiness: a failed probe of the requested provider is an
\* error, a failed probe of a possible fallback is not
EstablishSearchReadiness(f) ==
    LET connected == /\ settings.key /\ f.tavily
                     /\ settings.requested = "tavily" \/ (settings.requested = "builtin" /\ f.cited)
        selected  == IF settings.requested = "ddgs"
                     THEN (IF f.ddgs THEN "ddgs" ELSE "none")
                     ELSE SelectSearchProvider(f, connected)
    IN  IF ~f.capable \/ selected = "none" THEN NotReady
        ELSE [provider |-> selected, connected |-> connected]

\* _assemble_runtime: the fallback is ready only if this probe reached Tavily
Assemble(readiness) ==
    [provider |-> readiness.provider,
     fallback |-> readiness.provider = "builtin" /\ readiness.connected]

\* get_default_runtime up to _cache_runtime; outside the strict environments
\* nothing is probed
BuildRuntime(s) ==
    /\ starters[s] = NoRuntime /\ runtime = NoRuntime
    /\ \/ /\ settings.strict
          /\ \E f \in Findings :
                /\ EstablishSearchReadiness(f) # NotReady
                /\ starters' = [starters EXCEPT ![s] = Assemble(EstablishSearchReadiness(f))]
       \/ /\ ~settings.strict
          /\ starters' = [starters EXCEPT ![s] =
                Assemble([provider |-> settings.requested, connected |-> FALSE])]
    /\ UNCHANGED <<settings, runtime, call>>

\* _cache_runtime: the first one built is used by everyone
CacheRuntime(s) ==
    /\ starters[s] # NoRuntime
    /\ runtime' = IF runtime = NoRuntime THEN starters[s] ELSE runtime
    /\ starters' = [starters EXCEPT ![s] = NoRuntime]
    /\ UNCHANGED <<settings, call>>

-----------------------------------------------------------------------------
(* Budgets *)

MaxAttempts == 3
SearchBudget == 120
OkxBudget == 40

BackoffBefore(attempt) == IF attempt = 2 THEN 4 ELSE 8

\* the back-off that the attempts after this one will need
FutureBackoff(attempt) == CASE attempt = 1 -> 12 [] attempt = 2 -> 8 [] OTHER -> 0

\* first_attempt_budget_share
FirstShare(provider, usable) ==
    IF provider = "tavily" THEN (2 * usable) \div 3 ELSE usable \div 2

\* Mutant: the last attempts' back-off is not set aside.
GrantWithoutReserve(provider, attempt, remaining) ==
    IF attempt = 1 THEN FirstShare(provider, remaining) ELSE remaining

\* _attempt_timeout_seconds
Grant(provider, attempt, remaining) ==
    LET usable == remaining - (IF FutureBackoff(attempt) < remaining \div 2
                               THEN FutureBackoff(attempt) ELSE remaining \div 2)
    IN  IF attempt = 1 THEN FirstShare(provider, usable)
        ELSE usable \div (MaxAttempts - attempt + 1)

\* the timeout the provider's client gets: DDGS takes whole seconds, at least one
ClientTimeout(provider, granted) ==
    IF provider # "ddgs" THEN granted
    ELSE IF granted < 4 THEN 4 ELSE 4 * (granted \div 4)

\* Mutant: a delay that outlasts the budget is slept anyway.
CanRetryLate(attempt, retryable, delay, remaining) ==
    retryable /\ attempt < MaxAttempts /\ remaining > 0

\* SearchRetryPolicy.execute: can_retry
CanRetry(attempt, retryable, delay, remaining) ==
    retryable /\ attempt < MaxAttempts /\ remaining > 0 /\ delay < remaining

-----------------------------------------------------------------------------
(* Searches *)

NewSearch(purpose, provider) ==
    [stage |-> "search", purpose |-> purpose, provider |-> provider, tool |-> "web_search",
     attempt |-> 1, elapsed |-> 0, slow |-> TRUE]

Done(c, result) ==
    call' = [stage |-> "done", result |-> result, search |-> c]

\* ResearchEvents and RunDeepResearch of the Graph
StartSearch(purpose) ==
    /\ runtime # NoRuntime /\ call = NoCall
    /\ call' = NewSearch(purpose, runtime.provider)
    /\ UNCHANGED <<settings, starters, runtime>>

\* _can_fallback_to_tavily, for an error that was worth retrying
CanFallbackToTavily(c, retryable) ==
    /\ c.purpose = "research" /\ c.provider = "builtin"
    /\ settings.key /\ runtime.fallback /\ retryable

\* what execute raises, and CapabilityAwareResearchCollector.collect
SearchFails(c, retryable) ==
    IF CanFallbackToTavily(c, retryable)
    THEN call' = NewSearch("research", "tavily")
    ELSE Done(c, "failed")

(* What a provider's reply amounts to.                                      *)

\* _normalize_search_error: time-outs and transient errors, of which some name a
\* delay, are worth retrying, every other exception is not
CallErrors == {"timeout", "transient", "refused"}

\* parse_builtin_search_response: a search that did not complete, or one without
\* a public citation (for the market also: without a price)
BuiltinReplies == {"evidence", "unverified", "no citation"}

\* parse_tavily_response; an error object is the provider's refusal
TavilyReplies == {"evidence", "malformed", "empty", "error"}

\* parse_ddgs_metasearch_response
DdgsReplies == {"evidence", "malformed", "empty"}

Replies(provider) ==
    CallErrors \cup CASE provider = "builtin" -> BuiltinReplies
                      [] provider = "tavily" -> TavilyReplies
                      [] OTHER -> DdgsReplies

\* every reply that fails to parse is retried, whatever parsing said of it, but
\* for Tavily's own error
Retryable(reply) == reply \notin {"refused", "error"}

\* the built-in search asks again with the preview tool
NextTool(tool, reply) ==
    IF reply \in {"unverified", "no citation"} THEN "web_search_preview" ELSE tool

\* one attempt of SearchRetryPolicy.execute and what follows it
SearchAttempt ==
    /\ call.stage = "search"
    /\ LET remaining == SearchBudget - call.elapsed
           timeout   == ClientTimeout(call.provider, Grant(call.provider, call.attempt, remaining))
       IN  \E reply \in Replies(call.provider) :
           \E took \in IF reply = "timeout" THEN {timeout} ELSE {0, timeout \div 2},
              after \in IF reply = "transient" THEN RetryAfters \cup {0} ELSE {0} :
              LET c     == [call EXCEPT !.elapsed = @ + took,
                                        !.slow = @ /\ reply = "timeout",
                                        !.tool = NextTool(@, reply)]
                  back  == BackoffBefore(call.attempt + 1)
                  delay == IF after > back THEN after ELSE back
              IN  IF reply = "evidence"
                  THEN call' = [c EXCEPT !.stage = "evidence"]
                  ELSE IF CanRetry(call.attempt, Retryable(reply), delay, SearchBudget - c.elapsed)
                  THEN call' = [c EXCEPT !.attempt = @ + 1, !.elapsed = @ + delay]
                  ELSE SearchFails(c, Retryable(reply))
    /\ UNCHANGED <<settings, starters, runtime>>

\* the rest of CitedResearchCollector.collect: nothing relevant is an error that
\* is not retryable, an extraction that fails is an error of another kind
ResearchFromEvidence ==
    /\ call.stage = "evidence" /\ call.purpose # "market"
    /\ Done(call, "evidence") \/ (call.purpose = "research" /\ Done(call, "failed"))
    /\ UNCHANGED <<settings, starters, runtime>>

-----------------------------------------------------------------------------
(* Market data *)

\* the web snapshot: one unsupported citation, or no ticker, refuses it
WebSnapshot(cited) ==
    IF (\E f \in DOMAIN cited : cited[f] = "unsupported") \/ cited["ticker"] = "absent"
    THEN {} ELSE {f \in DOMAIN cited : cited[f] = "supported"}

MarketFromEvidence ==
    /\ call.stage = "evidence" /\ call.purpose = "market"
    /\ \E cited \in [WebFields \cup {"ticker"} -> {"absent", "supported", "unsupported"}] :
          Done(call, IF WebSnapshot(cited) = {} THEN "failed" ELSE "web")
    /\ UNCHANGED <<settings, starters, runtime>>

StartMarket ==
    /\ runtime # NoRuntime /\ call = NoCall
    /\ call' = [stage |-> "okx", attempt |-> 1, elapsed |-> 0]
    /\ UNCHANGED <<settings, starters, runtime>>

\* what an endpoint answers: an error to retry, an error, or an envelope, with
\* valid rows of the right instrument or not
EndpointReplies == {"unavailable", "rejected", "malformed", "data"}

\* parse_okx_snapshot: all or nothing, and never worth a retry
ParseOkxSnapshot(replies) ==
    IF \A i \in DOMAIN Endpoints : replies[i] = "data" THEN "snapshot" ELSE "rejected"

\* fetch_once: the endpoints in order, the first that fails ends the attempt;
\* the replies are parsed once all have answered
FetchOnce(replies) ==
    LET failing == {i \in DOMAIN Endpoints : replies[i] \in {"unavailable", "rejected"}}
        first   == CHOOSE i \in failing : \A j \in failing : i <= j
    IN  IF failing # {} THEN replies[first] ELSE ParseOkxSnapshot(replies)

\* RetryPolicy.execute around fetch_once, which may use all that remains of the
\* budget; a retryable failure is exhausted whether the attempts or the time ran
\* out, and then collect_market_snapshot turns to the web
OkxAttempt ==
    /\ call.stage = "okx"
    /\ \E replies \in [DOMAIN Endpoints -> EndpointReplies] :
       \E took \in {0, (OkxBudget - call.elapsed) \div 2, OkxBudget - call.elapsed} :
          LET outcome   == FetchOnce(replies)
              elapsed   == call.elapsed + took
              delay     == BackoffBefore(call.attempt + 1)
          IN  CASE outcome = "snapshot" -> call' = [stage |-> "done", result |-> "okx", okx |-> elapsed]
                [] outcome = "rejected" -> call' = [stage |-> "done", result |-> "failed", okx |-> elapsed]
                [] OTHER -> IF call.attempt < MaxAttempts /\ delay < OkxBudget - elapsed
                            THEN call' = [call EXCEPT !.attempt = @ + 1, !.elapsed = elapsed + delay]
                            ELSE call' = NewSearch("market", runtime.provider)
    /\ UNCHANGED <<settings, starters, runtime>>

\* the node returns; the next call starts afresh
Return ==
    /\ call.stage = "done"
    /\ call' = NoCall
    /\ UNCHANGED <<settings, starters, runtime>>

ProvidersNext ==
    \/ \E s \in Starters : BuildRuntime(s) \/ CacheRuntime(s)
    \/ \E p \in {"research", "deep"} : StartSearch(p)
    \/ SearchAttempt
    \/ ResearchFromEvidence \/ MarketFromEvidence \/ StartMarket \/ OkxAttempt \/ Return

ProvidersSpec == ProvidersInit /\ [][ProvidersNext]_providerVars

-----------------------------------------------------------------------------
(* Properties. *)

\* Whatever a provider answers, a search or an OKX snapshot ends inside its
\* budget (DDGS, with its whole seconds, within one more), every attempt begins
\* with time left, and a search that only ever met silence has used all three
\* attempts; Tavily stands in for the built-in search only where the probe of
\* this process reached it.
SearchWithinBudget ==
    /\ call.stage \in {"search", "okx"} =>
          call.elapsed < IF call.stage = "okx" THEN OkxBudget ELSE SearchBudget
    /\ call.stage = "done" =>
          IF "okx" \in DOMAIN call THEN call.okx <= OkxBudget
          ELSE /\ call.search.elapsed <= SearchBudget + (IF call.search.provider = "ddgs" THEN 4 ELSE 0)
               /\ call.search.slow /\ call.result = "failed" => call.search.attempt = MaxAttempts
    /\ call.stage = "search" /\ call.provider # runtime.provider =>
          settings.strict /\ runtime = [provider |-> "builtin", fallback |-> TRUE]
=============================================================================
