------------------------------ MODULE WebTools ------------------------------
(* web_read and web_search: the rules of each origin asked once and kept, the  *)
(* bucket of tokens both tools share per host, redirects followed by hand, a   *)
(* body cut at the call's budget, and the extractor, while other calls run and *)
(* the user may cancel (anie-tools-web).                                       *)
EXTENDS Naturals, Sequences, SequencesExt, FiniteSets

CONSTANTS
    WebCalls,        \* calls of the two tools
    WebRequests,     \* what they are given: [tool, page, javascript]
    Pages,           \* addresses
    OriginOf,        \* page -> scheme, host and port
    HostOf,          \* page -> host
    Refused,         \* pages whose address no request may be sent to
    Rules,           \* what robots.txt may say: sets of disallowed pages
    Unasked,         \* an origin whose rules are not cached
    PageSizes,       \* sizes of bodies
    ChunkSizes,      \* sizes of the pieces they arrive in
    ConfiguredCap,   \* max_page_bytes
    ContextShare,    \* a tenth of the model's context window
    LeastCap,        \* MIN_TOOL_OUTPUT_BUDGET_BYTES
    MaxRedirects,
    Burst            \* tokens of a full bucket

ASSUME WebAssumption ==
    /\ Burst \in Nat \ {0} /\ MaxRedirects \in Nat /\ IsFiniteSet(WebCalls)
    /\ {ConfiguredCap, ContextShare, LeastCap} \cup PageSizes \cup ChunkSizes \subseteq Nat
    /\ \A r \in Rules : r \subseteq Pages
    /\ WebRequests \subseteq [tool : {"read", "search"}, page : Pages, javascript : BOOLEAN]

VARIABLES
    web,        \* call -> its progress
    robots,     \* origin -> the disallowed pages, or Unasked
    bucket,     \* host -> tokens left; a host not seen yet has a full bucket
    ticks,      \* tokens every bucket could have got so far
    webStop     \* the run was cancelled

webVars == <<web, robots, bucket, ticks, webStop>>

Origins == {OriginOf[p] : p \in Pages}
Call(request) ==
    [request |-> request, phase |-> "start", at |-> request.page, sent |-> <<>>, asked |-> FALSE,
     size |-> 0, got |-> 0, clipped |-> FALSE, result |-> "none"]

WebInit ==
    /\ web \in [WebCalls -> {Call(r) : r \in WebRequests}]
    /\ robots = [o \in Origins |-> Unasked]
    /\ bucket = [h \in {} |-> Burst] /\ ticks = 0 /\ webStop = FALSE

Enter(c, phase) == web' = [web EXCEPT ![c].phase = phase]
End(c, result) == web' = [web EXCEPT ![c].phase = "done", ![c].result = result]
In(c, phase) == web[c].phase = phase

\* web_read gets the smaller of the configured limit and a share of the
\* context, but at least the floor; web_search the configured limit.
CapOf(c) ==
    IF web[c].request.tool = "search" THEN ConfiguredCap
    ELSE LET share == IF ContextShare < ConfiguredCap THEN ContextShare ELSE ConfiguredCap
         IN IF share < LeastCap THEN LeastCap ELSE share

------------------------------------------------------------------------------
\* What the rules say; a search asks nobody.
Judge(c, disallowed) ==
    IF web[c].at \in disallowed THEN End(c, "failed") ELSE Enter(c, "throttled")

\* The address is parsed and its text classified; the cached rules are used.
Begin(c) ==
    /\ In(c, "start") /\ ~webStop
    /\ \/ web[c].request.tool = "search" /\ Enter(c, "throttled")
       \/ /\ web[c].request.tool = "read"
          /\ IF web[c].at \in Refused THEN End(c, "failed")
             ELSE IF robots[OriginOf[web[c].at]] = Unasked THEN Enter(c, "robots")
             ELSE Judge(c, robots[OriginOf[web[c].at]])
    /\ UNCHANGED <<robots, bucket, ticks, webStop>>

\* robots.txt was fetched: the first answer is kept for good, this call goes by
\* its own. Missing, oversized and malformed files disallow nothing.
RobotsAnswer(c) ==
    /\ In(c, "robots")
    /\ \E disallowed \in Rules :
         LET origin == OriginOf[web[c].at]
             allowed == web[c].at \notin disallowed
         IN /\ robots' = [robots EXCEPT ![origin] = IF @ = Unasked THEN disallowed ELSE @]
            /\ web' = [web EXCEPT ![c].asked = TRUE,
                                  ![c].phase = IF allowed THEN "throttled" ELSE "done",
                                  ![c].result = IF allowed THEN @ ELSE "failed"]
    /\ UNCHANGED <<bucket, ticks, webStop>>

\* Variant of BucketOf with a bug: each tool has a limiter of its own.
BugBucketOf(c) == <<web[c].request.tool, HostOf[web[c].at]>>

\* One limiter for both tools, keyed by host.
BucketOf(c) == HostOf[web[c].at]

Tokens(key) == IF key \in DOMAIN bucket THEN bucket[key] ELSE Burst

\* A token of the host's bucket; javascript needs a build with a browser.
Acquire(c) ==
    /\ In(c, "throttled") /\ Tokens(BucketOf(c)) > 0
    /\ bucket' = [k \in DOMAIN bucket \cup {BucketOf(c)} |->
                    IF k = BucketOf(c) THEN Tokens(k) - 1 ELSE bucket[k]]
    /\ IF web[c].request.javascript THEN End(c, "failed") ELSE Enter(c, "checking")
    /\ UNCHANGED <<robots, ticks, webStop>>

\* Time passes: every bucket gains a token unless it is full; time that fills
\* none is not counted.
Refill ==
    /\ (\E k \in DOMAIN bucket : bucket[k] < Burst) /\ ticks' = ticks + 1
    /\ bucket' = [k \in DOMAIN bucket |-> IF bucket[k] < Burst THEN bucket[k] + 1 ELSE Burst]
    /\ UNCHANGED <<web, robots, webStop>>

\* The host is looked up before every request of the chain.
CheckDestination(c) ==
    /\ In(c, "checking")
    /\ \/ web[c].at \notin Refused
          /\ web' = [web EXCEPT ![c].phase = "requesting", ![c].sent = Append(@, web[c].at)]
       \/ End(c, "failed")
    /\ UNCHANGED <<robots, bucket, ticks, webStop>>

\* A redirect: refused when there were enough, or to what may not be asked.
Redirect(c, page) ==
    IF Len(web[c].sent) > MaxRedirects \/ page \in Refused THEN End(c, "failed")
    ELSE web' = [web EXCEPT ![c].at = page, ![c].phase = "checking"]

\* The headers: a redirect, an error status, a type that is not HTML, a body, or
\* no answer in time.
Respond(c) ==
    /\ In(c, "requesting")
    /\ \/ \E page \in Pages : Redirect(c, page)
       \/ Enter(c, "excerpt")
       \/ End(c, "failed")
       \/ \E size \in PageSizes : web' = [web EXCEPT ![c].phase = "streaming", ![c].size = size]
    /\ UNCHANGED <<robots, bucket, ticks, webStop>>

\* An error page is read to its end, or the request's timeout, for an excerpt.
ExcerptEnds(c) ==
    In(c, "excerpt") /\ End(c, "failed") /\ UNCHANGED <<robots, bucket, ticks, webStop>>

Extract(c) == IF web[c].request.tool = "search" THEN "parsing" ELSE "extracting"

\* A piece of the body; the one that would pass the limit is cut and ends it.
Chunk(c) ==
    LET call == web[c] IN
    /\ In(c, "streaming") /\ call.got < call.size
    /\ \E k \in ChunkSizes :
         /\ call.got + k <= call.size
         /\ web' = IF call.got + k > CapOf(c)
                   THEN [web EXCEPT ![c].got = CapOf(c), ![c].clipped = TRUE, ![c].phase = Extract(c)]
                   ELSE [web EXCEPT ![c].got = @ + k]
    /\ UNCHANGED <<robots, bucket, ticks, webStop>>

\* The body ends, or breaks off.
BodyEnds(c) ==
    /\ In(c, "streaming")
    /\ IF web[c].got = web[c].size THEN Enter(c, Extract(c)) ELSE End(c, "failed")
    /\ UNCHANGED <<robots, bucket, ticks, webStop>>

\* Rows are taken from what arrived, cut or not.
ParseHits(c) ==
    In(c, "parsing") /\ End(c, "hits") /\ UNCHANGED <<robots, bucket, ticks, webStop>>

\* Whatever the extractor failed at, a clipped page is said to be too big.
ExtractionFailed(c) == IF web[c].clipped THEN "too big" ELSE "failed"

\* The child has no time limit.
ExtractorEnds(c) ==
    /\ In(c, "extracting")
    /\ \E result \in {IF web[c].clipped THEN "clipped page" ELSE "page", ExtractionFailed(c)} : End(c, result)
    /\ UNCHANGED <<robots, bucket, ticks, webStop>>

WebCancel ==
    ~webStop /\ webStop' = TRUE /\ UNCHANGED <<web, robots, bucket, ticks>>

Waits == {"start", "robots", "throttled", "checking", "requesting", "excerpt", "streaming", "extracting"}

\* Every wait ends when the run is cancelled; the extractor is killed.
SeeStop(c) ==
    /\ webStop /\ web[c].phase \in Waits
    /\ End(c, IF In(c, "extracting") /\ web[c].clipped THEN "too big" ELSE "aborted")
    /\ UNCHANGED <<robots, bucket, ticks, webStop>>

Fetch(c) ==
    \/ Begin(c) \/ RobotsAnswer(c) \/ Acquire(c) \/ CheckDestination(c) \/ Respond(c)
    \/ ExcerptEnds(c) \/ Chunk(c) \/ BodyEnds(c) \/ ParseHits(c)

WebNext ==
    \/ \E c \in WebCalls : Fetch(c) \/ ExtractorEnds(c) \/ SeeStop(c)
    \/ Refill \/ WebCancel

WebSpec == WebInit /\ [][WebNext]_webVars

------------------------------------------------------------------------------
Spent(host) ==
    Cardinality({c \in WebCalls : HostOf[web[c].request.page] = host
                    /\ (web[c].sent # <<>> \/ web[c].phase \in {"checking", "requesting"})})

\* "Both tools share a per-host rate limiter so a search-then-read chain doesn't
\* double-spend the budget for a single host": however calls of the two tools
\* interleave, no more of them reach a host than its bucket held and time gave.
HostBudgetShared == \A p \in Pages : Spent(HostOf[p]) <= Burst + ticks

\* No chain of redirects is longer than allowed or leads to an address that may
\* not be asked; and a page its origin's kept rules disallow is only ever asked
\* for by a call that had its own, earlier or concurrent answer.
RequestsAllowed ==
    \A c \in WebCalls :
        LET call == web[c] IN
        /\ Len(call.sent) <= MaxRedirects + 1
        /\ Range(call.sent) \cap Refused = {}
        /\ call.request.tool = "read" /\ call.sent # <<>> /\ ~call.asked =>
               robots[OriginOf[call.sent[1]]] # Unasked /\ call.sent[1] \notin robots[OriginOf[call.sent[1]]]

\* web_read tells the model that it sees part of a page exactly when it does: a body
\* of just the limit is whole, one byte more is clipped to the limit (fetch_html).
\* web_search stays within its limit too, and does not tell: ddg.rs drops the flag.
ClippingTold ==
    \A c \in WebCalls :
        LET call == web[c] IN
        /\ call.got <= CapOf(c)
        /\ call.result = "page" => call.got = call.size
        /\ call.result \in {"clipped page", "too big"} => call.size > CapOf(c) /\ call.got = CapOf(c)

\* Calls of the two tools share a host's tokens and keep to their limits, and
\* web_read tells what it left out.
WebSound == HostBudgetShared /\ RequestsAllowed /\ ClippingTold

\* A cancelled call is over, whatever it waited for: a token, a silent server, an
\* endless error page, a hanging extractor. Any other is over or at the extractor,
\* which has no timeout: redirects are bounded, and every wait before it has a
\* timeout or a token to come.
WebCallsOver == \A c \in WebCalls : In(c, "done") \/ (In(c, "extracting") /\ ~webStop)
=============================================================================
