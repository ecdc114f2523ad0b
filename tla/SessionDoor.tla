---------------------------- MODULE SessionDoor ----------------------------
(***************************************************************************)
(* The two doors that verify a khal-auth session token: the gate of        *)
(* /api/v1 and the MCP endpoint.  They share one cached key set            *)
(* (JwksKeySource): concurrent misses await one fetch, a token that names  *)
(* an unknown key forces one more, every failure refuses and caches        *)
(* nothing.  Keys rotate at the issuer meanwhile.  Past the signature, each*)
(* door decides from the claims what its caller reaches: the API by the app*)
(* a token was minted for, MCP by what it registers for this caller.       *)
(*                                                                         *)
(* A host is the sequence of its labels; an ability of the claim is a pair *)
(* of the audience and the local id.                                       *)
(***************************************************************************)
EXTENDS Integers, Sequences

CONSTANTS
  Kids,            \* signing keys of the issuer
  SessionRequests, \* door, origin, token the issuer signed, and what it asks
  Handlers,        \* requests being handled at once
  Tenant,          \* KHAL_TENANT
  McpAudience,     \* MCP_AUDIENCE
  Apps,            \* KHAL_TOKEN_AUDIENCE: [audience -> SUBSET capabilities]
  OriginRules,     \* CORS_ALLOWED_ORIGINS: kind and host of each entry
  NoOrigin,        \* a request of no browser
  NoKeys,          \* nothing cached yet
  NoClaim,         \* an optional claim that is not there
  Malformed,       \* one that is not a list of strings
  MaxNow           \* bound

ASSUME SessionDoorAssumption ==
  /\ MaxNow \in Nat
  /\ \A r \in SessionRequests : r.at \in {"api", "mcp"} /\ r.token.kid \in Kids /\ r.token.exp \in Nat

VARIABLES
  published,   \* the issuer's key set
  keySet,      \* the cached one, or NoKeys
  fetch,       \* the shared fetch in flight
  visit,       \* each request's progress
  now

door == <<published, keySet, fetch, visit, now>>

NoFetch == [pc |-> "none", keys |-> {}]
NoVisit == [pc |-> "idle"]

Visits == [pc : {"current", "waiting", "verify", "unknown", "waitingAgain", "verifyAgain",
                 "served", "refused", "forbidden"},
           request : SessionRequests,
           keys : SUBSET Kids,       \* the set its token is verified against
           steady : SUBSET Kids,     \* history: keys published since it arrived
           excuse : BOOLEAN]         \* history: its fetch failed, or was answered before

DoorTypeOK ==
  /\ published \in SUBSET Kids
  /\ keySet \in {NoKeys} \cup SUBSET Kids
  /\ fetch \in [pc : {"none", "asked", "answered"}, keys : SUBSET Kids]
  /\ visit \in [Handlers -> {NoVisit} \cup Visits]
  /\ now \in 0..MaxNow

DoorInit ==
  /\ published \in SUBSET Kids
  /\ keySet = NoKeys
  /\ fetch = NoFetch
  /\ visit = [h \in Handlers |-> NoVisit]
  /\ now = 0

-----------------------------------------------------------------------------
(* Whose data each tool, prompt, resource and route serves. *)

Billing == [abilities |-> {"billing.read"}, capabilities |-> {"billing.ledger"}, masterOnly |-> FALSE]
BillingStatement == [Billing EXCEPT !.abilities = {"billing.export"}]
BillingWrite == [Billing EXCEPT !.masterOnly = TRUE]
Tracing == [abilities |-> {"tracing.read"}, capabilities |-> {"tracing.sessions"}, masterOnly |-> FALSE]
CostAndExecutions == [Billing EXCEPT !.abilities = @ \cup Tracing.abilities,
                                     !.capabilities = @ \cup Tracing.capabilities]
Everyone == [abilities |-> {}, capabilities |-> {}, masterOnly |-> FALSE]

BillingTools == {"get_overview", "list_bills", "get_billing_summary", "get_billing_series",
                 "get_billing_projection", "list_prices"}
TracingTools == {"list_traces", "get_trace_filter_options", "get_trace",
                 "list_sessions", "get_session_filter_options", "get_session"}
Previews == {"preview_close_billing_period", "preview_reopen_billing_period", "preview_register_price"}
Writes == {"close_billing_period", "reopen_billing_period", "register_price"}

ToolNeeds ==
  [n \in BillingTools \cup TracingTools \cup Previews \cup Writes \cup {"export_statement"} |->
     CASE n \in BillingTools -> Billing
       [] n \in TracingTools -> Tracing
       [] n \in Previews \cup Writes -> BillingWrite
       [] n = "export_statement" -> BillingStatement]

PromptNeeds ==
  [n \in {"explain-bill", "find-cost-driver", "register-price", "close-month"} |->
     CASE n = "explain-bill" -> Billing
       [] n = "find-cost-driver" -> CostAndExecutions
       [] n \in {"register-price", "close-month"} -> BillingWrite]

ResourceNeeds == [n \in {"openapi", "bills", "prices"} |-> IF n = "openapi" THEN Everyone ELSE Billing]

\* The tools each playbook tells the model to call.
PromptCalls ==
  ({"explain-bill"} \X {"get_billing_summary"})
  \cup ({"find-cost-driver"} \X {"get_billing_summary", "get_billing_series", "list_sessions",
                                 "get_session", "get_trace"})
  \cup ({"register-price"} \X {"list_prices", "preview_register_price", "register_price"})
  \cup ({"close-month"} \X {"list_bills", "preview_close_billing_period", "close_billing_period"})

RouteNeeds ==
  [n \in {"GET /bills", "GET /billing", "GET /prices", "POST /prices", "GET /traces", "GET /sessions"} |->
     CASE n \in {"GET /bills", "GET /billing", "GET /prices"} -> Billing
       [] n = "POST /prices" -> BillingWrite
       [] n \in {"GET /traces", "GET /sessions"} -> Tracing]

ASSUME RoutesAssumption == \A r \in SessionRequests : r.at = "api" => r.asks \in DOMAIN RouteNeeds

-----------------------------------------------------------------------------
(* What the claims open. *)

Expired(token) == now >= token.exp

\* A pattern stands for exactly one label before its domain, so that
\* evil-example.com is no sub-domain of example.com.
OriginAllowedBy(origin) ==
  \E rule \in OriginRules :
    /\ origin.https
    /\ IF rule.kind = "exact" THEN origin.host = rule.host
       ELSE Len(origin.host) = Len(rule.host) + 1 /\ Tail(origin.host) = rule.host

\* /api/v1 takes the token of any configured app, MCP only one minted for it.
AudienceFits(r) ==
  \E i \in DOMAIN r.token.aud :
    IF r.at = "api" THEN r.token.aud[i] \in DOMAIN Apps ELSE r.token.aud[i] = McpAudience

\* The first configured audience, in the token's own order.
AudienceOf(token) ==
  token.aud[CHOOSE i \in DOMAIN token.aud :
              /\ token.aud[i] \in DOMAIN Apps
              /\ \A j \in DOMAIN token.aud : token.aud[j] \in DOMAIN Apps => i <= j]

\* A token without a subject cannot be attributed to a person.
ClaimsOk(r) ==
  /\ ~Expired(r.token)
  /\ AudienceFits(r)
  /\ r.token.tenant = Tenant
  /\ r.at = "mcp" => r.token.sub # ""

\* Absent stays absent; what is malformed opens nothing.
CapabilitiesOf(claim) == IF claim = Malformed THEN {} ELSE claim

\* Only the ids of this audience count.
AbilitiesOf(claim) ==
  IF claim = NoClaim THEN NoClaim
  ELSE IF claim = Malformed THEN {}
  ELSE {pair[2] : pair \in {p \in claim : p[1] = McpAudience}}

CallerOf(token) ==
  [master |-> token.role = "master", capabilities |-> CapabilitiesOf(token.capabilities),
   abilities |-> AbilitiesOf(token.abilities)]

\* Off and shadow: the token says nothing of Permissoes, and masters only enter.
Admitted(token) == token.org \/ token.capabilities # NoClaim \/ token.role = "master"

\* Abilities decide when the claim is there, capabilities when only they are,
\* and nothing more is restricted without either.
Reaches(caller, need) ==
  /\ need.masterOnly => caller.master
  /\ IF caller.abilities # NoClaim THEN need.abilities \subseteq caller.abilities
     ELSE caller.capabilities # NoClaim => need.capabilities \subseteq caller.capabilities

\* What the server built for this request registers: the rest is unknown to it.
SurfaceFor(caller) ==
  UNION {{n \in DOMAIN needs : Reaches(caller, needs[n])} : needs \in {ToolNeeds, PromptNeeds, ResourceNeeds}}

\* The app a token was minted for opens its data.
Opens(token, need) ==
  /\ need.capabilities \subseteq Apps[AudienceOf(token)]
  /\ need.masterOnly => token.role = "master"

Entitled(r) ==
  IF r.at = "api" THEN Opens(r.token, RouteNeeds[r.asks])
  ELSE Admitted(r.token) /\ r.asks \in SurfaceFor(CallerOf(r.token))

-----------------------------------------------------------------------------
\* MCP answers a browser of an unlisted origin before it looks at the token;
\* /api/v1 leaves that to the browser.
OriginRefused(r) == r.at = "mcp" /\ r.origin # NoOrigin /\ ~OriginAllowedBy(r.origin)

ArriveAt(h, request) ==
  /\ visit[h].pc = "idle"
  /\ visit' = [visit EXCEPT ![h] = [pc |-> IF OriginRefused(request) THEN "forbidden" ELSE "current",
                                    request |-> request,
                                    keys |-> {}, steady |-> published, excuse |-> FALSE]]
  /\ UNCHANGED <<published, keySet, fetch, now>>

UseCached(h) ==
  /\ visit[h].pc = "current"
  /\ keySet # NoKeys
  /\ visit' = [visit EXCEPT ![h].pc = "verify", ![h].keys = keySet]
  /\ UNCHANGED <<published, keySet, fetch, now>>

\* refresh(): one fetch at a time, joined by whoever needs it.
Refresh(h) ==
  /\ \/ visit[h].pc = "current" /\ keySet = NoKeys
     \/ visit[h].pc = "unknown"
  /\ visit' = [visit EXCEPT ![h].pc = IF @ = "current" THEN "waiting" ELSE "waitingAgain",
                            ![h].excuse = fetch.pc = "answered"]
  /\ fetch' = IF fetch.pc = "none" THEN [pc |-> "asked", keys |-> {}] ELSE fetch
  /\ UNCHANGED <<published, keySet, now>>

IssuerAnswers ==
  /\ fetch.pc = "asked"
  /\ fetch' = [pc |-> "answered", keys |-> published]
  /\ UNCHANGED <<published, keySet, visit, now>>

Waiting == {h \in Handlers : visit[h].pc \in {"waiting", "waitingAgain"}}

FetchLands ==
  /\ fetch.pc = "answered"
  /\ keySet' = fetch.keys
  /\ fetch' = NoFetch
  /\ visit' = [h \in Handlers |->
                 IF h \in Waiting
                 THEN [visit[h] EXCEPT !.pc = IF @ = "waiting" THEN "verify" ELSE "verifyAgain",
                                       !.keys = fetch.keys]
                 ELSE visit[h]]
  /\ UNCHANGED <<published, now>>

\* Unreachable, timed out or malformed: whoever waits is refused, the cached
\* set stays.
FetchFails ==
  /\ fetch.pc # "none"
  /\ fetch' = NoFetch
  /\ visit' = [h \in Handlers |->
                 IF h \in Waiting THEN [visit[h] EXCEPT !.pc = "refused", !.excuse = TRUE] ELSE visit[h]]
  /\ UNCHANGED <<published, keySet, now>>

\* Faulty: a token naming an unknown key is refused at once.
UnknownKidRefused(v) == "refused"

\* The first time, the keys may have rotated since the fetch.
UnknownKid(v) == IF v.pc = "verify" THEN "unknown" ELSE "refused"

Verdict(v) ==
  LET r == v.request IN
  IF r.token.kid \notin v.keys THEN UnknownKid(v)
  ELSE IF ~ClaimsOk(r) THEN "refused"
  ELSE IF Entitled(r) THEN "served" ELSE "forbidden"

VerifyToken(h) ==
  /\ visit[h].pc \in {"verify", "verifyAgain"}
  /\ visit' = [visit EXCEPT ![h].pc = Verdict(visit[h])]
  /\ UNCHANGED <<published, keySet, fetch, now>>

Leave(h) ==
  /\ visit[h].pc \in {"served", "refused", "forbidden"}
  /\ visit' = [visit EXCEPT ![h] = NoVisit]
  /\ UNCHANGED <<published, keySet, fetch, now>>

-----------------------------------------------------------------------------
(* The issuer, and time. *)

PublishKey(k) ==
  /\ published' = published \cup {k}
  /\ UNCHANGED <<keySet, fetch, visit, now>>

\* A request no longer counts on a key retired while it is handled.
RetireKey(k) ==
  /\ k \in published
  /\ published' = published \ {k}
  /\ visit' = [h \in Handlers |-> IF visit[h] = NoVisit THEN NoVisit
                                  ELSE [visit[h] EXCEPT !.steady = @ \ {k}]]
  /\ UNCHANGED <<keySet, fetch, now>>

ClockTicks ==
  /\ now < MaxNow
  /\ now' = now + 1
  /\ UNCHANGED <<published, keySet, fetch, visit>>

DoorNext ==
  \/ \E h \in Handlers :
       \/ \E request \in SessionRequests : ArriveAt(h, request)
       \/ UseCached(h) \/ Refresh(h) \/ VerifyToken(h) \/ Leave(h)
  \/ IssuerAnswers \/ FetchLands \/ FetchFails
  \/ \E k \in Kids : PublishKey(k) \/ RetireKey(k)
  \/ ClockTicks

DoorSpec == DoorInit /\ [][DoorNext]_door

-----------------------------------------------------------------------------
(* Fail closed, and only then: what is served goes to a token of this      *)
(* tenant, minted for this door; a write goes to a master, by either door; *)
(* a playbook goes only to who reaches every tool it tells to call. And a  *)
(* token that is good for the request, whose key stood published from the  *)
(* moment it arrived, is never refused, whatever rotation the cached set   *)
(* has missed, unless a fetch failed or the one it joined had been answered*)
(* before.                                                                 *)
DoorHonest ==
  \A h \in Handlers :
    LET v == visit[h] IN
    /\ v.pc = "served" =>
         LET r == v.request IN
         /\ r.token.tenant = Tenant /\ AudienceFits(r)
         /\ r.asks \in Writes \cup {"POST /prices"} => r.token.role = "master"
         /\ \A call \in PromptCalls : call[1] = r.asks => Reaches(CallerOf(r.token), ToolNeeds[call[2]])
    /\ v.pc = "refused" /\ ClaimsOk(v.request) /\ v.request.token.kid \in v.steady => v.excuse
=============================================================================
