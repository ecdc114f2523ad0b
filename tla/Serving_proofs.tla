--------------------------- MODULE Serving_proofs ---------------------------
(***************************************************************************)
(* Proofs about what the API serves, and to whom.  WriteTools, for every   *)
(* number of months, callers, calls, tokens and terms: what a confirmed    *)
(* call goes on to do is what a preview showed to that caller.             *)
(* SessionDoor, for every set of keys, requests, handlers and apps: what   *)
(* is served was entitled, whatever rotates meanwhile, and a good token is *)
(* only refused after a fetch that gave it cause.  BillList, for every     *)
(* number of months and every lifecycle: the live-scan bound never passes  *)
(* an open month that carries a trace, and hence no answer of list()       *)
(* misses one.  BillingReaders, for any number of months, traces and       *)
(* closes: what a reader shows of a month is what the books said of it     *)
(* during the query.                                                       *)
(***************************************************************************)
EXTENDS WriteTools, SessionDoor, BillList, BillingReaders, OrderLemmas

-----------------------------------------------------------------------------
(* WriteTools: tokens. *)

\* The fields that BeforeRead leaves out compare equal by themselves.
LEMMA OnlyTheEtagWasOpen ==
  ASSUME NEW token, NEW caller, NEW request,
         Drifted(token, Expected(caller, request, None), BeforeRead) = {}
  PROVE  Drifted(token, Expected(caller, request, token.bound.etag), Fields) = {}
<1>1. \A f \in BeforeRead : token.bound[f] = Expected(caller, request, None)[f]
  BY DEF Drifted
<1>2. \A f \in BeforeRead : Expected(caller, request, token.bound.etag)[f] = Expected(caller, request, None)[f]
  BY DEF BeforeRead, Fields, Expected
<1>3. token.bound["etag"] = Expected(caller, request, token.bound.etag)["etag"]
  BY DEF Expected
<1>4. Fields = BeforeRead \cup {"etag"}
  BY DEF BeforeRead, Fields
<1>5. QED
  BY <1>1, <1>2, <1>3, <1>4 DEF Drifted

LEMMA AllFieldsFixTheEtag ==
  ASSUME NEW token, NEW caller, NEW request,
         Drifted(token, Expected(caller, request, None), Fields) = {}
  PROVE  /\ token.bound.etag = None
         /\ Drifted(token, Expected(caller, request, token.bound.etag), Fields) = {}
<1>1. token.bound["etag"] = Expected(caller, request, None)["etag"]
  BY DEF Drifted, Fields
<1>2. token.bound.etag = None
  BY <1>1 DEF Expected
<1>3. QED
  BY <1>2

\* A token that was edited no longer carries a signature.
LEMMA SignedIsMinted ==
  ASSUME NEW caller, NEW request, NEW token \in Presentable(caller, request), token.signed
  PROVE  \E p \in minted : p.token = token
  BY DEF Presentable

-----------------------------------------------------------------------------
(* The invariant: a token names the row its preview showed, and a call that *)
(* was admitted carries a minted token that binds its caller and request.  *)

MintedHonestly == \A p \in minted : p.token.bound.etag = p.row

Bound(v) ==
  \E p \in minted :
    /\ p.token = v.token
    /\ Drifted(p.token, Expected(v.caller, v.request, p.token.bound.etag), Fields) = {}
    /\ v.at < p.token.expires
    /\ v.pc = "read" => p.row = v.row

AdmittedHonestly == \A c \in Calls : call[c] # NoCall => Bound(call[c])

ConfirmInv == WriteToolsTypeOK /\ MintedHonestly /\ AdmittedHonestly

-----------------------------------------------------------------------------
(* Types. *)

LEMMA RowsTyped ==
  ASSUME WriteToolsTypeOK, NEW m \in BillMonths
  PROVE  Row(m) \in BillRows
<1>1. ledger[m] \in Month
  BY DEF WriteToolsTypeOK
<1>2. RowOf(m) \in BillRows
  BY <1>1, WriteToolsAssumption DEF RowOf, BillRows, Month
<1>3. QED
  BY <1>2 DEF Row, BillRows

LEMMA MintTyped ==
  ASSUME WriteToolsTypeOK, NEW caller \in Callers, NEW request \in Requests, NEW row \in BillRows,
         Mint(caller, request, row)
  PROVE  WriteToolsTypeOK'
<1>1. Expected(caller, request, PeriodEtag(row)) \in Bindings
  BY DEF Expected, Bindings, PeriodEtag, Requests, CloseRequests, ReopenRequests, PriceRequests
<1>2. clock + Ttl \in 0..MaxClock + Ttl
  BY WriteToolsAssumption DEF WriteToolsTypeOK
<1>3. [bound |-> Expected(caller, request, PeriodEtag(row)), expires |-> clock + Ttl,
       signed |-> TRUE] \in Tokens
  BY <1>1, <1>2 DEF Tokens
<1>4. QED
  BY <1>3 DEF Mint, WriteToolsTypeOK, toolStore

LEMMA AdmitTyped ==
  ASSUME WriteToolsTypeOK, NEW c \in Calls, NEW caller \in Callers, NEW request \in Requests,
         NEW token \in Presentable(caller, request), NEW fields, NEW pc \in {"verified", "read"},
         Admit(c, caller, request, token, fields, pc)
  PROVE  WriteToolsTypeOK'
<1>1. token \in Tokens
  BY SignedIsMinted DEF Admit, WriteToolsTypeOK
<1>2. [pc |-> pc, caller |-> caller, request |-> request, token |-> token, row |-> None,
       at |-> clock] \in Underway
  BY <1>1 DEF Underway, BillRows, WriteToolsTypeOK
<1>3. QED
  BY <1>2 DEF Admit, WriteToolsTypeOK, toolStore

LEMMA LedgerTyped ==
  ASSUME WriteToolsTypeOK, NEW m \in BillMonths
  PROVE  /\ ledger[m].version < MaxVersion => Closing(m) \in [BillMonths -> Month]
         /\ Reopening(m) \in [BillMonths -> Month]
<1>1. ledger \in [BillMonths -> Month] /\ ledger[m] \in Month
  BY DEF WriteToolsTypeOK
<1>2. ASSUME ledger[m].version < MaxVersion
      PROVE  [status |-> "closed", version |-> ledger[m].version + 1, stamped |-> ledger[m].stamped,
              pending |-> ledger[m].pending, frozen |-> ledger[m].stamped] \in Month
  BY <1>1, <1>2, WriteToolsAssumption DEF Month
<1>3. ASSUME ledger[m].version < MaxVersion PROVE Closing(m) \in [BillMonths -> Month]
  BY <1>1, <1>2, <1>3 DEF Closing, Month
<1>4. Reopening(m) \in [BillMonths -> Month]
  BY <1>1 DEF Reopening, Month
<1>5. QED
  BY <1>3, <1>4

LEMMA ToolsTypeNext ==
  ASSUME WriteToolsTypeOK, [WriteToolsNext]_tools
  PROVE  WriteToolsTypeOK'
<1>1. ASSUME NEW caller \in Callers, NEW r \in CloseRequests, PreviewClose(caller, r)
      PROVE  WriteToolsTypeOK'
  <2>1. r \in Requests /\ r.id \in BillMonths
    BY DEF Requests, CloseRequests
  <2>2. QED
    BY <1>1, <2>1, RowsTyped, MintTyped DEF PreviewClose
<1>2. ASSUME NEW caller \in Callers, NEW r \in ReopenRequests, PreviewReopen(caller, r)
      PROVE  WriteToolsTypeOK'
  <2>1. r \in Requests /\ r.id \in BillMonths
    BY DEF Requests, ReopenRequests
  <2>2. QED
    BY <1>2, <2>1, RowsTyped, MintTyped DEF PreviewReopen
<1>3. ASSUME NEW caller \in Callers, NEW r \in PriceRequests, PreviewPrice(caller, r)
      PROVE  WriteToolsTypeOK'
  <2>1. r \in Requests /\ None \in BillRows
    BY DEF Requests, BillRows
  <2>2. QED
    BY <1>3, <2>1, MintTyped DEF PreviewPrice
<1>4. ASSUME NEW caller \in Callers, NEW c \in Calls, NEW r \in CloseRequests \cup ReopenRequests,
             NEW token \in Presentable(caller, r), ConfirmPeriod(c, caller, r, token)
      PROVE  WriteToolsTypeOK'
  <2>1. r \in Requests
    BY DEF Requests
  <2>2. QED
    BY <1>4, <2>1, AdmitTyped DEF ConfirmPeriod
<1>5. ASSUME NEW caller \in Callers, NEW c \in Calls, NEW r \in PriceRequests,
             NEW token \in Presentable(caller, r), ConfirmPrice(c, caller, r, token)
      PROVE  WriteToolsTypeOK'
  <2>1. r \in Requests
    BY DEF Requests
  <2>2. QED
    BY <1>5, <2>1, AdmitTyped DEF ConfirmPrice
<1>6. ASSUME NEW c \in Calls, ReadBills(c) PROVE WriteToolsTypeOK'
  <2>1. call[c] \in Underway
    BY <1>6 DEF ReadBills, WriteToolsTypeOK, NoCall
  <2>2. ASSUME Row(call[c].request.id) \in BillRows
        PROVE  [call[c] EXCEPT !.pc = "read", !.row = Row(call[c].request.id)] \in Underway
    BY <2>1, <2>2 DEF Underway
  <2>3. CASE PeriodEtag(Row(call[c].request.id)) = call[c].token.bound.etag
    <3>1. Row(call[c].request.id) \in BillRows
      BY <2>1, <2>3 DEF PeriodEtag, Underway, Tokens, Bindings
    <3>2. QED
      BY <1>6, <2>2, <2>3, <3>1 DEF ReadBills, WriteToolsTypeOK, toolStore
  <2>4. CASE PeriodEtag(Row(call[c].request.id)) # call[c].token.bound.etag
    BY <1>6, <2>4 DEF ReadBills, WriteToolsTypeOK, toolStore
  <2>5. QED
    BY <2>3, <2>4
<1>7. ASSUME NEW c \in Calls, PerformClose(c) PROVE WriteToolsTypeOK'
  <2>1. call[c] \in Underway /\ call[c].request.action = "close_period"
    BY <1>7 DEF PerformClose, Performing, WriteToolsTypeOK, NoCall
  <2>2. call[c].request.id \in BillMonths
    BY <2>1 DEF Underway, Requests, CloseRequests, ReopenRequests, PriceRequests
  <2>3. ledger' \in [BillMonths -> Month]
    BY <1>7, <2>2, LedgerTyped DEF PerformClose, WriteToolsTypeOK
  <2>4. QED
    BY <1>7, <2>3 DEF PerformClose, Performing, WriteToolsTypeOK
<1>8. ASSUME NEW c \in Calls, PerformReopen(c) PROVE WriteToolsTypeOK'
  <2>1. call[c] \in Underway /\ call[c].request.action = "reopen_period"
    BY <1>8 DEF PerformReopen, Performing, WriteToolsTypeOK, NoCall
  <2>2. call[c].request.id \in BillMonths
    BY <2>1 DEF Underway, Requests, CloseRequests, ReopenRequests, PriceRequests
  <2>3. ledger' \in [BillMonths -> Month]
    BY <1>8, <2>2, LedgerTyped DEF PerformReopen, WriteToolsTypeOK
  <2>4. QED
    BY <1>8, <2>3 DEF PerformReopen, Performing, WriteToolsTypeOK
<1>9. ASSUME NEW c \in Calls, PerformRegister(c) PROVE WriteToolsTypeOK'
  <2>1. call[c] \in Underway /\ call[c].request.action = "register_price"
    BY <1>9 DEF PerformRegister, Performing, WriteToolsTypeOK, NoCall
  <2>2. call[c].request.id \in Prices /\ call[c].request.content \in Terms
    BY <2>1 DEF Underway, Requests, CloseRequests, ReopenRequests, PriceRequests
  <2>3. registry' \subseteq [id : Prices, terms : Terms]
    BY <1>9, <2>2 DEF PerformRegister, WriteToolsTypeOK
  <2>4. QED
    BY <1>9, <2>3 DEF PerformRegister, Performing, WriteToolsTypeOK
<1>10. ASSUME NEW c \in Calls, CallFails(c) PROVE WriteToolsTypeOK'
  BY <1>10 DEF CallFails, WriteToolsTypeOK, toolStore
<1>11. ASSUME NEW m \in BillMonths, RunbookCloses(m) PROVE WriteToolsTypeOK'
  BY <1>11, LedgerTyped DEF RunbookCloses, WriteToolsTypeOK
<1>12. ASSUME NEW m \in BillMonths, RunbookReopens(m) PROVE WriteToolsTypeOK'
  BY <1>12, LedgerTyped DEF RunbookReopens, WriteToolsTypeOK
<1>13. ASSUME NEW m \in BillMonths, PriceIsStamped(m) PROVE WriteToolsTypeOK'
  <2>1. ledger \in [BillMonths -> Month] /\ ledger[m] \in Month
    BY DEF WriteToolsTypeOK
  <2>2. QED
    BY <1>13, <2>1, WriteToolsAssumption DEF PriceIsStamped, WriteToolsTypeOK, Month
<1>14. ASSUME NEW m \in BillMonths, NEW kind \in {"stamped", "pending"}, TraceArrives(m, kind)
       PROVE  WriteToolsTypeOK'
  <2>1. ledger \in [BillMonths -> Month] /\ ledger[m] \in Month
    BY DEF WriteToolsTypeOK
  <2>2. QED
    BY <1>14, <2>1, WriteToolsAssumption DEF TraceArrives, WriteToolsTypeOK, Month
<1>15. CASE TimePasses
  BY <1>15, WriteToolsAssumption DEF TimePasses, WriteToolsTypeOK, toolStore
<1>16. CASE UNCHANGED tools
  BY <1>16 DEF tools, toolStore, WriteToolsTypeOK
<1>17. QED
  BY <1>1, <1>2, <1>3, <1>4, <1>5, <1>6, <1>7, <1>8, <1>9, <1>10, <1>11, <1>12, <1>13, <1>14, <1>15, <1>16
     DEF WriteToolsNext

(* Months, price versions, tokens and confirming calls keep their types    *)
(* (confirmation.ts, billing-lifecycle-tools.ts, price-write-tools.ts).    *)
THEOREM WriteToolsTypeCorrect == WriteToolsSpec => []WriteToolsTypeOK
<1>1. WriteToolsInit => WriteToolsTypeOK
  BY WriteToolsAssumption DEF WriteToolsInit, WriteToolsTypeOK, Month
<1>2. QED
  BY <1>1, ToolsTypeNext, PTL DEF WriteToolsSpec

-----------------------------------------------------------------------------
(* The invariant is kept. *)

\* A preview finds no token outstanding, so no call carries one.
LEMMA MintBinds ==
  ASSUME WriteToolsTypeOK, AdmittedHonestly, NEW caller, NEW request, NEW row, Mint(caller, request, row)
  PROVE  MintedHonestly' /\ AdmittedHonestly'
<1>1. MintedHonestly'
  BY DEF Mint, MintedHonestly, Expected, PeriodEtag
<1>2. \A c \in Calls : call[c] = NoCall
  BY DEF Mint, AdmittedHonestly, Bound
<1>3. QED
  BY <1>1, <1>2 DEF Mint, AdmittedHonestly

LEMMA AdmitBinds ==
  ASSUME ConfirmInv, NEW c \in Calls, NEW caller, NEW request,
         NEW token \in Presentable(caller, request), NEW fields, NEW pc,
         \/ pc = "verified" /\ fields = BeforeRead
         \/ pc = "read" /\ fields = Fields,
         Admit(c, caller, request, token, fields, pc)
  PROVE  MintedHonestly' /\ AdmittedHonestly'
<1> DEFINE v == [pc |-> pc, caller |-> caller, request |-> request, token |-> token, row |-> None, at |-> clock]
<1>1. PICK p \in minted : p.token = token
  BY SignedIsMinted DEF Admit
<1>2. clock < token.expires /\ Drifted(token, Expected(caller, request, None), fields) = {}
  BY DEF Admit, MatchConfirmation
<1>3. Drifted(token, Expected(caller, request, token.bound.etag), Fields) = {}
  BY <1>2, OnlyTheEtagWasOpen, AllFieldsFixTheEtag
<1>4. pc = "read" => p.row = None
  BY <1>1, <1>2, AllFieldsFixTheEtag DEF ConfirmInv, MintedHonestly
<1>5. Bound(v)
  BY <1>1, <1>2, <1>3, <1>4 DEF Bound
<1>6. minted' = minted /\ call' = [call EXCEPT ![c] = v]
  BY DEF Admit
<1>7. \A d \in Calls : call'[d] = v \/ call'[d] = call[d]
  BY <1>6 DEF ConfirmInv, WriteToolsTypeOK
<1>8. \A d \in Calls : call'[d] # NoCall => Bound(call'[d])
  BY <1>5, <1>7 DEF ConfirmInv, AdmittedHonestly
<1>9. QED
  BY <1>6, <1>8 DEF ConfirmInv, MintedHonestly, AdmittedHonestly, Bound

\* The other calls, and a call that ends, are as bound as they were.
LEMMA NoNewCallBinds ==
  ASSUME ConfirmInv, minted' = minted, \A c \in Calls : call'[c] \in {call[c], NoCall}
  PROVE  MintedHonestly' /\ AdmittedHonestly'
  BY DEF ConfirmInv, MintedHonestly, AdmittedHonestly, Bound

LEMMA ConfirmNext ==
  ASSUME ConfirmInv, [WriteToolsNext]_tools
  PROVE  ConfirmInv'
<1> SUFFICES MintedHonestly' /\ AdmittedHonestly'
  BY ToolsTypeNext DEF ConfirmInv
<1>0. WriteToolsTypeOK /\ AdmittedHonestly
  BY DEF ConfirmInv
<1>1. ASSUME NEW caller \in Callers, NEW r, NEW row, Mint(caller, r, row)
      PROVE  MintedHonestly' /\ AdmittedHonestly'
  BY <1>0, <1>1, MintBinds
<1>2. ASSUME NEW caller \in Callers, NEW c \in Calls, NEW r \in CloseRequests \cup ReopenRequests,
             NEW token \in Presentable(caller, r), ConfirmPeriod(c, caller, r, token)
      PROVE  MintedHonestly' /\ AdmittedHonestly'
  BY <1>2, AdmitBinds DEF ConfirmPeriod
<1>3. ASSUME NEW caller \in Callers, NEW c \in Calls, NEW r \in PriceRequests,
             NEW token \in Presentable(caller, r), ConfirmPrice(c, caller, r, token)
      PROVE  MintedHonestly' /\ AdmittedHonestly'
  BY <1>3, AdmitBinds DEF ConfirmPrice
<1>4. ASSUME NEW c \in Calls, ReadBills(c) PROVE MintedHonestly' /\ AdmittedHonestly'
  <2> DEFINE row == Row(call[c].request.id)
             v == [call[c] EXCEPT !.pc = "read", !.row = row]
  <2>1. CASE PeriodEtag(row) # call[c].token.bound.etag
    BY <1>4, <2>1, <1>0, NoNewCallBinds DEF ReadBills, WriteToolsTypeOK
  <2>2. CASE PeriodEtag(row) = call[c].token.bound.etag
    <3>1. call[c] # NoCall /\ call[c] \in Underway
      BY <1>4, <1>0 DEF ReadBills, NoCall, WriteToolsTypeOK
    <3>2. Bound(call[c])
      BY <3>1, <1>0 DEF AdmittedHonestly
    <3>3. PICK p \in minted : /\ p.token = call[c].token
                             /\ Drifted(p.token, Expected(call[c].caller, call[c].request,
                                                          p.token.bound.etag), Fields) = {}
                             /\ call[c].at < p.token.expires
      BY <3>2 DEF Bound
    <3>4. p.row = row
      BY <2>2, <3>3 DEF ConfirmInv, MintedHonestly, PeriodEtag
    <3>5. /\ v.token = call[c].token /\ v.caller = call[c].caller /\ v.request = call[c].request
          /\ v.at = call[c].at /\ v.row = row
      BY <3>1 DEF Underway
    <3>6. Bound(v)
      BY <3>3, <3>4, <3>5 DEF Bound
    <3>7. minted' = minted /\ call' = [call EXCEPT ![c] = v]
      BY <1>4, <2>2 DEF ReadBills
    <3>8. \A d \in Calls : call'[d] = v \/ call'[d] = call[d]
      BY <3>7, <1>0 DEF WriteToolsTypeOK
    <3>9. \A d \in Calls : call'[d] # NoCall => Bound(call'[d])
      BY <3>6, <3>8, <1>0 DEF AdmittedHonestly
    <3>10. QED
      BY <3>7, <3>9 DEF ConfirmInv, MintedHonestly, AdmittedHonestly, Bound
  <2>3. QED
    BY <2>1, <2>2
<1>5. ASSUME NEW c \in Calls, PerformClose(c) \/ PerformReopen(c) \/ PerformRegister(c) \/ CallFails(c)
      PROVE  MintedHonestly' /\ AdmittedHonestly'
  BY <1>5, <1>0, NoNewCallBinds
     DEF PerformClose, PerformReopen, PerformRegister, Performing, CallFails, WriteToolsTypeOK
<1>6. ASSUME UNCHANGED <<minted, call>> PROVE MintedHonestly' /\ AdmittedHonestly'
  BY <1>6, NoNewCallBinds
<1>7. QED
  BY <1>1, <1>2, <1>3, <1>4, <1>5, <1>6
     DEF WriteToolsNext, PreviewClose, PreviewReopen, PreviewPrice, RunbookCloses, RunbookReopens,
         PriceIsStamped, TraceArrives, TimePasses, tools

(* "Confirm something the user never saw" is impossible (confirmation.ts): *)
(* for every number of months, callers and calls under way, a confirming   *)
(* call that goes on to its write does what a preview showed to that very  *)
(* caller, within the token's window, the month standing at the numbers    *)
(* shown when the call looked.                                             *)
THEOREM Confirmed == WriteToolsSpec => []ConfirmedAsPreviewed
<1>1. WriteToolsInit => ConfirmInv
  BY WriteToolsAssumption
     DEF WriteToolsInit, ConfirmInv, WriteToolsTypeOK, Month, MintedHonestly, AdmittedHonestly
<1>2. ConfirmInv => ConfirmedAsPreviewed
  BY DEF ConfirmInv, AdmittedHonestly, Bound, ConfirmedAsPreviewed, NoCall
<1>3. QED
  BY <1>1, <1>2, ConfirmNext, PTL DEF WriteToolsSpec

-----------------------------------------------------------------------------
(* SessionDoor: what the claims open. *)

\* A caller who reaches what needs more reaches what needs less.
LEMMA ReachesLess ==
  ASSUME NEW caller, NEW need, NEW less, Reaches(caller, need),
         less.abilities \subseteq need.abilities, less.capabilities \subseteq need.capabilities,
         less.masterOnly => need.masterOnly
  PROVE  Reaches(caller, less)
  BY DEF Reaches

LEMMA NeedsOfWrites ==
  ASSUME NEW n \in Writes
  PROVE  n \in DOMAIN ToolNeeds /\ ToolNeeds[n] = BillingWrite
         /\ n \notin DOMAIN PromptNeeds /\ n \notin DOMAIN ResourceNeeds
  BY DEF Writes, ToolNeeds, PromptNeeds, ResourceNeeds, BillingTools, TracingTools, Previews

LEMMA NeedsOfPlaybooks ==
  ASSUME NEW pair \in PromptCalls
  PROVE  /\ pair[1] \in DOMAIN PromptNeeds
         /\ pair[1] \notin DOMAIN ToolNeeds /\ pair[1] \notin DOMAIN ResourceNeeds
         /\ pair[1] \notin DOMAIN RouteNeeds
         /\ ToolNeeds[pair[2]].abilities \subseteq PromptNeeds[pair[1]].abilities
         /\ ToolNeeds[pair[2]].capabilities \subseteq PromptNeeds[pair[1]].capabilities
         /\ ToolNeeds[pair[2]].masterOnly => PromptNeeds[pair[1]].masterOnly
<1> USE DEF Billing, BillingWrite, Tracing, CostAndExecutions
<1>1. CASE pair \in {"explain-bill"} \X {"get_billing_summary"}
  BY <1>1 DEF ToolNeeds, PromptNeeds, ResourceNeeds, RouteNeeds, BillingTools, TracingTools, Previews, Writes
<1>2. CASE pair \in {"find-cost-driver"} \X {"get_billing_summary", "get_billing_series", "list_sessions",
                                             "get_session", "get_trace"}
  BY <1>2 DEF ToolNeeds, PromptNeeds, ResourceNeeds, RouteNeeds, BillingTools, TracingTools, Previews, Writes
<1>3. CASE pair \in {"register-price"} \X {"list_prices", "preview_register_price", "register_price"}
  BY <1>3 DEF ToolNeeds, PromptNeeds, ResourceNeeds, RouteNeeds, BillingTools, TracingTools, Previews, Writes
<1>4. CASE pair \in {"close-month"} \X {"list_bills", "preview_close_billing_period", "close_billing_period"}
  BY <1>4 DEF ToolNeeds, PromptNeeds, ResourceNeeds, RouteNeeds, BillingTools, TracingTools, Previews, Writes
<1>5. QED
  BY <1>1, <1>2, <1>3, <1>4 DEF PromptCalls

\* What DoorHonest asks of a request that was served.
Deserved(r) ==
  /\ r.token.tenant = Tenant /\ AudienceFits(r)
  /\ r.asks \in Writes \cup {"POST /prices"} => r.token.role = "master"
  /\ \A pair \in PromptCalls : pair[1] = r.asks => Reaches(CallerOf(r.token), ToolNeeds[pair[2]])

LEMMA EntitledDeserves ==
  ASSUME NEW r \in SessionRequests, ClaimsOk(r), Entitled(r)
  PROVE  Deserved(r)
<1>1. r.token.tenant = Tenant /\ AudienceFits(r)
  BY DEF ClaimsOk
<1>2. r.at = "api" \/ r.at = "mcp"
  BY SessionDoorAssumption
<1>3. CASE r.at = "api"
  <2>1. r.asks \in DOMAIN RouteNeeds /\ Opens(r.token, RouteNeeds[r.asks])
    BY <1>3, RoutesAssumption DEF Entitled
  <2>2. r.asks \notin Writes
    BY <2>1 DEF RouteNeeds, Writes
  <2>3. r.asks = "POST /prices" => r.token.role = "master"
    BY <2>1 DEF RouteNeeds, Opens, BillingWrite, Billing
  <2>4. QED
    BY <1>1, <2>1, <2>2, <2>3, NeedsOfPlaybooks DEF Deserved
<1>4. CASE r.at = "mcp"
  <2> DEFINE caller == CallerOf(r.token)
  <2>1. PICK needs \in {ToolNeeds, PromptNeeds, ResourceNeeds} :
          r.asks \in DOMAIN needs /\ Reaches(caller, needs[r.asks])
    BY <1>4 DEF Entitled, SurfaceFor
  <2>2. r.asks \in Writes => r.token.role = "master"
    <3>1. ASSUME r.asks \in Writes PROVE Reaches(caller, BillingWrite)
      BY <2>1, <3>1, NeedsOfWrites
    <3>2. QED
      BY <3>1 DEF Reaches, BillingWrite, Billing, CallerOf
  <2>3. r.asks # "POST /prices"
    BY <2>1 DEF ToolNeeds, PromptNeeds, ResourceNeeds, BillingTools, TracingTools, Previews, Writes
  <2>4. ASSUME NEW pair \in PromptCalls, pair[1] = r.asks
        PROVE  Reaches(caller, ToolNeeds[pair[2]])
    <3>1. Reaches(caller, PromptNeeds[pair[1]])
      BY <2>1, <2>4, NeedsOfPlaybooks
    <3>2. QED
      BY <3>1, NeedsOfPlaybooks, ReachesLess
  <2>5. QED
    BY <1>1, <2>2, <2>3, <2>4 DEF Deserved
<1>5. QED
  BY <1>2, <1>3, <1>4

-----------------------------------------------------------------------------
(* Types. *)

LEMMA VisitsAreNotIdle ==
  /\ NoVisit \notin Visits
  /\ \A v \in Visits : v.pc # "idle"
  BY DEF NoVisit, Visits

LEMMA TypeInit == DoorInit => DoorTypeOK
  BY SessionDoorAssumption DEF DoorInit, DoorTypeOK, NoFetch

LEMMA TypeNext == DoorTypeOK /\ [DoorNext]_door => DoorTypeOK'
<1> SUFFICES ASSUME DoorTypeOK, [DoorNext]_door PROVE DoorTypeOK'
  OBVIOUS
<1> USE DEF DoorTypeOK
<1>1. ASSUME NEW h \in Handlers, NEW request \in SessionRequests, ArriveAt(h, request) PROVE DoorTypeOK'
  <2>1. [pc |-> IF OriginRefused(request) THEN "forbidden" ELSE "current", request |-> request,
         keys |-> {}, steady |-> published, excuse |-> FALSE] \in Visits
    BY DEF Visits
  <2>2. QED
    BY <1>1, <2>1 DEF ArriveAt
<1>2. ASSUME NEW h \in Handlers, UseCached(h) PROVE DoorTypeOK'
  <2>1. visit[h] \in Visits
    BY <1>2 DEF UseCached, NoVisit
  <2>2. [visit[h] EXCEPT !.pc = "verify", !.keys = keySet] \in Visits
    BY <1>2, <2>1 DEF UseCached, Visits
  <2>3. QED
    BY <1>2, <2>2 DEF UseCached
<1>3. ASSUME NEW h \in Handlers, Refresh(h) PROVE DoorTypeOK'
  <2>1. visit[h] \in Visits
    BY <1>3 DEF Refresh, NoVisit
  <2>2. [visit[h] EXCEPT !.pc = IF @ = "current" THEN "waiting" ELSE "waitingAgain",
                         !.excuse = (fetch.pc = "answered")] \in Visits
    BY <2>1 DEF Visits
  <2>3. visit' \in [Handlers -> {NoVisit} \cup Visits]
    BY <1>3, <2>2 DEF Refresh
  <2>4. fetch' \in [pc : {"none", "asked", "answered"}, keys : SUBSET Kids]
    BY <1>3 DEF Refresh
  <2>5. QED
    BY <1>3, <2>3, <2>4 DEF Refresh
<1>4. ASSUME NEW h \in Handlers, VerifyToken(h) PROVE DoorTypeOK'
  <2>1. visit[h] \in Visits
    BY <1>4 DEF VerifyToken, NoVisit
  <2>2. [visit[h] EXCEPT !.pc = Verdict(visit[h])] \in Visits
    BY <2>1 DEF Visits, Verdict, UnknownKid
  <2>3. QED
    BY <1>4, <2>2 DEF VerifyToken
<1>5. ASSUME NEW h \in Handlers, Leave(h) PROVE DoorTypeOK'
  BY <1>5 DEF Leave
<1>6. CASE IssuerAnswers
  BY <1>6 DEF IssuerAnswers
<1>7. CASE FetchLands
  <2>1. \A h \in Waiting : visit[h] \in Visits
    BY DEF Waiting, NoVisit
  <2>2. \A h \in Waiting : [visit[h] EXCEPT !.pc = IF @ = "waiting" THEN "verify" ELSE "verifyAgain",
                                             !.keys = fetch.keys] \in Visits
    BY <2>1 DEF Visits
  <2>3. visit' \in [Handlers -> {NoVisit} \cup Visits]
    BY <1>7, <2>2 DEF FetchLands
  <2>4. QED
    BY <1>7, <2>3 DEF FetchLands, NoFetch
<1>8. CASE FetchFails
  <2>1. \A h \in Waiting : visit[h] \in Visits
    BY DEF Waiting, NoVisit
  <2>2. \A h \in Waiting : [visit[h] EXCEPT !.pc = "refused", !.excuse = TRUE] \in Visits
    BY <2>1 DEF Visits
  <2>3. visit' \in [Handlers -> {NoVisit} \cup Visits]
    BY <1>8, <2>2 DEF FetchFails
  <2>4. QED
    BY <1>8, <2>3 DEF FetchFails, NoFetch
<1>9. ASSUME NEW k \in Kids, PublishKey(k) PROVE DoorTypeOK'
  BY <1>9 DEF PublishKey
<1>10. ASSUME NEW k \in Kids, RetireKey(k) PROVE DoorTypeOK'
  <2>1. \A h \in Handlers : visit[h] # NoVisit => [visit[h] EXCEPT !.steady = @ \ {k}] \in Visits
    BY DEF Visits
  <2>2. visit' \in [Handlers -> {NoVisit} \cup Visits]
    BY <1>10, <2>1 DEF RetireKey
  <2>3. QED
    BY <1>10, <2>2 DEF RetireKey
<1>11. CASE ClockTicks
  BY <1>11, SessionDoorAssumption DEF ClockTicks
<1>12. CASE UNCHANGED door
  BY <1>12 DEF door
<1>13. QED
  BY <1>1, <1>2, <1>3, <1>4, <1>5, <1>6, <1>7, <1>8, <1>9, <1>10, <1>11, <1>12 DEF DoorNext

(* Every variable of the door keeps its type: the state of a visit, of the *)
(* shared fetch and of the cached set (session-claims-verifier.ts,         *)
(* jwks-key-source.ts).                                                    *)
THEOREM DoorTypeCorrect == DoorSpec => []DoorTypeOK
  BY TypeInit, TypeNext, PTL DEF DoorSpec

-----------------------------------------------------------------------------
(* Honesty. What a visit has to hold at each step for its answer to be     *)
(* honest: the keys it may count on are published, in the fetch it waits   *)
(* for once that is answered, and in the set of its last verification.     *)

HonestVisit(h) ==
  LET v == visit[h] IN
  v # NoVisit =>
    /\ v.steady \subseteq published
    /\ v.pc \in {"waiting", "waitingAgain"} /\ ~v.excuse /\ fetch.pc = "answered"
         => v.steady \subseteq fetch.keys
    /\ v.pc = "verifyAgain" /\ ~v.excuse => v.steady \subseteq v.keys
    /\ v.pc = "served" => Deserved(v.request)
    /\ v.pc = "refused" /\ ClaimsOk(v.request) /\ v.request.token.kid \in v.steady => v.excuse

DoorsHonest == \A h \in Handlers : HonestVisit(h)

\* Claims that are good now were good before.
LEMMA ClaimsAge ==
  ASSUME DoorTypeOK, now' = now \/ ClockTicks, NEW r \in SessionRequests, ClaimsOk(r)'
  PROVE  ClaimsOk(r)
<1>1. now \in Int /\ now <= now' /\ now' \in Int
  BY SessionDoorAssumption DEF DoorTypeOK, ClockTicks
<1>2. r.token.exp \in Int
  BY SessionDoorAssumption
<1>3. ~(now' >= r.token.exp)
  BY DEF ClaimsOk, Expired
<1>4. ~(now >= r.token.exp)
  BY <1>1, <1>2, <1>3
<1>5. QED
  BY <1>4 DEF ClaimsOk, AudienceFits, Expired

LEMMA HonestNext ==
  ASSUME DoorTypeOK, DoorsHonest, [DoorNext]_door
  PROVE  DoorsHonest'
<1> SUFFICES ASSUME NEW g \in Handlers, visit'[g] # NoVisit PROVE HonestVisit(g)'
  BY DEF DoorsHonest, HonestVisit
<1> USE DEF DoorTypeOK
<1>1. HonestVisit(g)
  BY DEF DoorsHonest
<1>2. visit[g] # NoVisit => visit[g] \in Visits
  OBVIOUS
\* What is unchanged of a visit stays honest.
<1>3. ASSUME visit'[g] = visit[g], fetch' = fetch \/ fetch'.pc # "answered",
             published \subseteq published', now' = now \/ ClockTicks
      PROVE  HonestVisit(g)'
  <2>1. visit[g] \in Visits /\ visit[g].request \in SessionRequests
    BY <1>2, <1>3 DEF Visits
  <2>2. ClaimsOk(visit[g].request)' => ClaimsOk(visit[g].request)
    BY <1>3, <2>1, ClaimsAge
  <2>3. QED
    BY <1>1, <1>3, <2>1, <2>2 DEF HonestVisit
<1>4. ASSUME NEW h \in Handlers, NEW request \in SessionRequests, ArriveAt(h, request) PROVE HonestVisit(g)'
  <2>1. CASE g # h
    BY <1>3, <1>4, <2>1 DEF ArriveAt
  <2>2. CASE g = h
    BY <1>4, <2>2 DEF ArriveAt, HonestVisit
  <2>3. QED
    BY <2>1, <2>2
<1>5. ASSUME NEW h \in Handlers, UseCached(h) PROVE HonestVisit(g)'
  <2>1. CASE g # h
    BY <1>3, <1>5, <2>1 DEF UseCached
  <2>2. CASE g = h
    BY <1>1, <1>2, <1>5, <2>2 DEF UseCached, HonestVisit, Visits, NoVisit
  <2>3. QED
    BY <2>1, <2>2
<1>6. ASSUME NEW h \in Handlers, Refresh(h) PROVE HonestVisit(g)'
  <2>1. fetch' = fetch \/ fetch'.pc # "answered"
    BY <1>6 DEF Refresh
  <2>2. CASE g # h
    BY <1>3, <1>6, <2>1, <2>2 DEF Refresh
  <2>3. CASE g = h
    <3>1. visit[g] # NoVisit /\ visit[g] \in Visits
      BY <1>2, <1>6, <2>3 DEF Refresh, NoVisit
    <3>2. visit'[g].pc \in {"waiting", "waitingAgain"} /\ visit'[g].steady = visit[g].steady
          /\ (visit'[g].excuse <=> fetch.pc = "answered")
      BY <1>6, <2>3, <3>1 DEF Refresh, Visits
    <3>3. fetch'.pc = "answered" => fetch.pc = "answered"
      BY <1>6 DEF Refresh
    <3>4. visit'[g].steady \subseteq published'
      BY <1>1, <1>6, <3>1, <3>2 DEF Refresh, HonestVisit
    <3>5. QED
      BY <3>2, <3>3, <3>4 DEF HonestVisit
  <2>4. QED
    BY <2>2, <2>3
<1>7. ASSUME NEW h \in Handlers, VerifyToken(h) PROVE HonestVisit(g)'
  <2>1. CASE g # h
    BY <1>3, <1>7, <2>1 DEF VerifyToken
  <2>2. CASE g = h
    <3> DEFINE v == visit[g]
               r == visit[g].request
    <3>1. v # NoVisit /\ v \in Visits /\ v.pc \in {"verify", "verifyAgain"}
      BY <1>2, <1>7, <2>2 DEF VerifyToken, NoVisit
    <3>2. visit'[g] = [v EXCEPT !.pc = Verdict(v)]
      BY <1>7, <2>2, <3>1 DEF VerifyToken
    <3>3. r \in SessionRequests
      BY <3>1 DEF Visits
    <3>4. ASSUME Verdict(v) = "served" PROVE Deserved(r)
      <4>1. ClaimsOk(r) /\ Entitled(r)
        BY <3>4 DEF Verdict, UnknownKid
      <4>2. QED
        BY <3>3, <4>1, EntitledDeserves
    <3>5. ASSUME Verdict(v) = "refused", ClaimsOk(r), r.token.kid \in v.steady PROVE v.excuse
      <4>1. r.token.kid \notin v.keys /\ v.pc # "verify"
        BY <3>5 DEF Verdict, UnknownKid
      <4>2. QED
        BY <1>1, <3>1, <3>5, <4>1 DEF HonestVisit
    <3>6. ClaimsOk(r)' => ClaimsOk(r)
      BY <1>7, <3>3, ClaimsAge DEF VerifyToken
    <3>7. Verdict(v) \in {"unknown", "refused", "served", "forbidden"}
      BY DEF Verdict, UnknownKid
    <3>8. /\ visit'[g].pc = Verdict(v) /\ visit'[g].request = r /\ visit'[g].steady = v.steady
          /\ visit'[g].excuse = v.excuse
      BY <3>1, <3>2 DEF Visits
    <3>9. v.steady \subseteq published'
      BY <1>1, <1>7, <3>1 DEF VerifyToken, HonestVisit
    <3>10. QED
      BY <3>4, <3>5, <3>6, <3>7, <3>8, <3>9 DEF HonestVisit
  <2>3. QED
    BY <2>1, <2>2
<1>8. ASSUME NEW h \in Handlers, Leave(h) PROVE HonestVisit(g)'
  <2>1. g # h
    BY <1>8 DEF Leave
  <2>2. QED
    BY <1>3, <1>8, <2>1 DEF Leave
<1>9. CASE IssuerAnswers
  BY <1>1, <1>2, <1>9 DEF IssuerAnswers, HonestVisit, ClaimsOk, Expired, AudienceFits, Visits
<1>10. CASE FetchLands
  <2>1. CASE g \notin Waiting
    BY <1>3, <1>10, <2>1 DEF FetchLands, NoFetch
  <2>2. CASE g \in Waiting
    <3>1. visit[g] # NoVisit /\ visit[g] \in Visits
      BY <1>2, <2>2 DEF Waiting, NoVisit
    <3>2. /\ visit'[g].pc \in {"verify", "verifyAgain"} /\ visit'[g].keys = fetch.keys
          /\ visit'[g].steady = visit[g].steady /\ visit'[g].excuse = visit[g].excuse
      BY <1>10, <2>2, <3>1 DEF FetchLands, Visits
    <3>3. visit[g].pc \in {"waiting", "waitingAgain"} /\ fetch.pc = "answered"
      BY <1>10, <2>2 DEF Waiting, FetchLands
    <3>4. QED
      BY <1>1, <1>10, <3>1, <3>2, <3>3 DEF HonestVisit, FetchLands
  <2>3. QED
    BY <2>1, <2>2
<1>11. CASE FetchFails
  <2>1. CASE g \notin Waiting
    BY <1>3, <1>11, <2>1 DEF FetchFails, NoFetch
  <2>2. CASE g \in Waiting
    <3>1. visit[g] # NoVisit /\ visit[g] \in Visits
      BY <1>2, <2>2 DEF Waiting, NoVisit
    <3>2. visit'[g].pc = "refused" /\ visit'[g].excuse = TRUE /\ visit'[g].steady = visit[g].steady
      BY <1>11, <2>2, <3>1 DEF FetchFails, Visits
    <3>3. QED
      BY <1>1, <1>11, <3>1, <3>2 DEF HonestVisit, FetchFails
  <2>3. QED
    BY <2>1, <2>2
<1>12. ASSUME NEW k \in Kids, PublishKey(k) PROVE HonestVisit(g)'
  BY <1>3, <1>12 DEF PublishKey
<1>13. ASSUME NEW k \in Kids, RetireKey(k) PROVE HonestVisit(g)'
  <2>1. visit[g] # NoVisit /\ visit[g] \in Visits
    BY <1>2, <1>13 DEF RetireKey
  <2>2. /\ visit'[g].steady = visit[g].steady \ {k} /\ visit'[g].pc = visit[g].pc
        /\ visit'[g].keys = visit[g].keys /\ visit'[g].request = visit[g].request
        /\ visit'[g].excuse = visit[g].excuse
    BY <1>13, <2>1 DEF RetireKey, Visits
  <2>3. ClaimsOk(visit[g].request)' => ClaimsOk(visit[g].request)
    BY <1>13, <2>1, ClaimsAge DEF RetireKey, Visits
  <2>4. QED
    BY <1>1, <1>13, <2>1, <2>2, <2>3 DEF HonestVisit, RetireKey
<1>14. CASE ClockTicks
  BY <1>3, <1>14 DEF ClockTicks
<1>15. CASE UNCHANGED door
  BY <1>3, <1>15 DEF door
<1>16. QED
  BY <1>4, <1>5, <1>6, <1>7, <1>8, <1>9, <1>10, <1>11, <1>12, <1>13, <1>14, <1>15 DEF DoorNext

(* Fail closed, and only then (session-claims-verifier.ts, auth-gate.ts,   *)
(* jwks-key-source.ts): for every number of keys, handlers and requests,   *)
(* what a door serves its caller was entitled to, and a token good for its *)
(* request, whose key stood published all the while, is refused only after *)
(* a fetch that failed or had been answered before it arrived.             *)
THEOREM DoorIsHonest == DoorSpec => []DoorHonest
<1>1. DoorInit => DoorsHonest
  BY DEF DoorInit, DoorsHonest, HonestVisit
<1>2. DoorTypeOK /\ DoorsHonest => DoorHonest
  <2> SUFFICES ASSUME DoorTypeOK, DoorsHonest, NEW h \in Handlers
               PROVE  /\ visit[h].pc = "served" => Deserved(visit[h].request)
                      /\ visit[h].pc = "refused" /\ ClaimsOk(visit[h].request)
                         /\ visit[h].request.token.kid \in visit[h].steady => visit[h].excuse
    BY DEF DoorHonest, Deserved
  <2>1. visit[h].pc \in {"served", "refused"} => visit[h] # NoVisit
    BY DEF NoVisit
  <2>2. QED
    BY <2>1 DEF DoorsHonest, HonestVisit
<1>3. QED
  BY <1>1, <1>2, TypeInit, TypeNext, HonestNext, PTL DEF DoorSpec

-----------------------------------------------------------------------------
(* BillList. *)

(***************************************************************************)
(* The property firstOpenMonthStart promises: a month that is not closed,  *)
(* and not older than the earliest trace, is not behind the bound.         *)
(***************************************************************************)
LEMMA BoundKeepsOpenMonths ==
  ASSUME NEW docs, NEW earliest \in 1..NoMonth,
         NEW m \in Months, docs[m] # "closed", earliest <= m
  PROVE  m >= FirstOpenMonth(docs, earliest)
<1> DEFINE Walk == {o \in 1..NoMonth : o >= Anchor(docs, earliest) /\ o \notin ClosedIn(docs)}
<1> USE CalendarAssumption
<1>1. Anchor(docs, earliest) <= earliest
  <2>1. ClosedIn(docs) \cup {earliest} \in SUBSET Nat
    BY DEF ClosedIn, Months
  <2>2. QED
    BY <2>1, MinOfNat DEF Anchor
<1>2. Anchor(docs, earliest) \in Nat
  <2>1. ClosedIn(docs) \cup {earliest} \in SUBSET Nat
    BY DEF ClosedIn, Months
  <2>2. QED
    BY <2>1, MinOfNat DEF Anchor
<1>3. m \in Walk
  BY <1>1, <1>2 DEF Months, NoMonth, ClosedIn
<1>4. Walk \cup ReopenedIn(docs) \in SUBSET Nat
  BY DEF ReopenedIn, Months, NoMonth
<1>5. Min(Walk \cup ReopenedIn(docs)) <= m
  BY <1>3, <1>4, MinOfNat
<1>6. Min(Walk \cup ReopenedIn(docs)) \in Nat
  BY <1>3, <1>4, MinOfNat
<1>7. QED
  BY <1>5, <1>6 DEF FirstOpenMonth, Months, NoMonth

(***************************************************************************)
(* The inductive invariant.                                                *)
(***************************************************************************)

\* Traces are never deleted and time does not run back.
ThereInv == \A m \in there : m \in traced /\ m <= ended + 1

\* The anchor was read after the call began, so nothing in there is older.
AnchorInv ==
  list.pc # "idle" /\ list.earliest # 0 => \A m \in there : list.earliest <= m

ReadInv ==
  /\ list.pc = "idle" => list.docs = NoDocs /\ list.earliest = 0
  /\ list.docs # NoDocs => list.docs \in [Months -> Statuses]
  /\ list.pc = "scan" => list.docs \in [Months -> Statuses] /\ list.earliest # 0

\* From the scan on, every month that was there is in the answer.
ShownInv ==
  list.pc \in {"probe", "done", "failed"} =>
    there \subseteq list.shown /\ list.todo \cap there = {}

IInv == TypeOK /\ ThereInv /\ AnchorInv /\ ReadInv /\ ShownInv

USE CalendarAssumption DEF CalendarAssumption

\* An idle call has read nothing.
LEMMA InitInv == Init => IInv
BY DEF Init, CalendarInit, IInv, TypeOK, CalendarTypeOK, ListStates, NoDocs, Statuses,
       Months, NoMonth, ThereInv, AnchorInv, ReadInv, ShownInv

\* What the scan decides: of the months that were there, the closed ones come
\* from their snapshots and the others from a row of the bounded scan.
LEMMA ScanKeeps ==
  ASSUME IInv, list.pc = "scan", NEW m \in there
  PROVE  m \in Rows \cup ClosedIn(list.docs)
<1>1. m \in Months /\ list.earliest \in 1..NoMonth /\ list.earliest <= m
  BY DEF IInv, TypeOK, ListStates, AnchorInv, ReadInv, NoMonth, Months
<1>2. CASE list.docs[m] = "closed"
  BY <1>1, <1>2 DEF ClosedIn
<1>3. CASE list.docs[m] # "closed"
  <2>1. m >= FirstOpenMonth(list.docs, list.earliest)
    BY <1>1, <1>3, BoundKeepsOpenMonths
  <2>2. m \in traced /\ ~Future(m)
    BY <1>1 DEF IInv, ThereInv, Future, TypeOK, CalendarTypeOK, Months
  <2>3. QED
    BY <2>1, <2>2 DEF Rows
<1>4. QED
  BY <1>2, <1>3

\* The months of a list only recede into the past.
LEMMA Later ==
  ASSUME NEW m \in Nat, NEW a \in Int, NEW b \in Int, m <= a + 1, a <= b
  PROVE  m <= b + 1
OBVIOUS

\* Every step of the calendar and of the list preserves the invariant.
LEMMA StepInv == IInv /\ [Next]_vars => IInv'
<1> SUFFICES ASSUME IInv, [Next]_vars PROVE IInv'
  OBVIOUS
<1>a. there \subseteq Months /\ traced \subseteq Months /\ ended \in 0..LastMonth
  BY DEF IInv, TypeOK, CalendarTypeOK
<1>b. Months \subseteq Nat /\ NoMonth \in Nat /\ \A m \in Months : m <= NoMonth
  BY DEF Months, NoMonth
<1>c. \A m \in there : m \in traced /\ m <= ended + 1
  BY DEF IInv, ThereInv
<1> USE DEF IInv, TypeOK, CalendarTypeOK, ThereInv, AnchorInv, ReadInv, ShownInv
<1>1. CASE CalendarNext /\ UNCHANGED reader
  <2>1. CalendarTypeOK' /\ traced \subseteq traced' /\ ended <= ended'
    <3>1. CASE MonthEnds
      BY <3>1 DEF MonthEnds
    <3>2. CASE \E m \in Months : Arrive(m)
      BY <3>2 DEF Arrive
    <3>3. CASE \E m \in Months : CloseMonth(m) \/ ReopenMonth(m)
      BY <3>3 DEF CloseMonth, ReopenMonth, Statuses
    <3>4. QED
      BY <1>1, <3>1, <3>2, <3>3 DEF CalendarNext
  <2>2. list' = list /\ there' = there
    BY <1>1 DEF reader
  <2>3. ThereInv'
    <3>1. \A m \in there : m \in traced' /\ m \in Nat
      BY <1>a, <1>b, <1>c, <2>1
    <3>2. ended \in Int /\ ended' \in Int /\ ended <= ended'
      BY <1>a, <2>1
    <3>3. \A m \in there : m <= ended' + 1
      BY <1>c, <3>1, <3>2, Later
    <3>4. QED
      BY <2>2, <3>1, <3>3
  <2>4. TypeOK' /\ AnchorInv' /\ ReadInv' /\ ShownInv'
    BY <2>1, <2>2
  <2>5. QED
    BY <2>3, <2>4
<1>2. CASE StartList
  <2>1. list' = [list EXCEPT !.pc = "read"] /\ there' = {m \in traced : m <= ended + 1}
        /\ list.pc = "idle" /\ UNCHANGED months
    BY <1>2 DEF StartList
  <2>2. list' \in ListStates
    BY <2>1 DEF ListStates
  <2>3. QED
    BY <2>1, <2>2 DEF months, ListStates
<1>3. CASE ReadDocs
  <2>1. list.pc = "read" /\ UNCHANGED <<months, there>>
        /\ list' = [list EXCEPT !.docs = doc, !.pc = IF list.earliest = 0 THEN "read" ELSE "scan"]
    BY <1>3 DEF ReadDocs
  <2>2. list' \in ListStates
    BY <2>1 DEF ListStates
  <2>3. QED
    BY <2>1, <2>2 DEF months, ListStates
<1>4. CASE ReadEarliest
  <2> DEFINE low == Min(traced \cup {NoMonth})
  <2>1. list.pc = "read" /\ UNCHANGED <<months, there>>
        /\ list' = [list EXCEPT !.earliest = low,
                                !.pc = IF list.docs = NoDocs THEN "read" ELSE "scan"]
    BY <1>4 DEF ReadEarliest
  <2>2. low \in 1..NoMonth /\ \A m \in traced : low <= m
    <3>1. NoMonth \in Nat \ {0} /\ traced \in SUBSET 1..NoMonth
      BY <1>a, CalendarAssumption DEF CalendarAssumption, CalendarTypeOK, Months, NoMonth
    <3>2. QED
      BY <3>1, EarliestTrace
  <2> HIDE DEF low
  <2>3. list' \in ListStates
    <3>1. low \in 0..NoMonth /\ list \in ListStates
      BY <2>2
    <3> HIDE DEF IInv, TypeOK
    <3>2. QED
      BY <2>1, <3>1 DEF ListStates
  <2>4. AnchorInv'
    BY <2>1, <2>2 DEF ListStates
  <2>5. ended' = ended /\ traced' = traced /\ doc' = doc
    BY <2>1 DEF months
  <2>6. TypeOK' /\ ThereInv'
    BY <2>1, <2>3, <2>5
  <2>7. low # 0 /\ list'.docs = list.docs /\ list'.earliest = low
        /\ list'.pc = (IF list.docs = NoDocs THEN "read" ELSE "scan")
    BY <2>1, <2>2 DEF ListStates, NoMonth
  <2>8. ReadInv' /\ ShownInv'
    BY <2>5, <2>7
  <2>9. QED
    BY <2>4, <2>6, <2>8
<1>5. CASE Scan
  <2>1. list.pc = "scan" /\ UNCHANGED <<months, there>>
        /\ list' = [list EXCEPT !.shown = Rows \cup ClosedIn(list.docs),
                                !.todo = Leftovers(Rows), !.pc = "probe"]
    BY <1>5 DEF Scan
  <2>2. Rows \subseteq traced /\ ClosedIn(list.docs) \subseteq Months
        /\ Leftovers(Rows) \subseteq Months
        /\ Leftovers(Rows) \cap (Rows \cup ClosedIn(list.docs)) = {}
    BY DEF Rows, ClosedIn, Leftovers, ReopenedIn
  <2>3. list' \in ListStates
    BY <2>1, <2>2 DEF ListStates
  <2>4. there \subseteq Rows \cup ClosedIn(list.docs)
    BY <2>1, ScanKeeps
  <2>5. QED
    BY <2>1, <2>2, <2>3, <2>4 DEF months, ListStates
<1>6. CASE Answer
  <2>1. list.pc = "probe" /\ list' = [list EXCEPT !.pc = "done"] /\ UNCHANGED <<months, there>>
    BY <1>6 DEF Answer
  <2>2. list' \in ListStates
    BY <2>1 DEF ListStates
  <2>3. QED
    BY <2>1, <2>2 DEF months, ListStates
<1>7. CASE \E m \in Months : ProbeLeftover(m)
  <2>1. PICK m \in Months : ProbeLeftover(m)
    BY <1>7
  <2>2. list.pc = "probe" /\ m \in list.todo /\ UNCHANGED <<months, there>>
    BY <2>1 DEF ProbeLeftover
  <2>3. CASE m \in traced
    <3>1. list' = [list EXCEPT !.pc = "failed", !.todo = {m}]
      BY <2>1, <2>3 DEF ProbeLeftover
    <3>2. list' \in ListStates
      BY <3>1 DEF ListStates
    <3>3. QED
      BY <2>2, <3>1, <3>2 DEF months, ListStates
  <2>4. CASE m \notin traced
    <3>1. list' = [list EXCEPT !.todo = @ \ {m}, !.shown = @ \cup {m}]
      BY <2>1, <2>4 DEF ProbeLeftover
    <3>2. list' \in ListStates
      BY <3>1 DEF ListStates
    <3>3. QED
      BY <2>2, <3>1, <3>2 DEF months, ListStates
  <2>5. QED
    BY <2>3, <2>4
<1>8. CASE UNCHANGED vars
  BY <1>8 DEF vars, months, reader, ListStates
<1>9. QED
  BY <1>1, <1>2, <1>3, <1>4, <1>5, <1>6, <1>7, <1>8 DEF Next, ListNext

(***************************************************************************)
(* The theorems.                                                           *)
(***************************************************************************)

\* The inductive invariant holds in every reachable state.
THEOREM Inductive == Spec => []IInv
<1>1. QED
  BY InitInv, StepInv, PTL DEF Spec

\* Every variable keeps its type, and no month is both shown and left to probe.
THEOREM TypeCorrect == Spec => []TypeOK
<1>1. IInv => TypeOK
  BY DEF IInv
<1>2. QED
  BY <1>1, Inductive, PTL

\* Whatever months close, reopen or fill up while a bill list is read, the list
\* answered by list() shows every month that carried a trace when it was asked
\* for, and a call that fails does so over a month that filled up meanwhile.
THEOREM Complete == Spec => []ListComplete
<1>1. IInv => ListComplete
  BY DEF IInv, ShownInv, ListComplete
<1>2. QED
  BY <1>1, Inductive, PTL

-----------------------------------------------------------------------------
(* BillingReaders: the invariant. *)

Purses == [billed : Nat, late : Nat, pending : Nat, pendingLate : Nat]

Phases == Asked \cup {"idle", "done", "failed"}

QueryStates ==
  [kind : Readers \cup {"none"}, month : Read, pc : Phases,
   docs : [Read -> {"unread", "absent", "open", "closed"}], anchor : 0..(LastRead + 1),
   total : [Read -> Nat \cup {-1}], split : [Read -> Nat \cup {-1}], todo : SUBSET Read,
   pending : Nat \cup {-1}, held : Nat \cup {-1}]

Histories ==
  [lives : [Read -> SUBSET Nat], frozen : [Read -> SUBSET Nat], moved : SUBSET Read,
   settled : BOOLEAN, moves : Nat]

BooksTyped ==
  /\ over \in Nat
  /\ period \in [Read -> {"absent", "open", "closed"}]
  /\ purse \in [Read -> Purses]
  /\ frozen \in [Read -> Seq(Nat)]
  /\ settling \in SUBSET Read

\* The bill of a closed month is what it charges unmarked, once its stragglers
\* are absorbed; until then it charges some of the marked ones too.
Balanced ==
  \A m \in Read :
    /\ period[m] = "closed" => frozen[m] # <<>>
    /\ period[m] = "closed" /\ m \notin settling => Current(m) = purse[m].billed
    /\ m \in settling => /\ period[m] = "closed"
                         /\ purse[m].billed <= Current(m) /\ Current(m) <= Live(m)

\* What the awaits of a summary have left behind.
SummaryShape ==
  query.kind = "summary" =>
    /\ \A m \in Read : /\ query.split[m] = -1
                       /\ m # query.month /\ query.pc # "done" => query.total[m] = -1
                       /\ m \notin {query.month, query.month - 1} => query.total[m] = -1
    /\ query.pc \in {"find", "statement"} /\ query.total[query.month] # -1 =>
         query.month > 1 /\ query.pending # -1 /\ query.held # -1
    /\ query.pc = "statement" => query.docs[Target] # "unread"
    /\ query.pc = "find" => query.docs[Target] = "unread"
    /\ query.held = -1 => \A m \in Read \ {query.month} : query.docs[m] = "unread"
    /\ query.total[query.month] = -1 \/ query.pc \in {"pending", "quarantine"} => query.held = -1
    /\ query.pc \in {"pending", "quarantine", "done"} => query.total[query.month] # -1
    /\ query.pc \in {"quarantine", "done"} => query.pending # -1
    /\ query.pc = "done" => query.held # -1

\* And those of the readers of many months.
ListShape ==
  /\ query.pc \in {"read", "rollup", "accrue"} => \A m \in Read : query.total[m] = -1 /\ query.split[m] = -1
  /\ query.pc = "read" => query.docs = Unread \/ \A m \in Read : query.docs[m] # "unread"
  /\ query.pc \in {"rollup", "models"} =>
       /\ \A m \in Read : query.docs[m] # "unread"
       /\ query.kind # "daily" => query.anchor # 0
  /\ query.pc \in {"models", "snapshots"} => query.todo \subseteq ClosedDocs(query.docs)
  /\ query.pc = "models" =>
       \A m \in Read : query.split[m] = -1 /\ (query.total[m] # -1 => query.docs[m] # "closed")

Shape ==
  /\ query.pc = "idle" => query = NoRead
  /\ query.pc \in {"find", "statement", "pending", "quarantine"} => query.kind = "summary"
  /\ query.pc \in {"read", "rollup"} => query.kind \in {"series", "daily", "bills"}
  /\ query.pc \in {"models", "snapshots"} => query.kind \in {"series", "bills"}
  /\ query.pc = "accrue" => query.kind = "projection"
  /\ query.kind = "projection" => query.docs = Unread
  /\ SummaryShape /\ ListShape

\* The history holds what the books say now, of whatever may be answered yet;
\* and nothing at all of a month before the earliest trace there was.
Followed ==
  query.pc \in Asked =>
    /\ \A m \in ByStamps(query) : Live(m) \in during.lives[m]
    /\ \A m \in ByBill(query) : Current(m) \in during.frozen[m]
    /\ query.anchor # 0 => \A m \in ByStamps(query) : m < query.anchor => 0 \in during.lives[m]
    /\ query.kind = "daily" =>
         /\ settling \subseteq during.moved
         /\ \A m \in Read : query.docs[m] = "closed" /\ m \notin during.moved => period[m] = "closed"

HonestTotal(m) ==
  query.total[m] # -1 =>
    CASE Frozen(m) /\ query.kind = "daily" ->
           m \notin during.moved => query.total[m] \in during.frozen[m]
      [] Frozen(m) /\ query.kind # "daily" -> query.total[m] \in during.frozen[m]
      [] OTHER -> query.total[m] \in during.lives[m]

HonestSplit(m) == query.split[m] # -1 => query.docs[m] # "closed" /\ query.split[m] \in during.lives[m]

Honest == \A m \in Read : HonestTotal(m) /\ HonestSplit(m)

\* When nothing happens meanwhile, what was read is what there is.
Undisturbed ==
  query.kind = "summary" /\ during.settled /\ during.moves = 0 =>
    /\ settling = {}
    /\ query.docs[query.month] = "unread" \/ query.docs[query.month] = period[query.month]
    /\ query.total[query.month] # -1 =>
         /\ query.docs[query.month] # "unread"
         /\ query.total[query.month] = IF Frozen(query.month) THEN Current(query.month) ELSE Live(query.month)
    /\ query.pending # -1 => query.pending = PendingPriceSummary(query.month, query.docs)
                             /\ query.total[query.month] # -1
    /\ query.held # -1 => query.held = Quarantined(query.month)

ReadersInv ==
  /\ BooksTyped /\ query \in QueryStates /\ during \in Histories
  /\ Balanced /\ Shape /\ Followed /\ Honest /\ Undisturbed

-----------------------------------------------------------------------------
(* Sums. *)

LEMMA SumsTyped ==
  ASSUME BooksTyped, NEW m \in Read
  PROVE  /\ purse[m] \in Purses /\ purse[m].billed \in Nat /\ purse[m].late \in Nat
         /\ purse[m].pending \in Nat /\ purse[m].pendingLate \in Nat
         /\ Live(m) \in Nat /\ Current(m) \in Nat /\ frozen[m] \in Seq(Nat)
         /\ PendingPriceSummary(m, query.docs) \in Nat /\ Quarantined(m) \in Nat
<1>1. /\ purse[m] \in Purses /\ purse[m].billed \in Nat /\ purse[m].late \in Nat
      /\ purse[m].pending \in Nat /\ purse[m].pendingLate \in Nat /\ frozen[m] \in Seq(Nat)
  BY DEF BooksTyped, Purses
<1>2. Current(m) \in Nat
  BY <1>1 DEF Current
<1>3. Live(m) \in Nat /\ Quarantined(m) \in Nat
  BY <1>1 DEF Live, Quarantined
<1>4. PendingPriceSummary(m, query.docs) \in Nat
  <2>1. (IF query.docs[m] = "closed" THEN 0 ELSE purse[m].pendingLate) \in Nat
    BY <1>1
  <2>2. QED
    BY <1>1, <2>1 DEF PendingPriceSummary
<1>5. QED
  BY <1>1, <1>2, <1>3, <1>4

LEMMA QueryTyped ==
  ASSUME query \in QueryStates
  PROVE  /\ query.kind \in Readers \cup {"none"} /\ query.month \in Read /\ query.pc \in Phases
         /\ query.docs \in [Read -> {"unread", "absent", "open", "closed"}]
         /\ query.anchor \in 0..(LastRead + 1)
         /\ query.total \in [Read -> Nat \cup {-1}] /\ query.split \in [Read -> Nat \cup {-1}]
         /\ query.todo \in SUBSET Read /\ query.pending \in Nat \cup {-1} /\ query.held \in Nat \cup {-1}
         /\ LastRead \in Nat /\ LastRead > 0 /\ 1 \in Read
  BY ReadersAssumption DEF QueryStates, Read

\* A month with stamps that the scan leaves out lies before the earliest trace
\* there was when the anchor was read.
LEMMA LeftOutIsEarly ==
  ASSUME query \in QueryStates, NEW m \in Read, query.docs[m] \notin {"closed", "unread"},
         query.anchor # 0, ~(m >= LiveFrom(query.docs, query.anchor))
  PROVE  m < query.anchor
<1> DEFINE docs == query.docs
           anchor == query.anchor
<1>1. LastRead \in Nat /\ anchor \in 1..(LastRead + 1) /\ m \in 1..LastRead
  BY QueryTyped DEF Read
<1>2. CASE ClosedDocs(docs) = {}
  BY <1>1, <1>2 DEF LiveFrom
<1>3. CASE ClosedDocs(docs) # {}
  <2> DEFINE low == Min(ClosedDocs(docs) \cup {anchor})
             scan == {n \in 1..(LastRead + 1) : n \notin ClosedDocs(docs) /\ n >= low}
                     \cup {n \in Read : docs[n] = "open"}
  <2> SUFFICES ASSUME ~(m < anchor) PROVE FALSE
    OBVIOUS
  <2>1. ClosedDocs(docs) \cup {anchor} \in SUBSET Nat
    BY <1>1 DEF ClosedDocs, Read
  <2>2. low \in Nat /\ low <= anchor
    BY <2>1, MinOfNat
  <2>3. m \in scan
    <3> HIDE DEF low
    <3>1. m >= low /\ m \notin ClosedDocs(docs) /\ m \in 1..(LastRead + 1)
      BY <1>1, <2>2 DEF ClosedDocs
    <3>2. QED
      BY <3>1
  <2>4. scan \in SUBSET Nat
    BY DEF Read
  <2>5. Min(scan) <= m
    <3> HIDE DEF scan
    <3>1. QED
      BY <2>3, <2>4, MinOfNat
  <2>6. LiveFrom(docs, anchor) = Min(scan)
    BY <1>3 DEF LiveFrom
  <2>7. Min(scan) \in Nat
    <3> HIDE DEF scan
    <3>1. QED
      BY <2>3, <2>4, MinOfNat
  <2>8. QED
    BY <1>1, <2>5, <2>6, <2>7
<1>4. QED
  BY <1>2, <1>3

-----------------------------------------------------------------------------
(* The books move under a query. *)

LEMMA BooksStep ==
  ASSUME ReadersInv, Unanswered, UNCHANGED query, BooksTyped', Balanced',
         NEW moved \in SUBSET Read, Follow(moved),
         settling' \subseteq settling \cup moved,
         \A m \in Read \ moved : period[m] = "closed" => period'[m] = "closed"
  PROVE  ReadersInv'
<1>1. BooksTyped /\ query \in QueryStates /\ during \in Histories
  BY DEF ReadersInv
<1>2. CASE query.pc \notin Asked
  <2>1. query = NoRead
    BY <1>2, <1>1, QueryTyped DEF ReadersInv, Shape, Unanswered, Phases
  <2>2. during' = during
    BY <1>2 DEF Follow
  <2>3. query.kind = "none" /\ query.pc = "idle" /\ \A m \in Read : query.total[m] = -1 /\ query.split[m] = -1
    BY <2>1 DEF NoRead, NoSums
  <2>4. Shape'
    BY <2>3, <2>1 DEF Shape, SummaryShape, ListShape, ReadersInv, NoRead, Unread, NoSums
  <2>5. Followed' /\ Honest' /\ Undisturbed'
    BY <1>2, <2>3 DEF Followed, Honest, HonestTotal, HonestSplit, Undisturbed
  <2>6. QED
    BY <1>1, <2>2, <2>4, <2>5 DEF ReadersInv
<1>3. CASE query.pc \in Asked
  <2>1. /\ \A m \in Read : during'.lives[m] = during.lives[m] \cup (Seen(query)').lives[m]
        /\ \A m \in Read : during'.frozen[m] = during.frozen[m] \cup (Seen(query)').frozen[m]
        /\ during'.moved = IF query.kind = "daily" THEN during.moved \cup moved ELSE {}
        /\ during'.settled = during.settled /\ during'.moves = during.moves + 1
    <3> DEFINE lives == [m \in Read |-> during.lives[m] \cup (Seen(query)').lives[m]]
               bills == [m \in Read |-> during.frozen[m] \cup (Seen(query)').frozen[m]]
    <3>1. during' = [lives |-> lives, frozen |-> bills,
                     moved |-> IF query.kind = "daily" THEN during.moved \cup moved ELSE {},
                     settled |-> during.settled, moves |-> during.moves + 1]
      BY <1>3 DEF Follow
    <3>2. \A m \in Read : lives[m] = during.lives[m] \cup (Seen(query)').lives[m]
                          /\ bills[m] = during.frozen[m] \cup (Seen(query)').frozen[m]
      OBVIOUS
    <3> HIDE DEF lives, bills
    <3>3. QED
      BY <3>1, <3>2
  <2>2. /\ ByStamps(query)' = ByStamps(query) /\ ByStamps(query) \subseteq Read
        /\ ByBill(query)' = ByBill(query) /\ ByBill(query) \subseteq Read
    BY DEF ByStamps, ByBill, Concerned
  <2>3. \A m \in Read : /\ (Seen(query)').lives[m] = IF m \in ByStamps(query) THEN {Live(m)'} ELSE {}
                        /\ (Seen(query)').frozen[m] = IF m \in ByBill(query) THEN {Current(m)'} ELSE {}
    BY <2>2 DEF Seen
  <2>4. \A m \in Read : /\ during.lives[m] \subseteq during'.lives[m]
                        /\ during.frozen[m] \subseteq during'.frozen[m]
                        /\ m \in ByStamps(query) => Live(m)' \in during'.lives[m]
                        /\ m \in ByBill(query) => Current(m)' \in during'.frozen[m]
    BY <2>1, <2>3
  <2>5. during' \in Histories
    <3>1. \A m \in Read : Live(m)' \in Nat /\ Current(m)' \in Nat
      BY DEF BooksTyped, Purses, Live, Current
    <3>2. during.lives \in [Read -> SUBSET Nat] /\ during.frozen \in [Read -> SUBSET Nat]
          /\ during.moved \in SUBSET Read /\ during.settled \in BOOLEAN /\ during.moves \in Nat
      BY <1>1 DEF Histories
    <3>3. \A m \in Read : during'.lives[m] \in SUBSET Nat /\ during'.frozen[m] \in SUBSET Nat
      <4> SUFFICES ASSUME NEW m \in Read
                   PROVE  during'.lives[m] \in SUBSET Nat /\ during'.frozen[m] \in SUBSET Nat
        OBVIOUS
      <4>1. (Seen(query)').lives[m] \subseteq Nat /\ (Seen(query)').frozen[m] \subseteq Nat
        BY <2>3, <3>1
      <4>2. during.lives[m] \subseteq Nat /\ during.frozen[m] \subseteq Nat
        BY <3>2
      <4>3. QED
        BY <2>1, <4>1, <4>2
    <3>4. during'.moved \in SUBSET Read /\ during'.settled \in BOOLEAN /\ during'.moves \in Nat
      BY <2>1, <3>2
    <3>5. during' = [lives |-> [m \in Read |-> during'.lives[m]], frozen |-> [m \in Read |-> during'.frozen[m]],
                     moved |-> during'.moved, settled |-> during'.settled, moves |-> during'.moves]
      BY <1>3 DEF Follow
    <3>6. [m \in Read |-> during'.lives[m]] \in [Read -> SUBSET Nat]
          /\ [m \in Read |-> during'.frozen[m]] \in [Read -> SUBSET Nat]
      BY <3>3
    <3>7. QED
      BY <3>4, <3>5, <3>6 DEF Histories
  <2>6. Shape'
    BY <2>2 DEF ReadersInv, Shape, SummaryShape, ListShape, Target, ClosedDocs
  <2>7. Followed'
    <3>1. Followed
      BY DEF ReadersInv
    <3>2. query.kind = "daily" =>
            /\ settling' \subseteq during'.moved
            /\ \A m \in Read : query.docs[m] = "closed" /\ m \notin during'.moved => period'[m] = "closed"
      BY <1>3, <2>1, <3>1 DEF Followed
    <3>3. query.anchor # 0 => \A m \in ByStamps(query) : m < query.anchor => 0 \in during'.lives[m]
      BY <1>3, <2>2, <2>4, <3>1 DEF Followed
    <3>4. QED
      BY <2>2, <2>4, <3>2, <3>3 DEF Followed
  <2>8. Honest'
    <3> SUFFICES ASSUME NEW m \in Read PROVE HonestTotal(m)' /\ HonestSplit(m)'
      BY DEF Honest
    <3>1. HonestTotal(m) /\ HonestSplit(m)
      BY DEF ReadersInv, Honest
    <3>2. query.kind = "daily" => during.moved \subseteq during'.moved
      BY <2>1
    <3>3. HonestSplit(m)'
      BY <2>4, <3>1 DEF HonestSplit
    <3>4. Frozen(m)' <=> Frozen(m)
      BY DEF Frozen
    <3>5. HonestTotal(m)'
      BY <2>4, <3>1, <3>2, <3>4 DEF HonestTotal
    <3>6. QED
      BY <3>3, <3>5
  <2>9. Undisturbed'
    <3>1. during'.moves # 0
      BY <1>1, <2>1 DEF Histories
    <3>2. QED
      BY <3>1 DEF Undisturbed
  <2>10. QED
    BY <1>1, <2>5, <2>6, <2>7, <2>8, <2>9 DEF ReadersInv
<1>4. QED
  BY <1>2, <1>3

\* What landed, or was priced, moves one trace in the purse of a month.
LEMMA LandMoves ==
  ASSUME BooksTyped, NEW m \in Read, NEW priced \in BOOLEAN, Land(m, priced)
  PROVE  /\ purse' \in [Read -> Purses]
         /\ \A n \in Read : n # m => purse'[n] = purse[n]
         /\ period[m] = "closed" => purse'[m].billed = purse[m].billed
         /\ purse[m].billed <= purse'[m].billed /\ purse[m].late <= purse'[m].late
<1>1. /\ purse \in [Read -> Purses] /\ purse[m] \in Purses
      /\ purse[m].billed \in Nat /\ purse[m].late \in Nat /\ purse[m].pending \in Nat /\ purse[m].pendingLate \in Nat
  BY SumsTyped DEF BooksTyped
<1>2. CASE period[m] = "closed" /\ priced
  <2> DEFINE p == [purse[m] EXCEPT !.late = purse[m].late + 1]
  <2>1. purse' = [purse EXCEPT ![m] = p]
    BY <1>1, <1>2 DEF Land
  <2>2. p \in Purses /\ p.billed = purse[m].billed /\ p.late = purse[m].late + 1
    BY <1>1 DEF Purses
  <2> HIDE DEF p
  <2>3. QED
    BY <1>1, <1>2, <2>1, <2>2
<1>3. CASE period[m] = "closed" /\ ~priced
  <2> DEFINE p == [purse[m] EXCEPT !.pendingLate = purse[m].pendingLate + 1]
  <2>1. purse' = [purse EXCEPT ![m] = p]
    BY <1>1, <1>3 DEF Land
  <2>2. p \in Purses /\ p.billed = purse[m].billed /\ p.late = purse[m].late
    BY <1>1 DEF Purses
  <2> HIDE DEF p
  <2>3. QED
    BY <1>1, <1>3, <2>1, <2>2
<1>4. CASE period[m] # "closed" /\ priced
  <2> DEFINE p == [purse[m] EXCEPT !.billed = purse[m].billed + 1]
  <2>1. purse' = [purse EXCEPT ![m] = p]
    BY <1>1, <1>4 DEF Land
  <2>2. p \in Purses /\ p.billed = purse[m].billed + 1 /\ p.late = purse[m].late
    BY <1>1 DEF Purses
  <2> HIDE DEF p
  <2>3. QED
    BY <1>1, <1>4, <2>1, <2>2
<1>5. CASE period[m] # "closed" /\ ~priced
  <2> DEFINE p == [purse[m] EXCEPT !.pending = purse[m].pending + 1]
  <2>1. purse' = [purse EXCEPT ![m] = p]
    BY <1>1, <1>5 DEF Land
  <2>2. p \in Purses /\ p.billed = purse[m].billed /\ p.late = purse[m].late
    BY <1>1 DEF Purses
  <2> HIDE DEF p
  <2>3. QED
    BY <1>1, <1>5, <2>1, <2>2
<1>6. QED
  BY <1>2, <1>3, <1>4, <1>5

LEMMA PricingMoves ==
  ASSUME BooksTyped, NEW m \in Read, PricePending(m)
  PROVE  /\ purse' \in [Read -> Purses]
         /\ \A n \in Read : n # m => purse'[n] = purse[n]
<1>1. /\ purse \in [Read -> Purses] /\ purse[m] \in Purses
      /\ purse[m].billed \in Nat /\ purse[m].late \in Nat /\ purse[m].pending \in Nat /\ purse[m].pendingLate \in Nat
  BY SumsTyped DEF BooksTyped
<1>2. CASE purse[m].pending > 0 /\ purse' = [purse EXCEPT ![m].pending = purse[m].pending - 1,
                                                         ![m].billed = purse[m].billed + 1]
  <2> DEFINE p == [purse[m] EXCEPT !.pending = purse[m].pending - 1, !.billed = purse[m].billed + 1]
  <2>1. purse' = [purse EXCEPT ![m] = p]
    BY <1>1, <1>2
  <2>2. p \in Purses
    BY <1>1, <1>2 DEF Purses
  <2> HIDE DEF p
  <2>3. QED
    BY <1>1, <2>1, <2>2
<1>3. CASE purse[m].pendingLate > 0 /\ purse' = [purse EXCEPT ![m].pendingLate = purse[m].pendingLate - 1,
                                                             ![m].late = purse[m].late + 1]
  <2> DEFINE p == [purse[m] EXCEPT !.pendingLate = purse[m].pendingLate - 1, !.late = purse[m].late + 1]
  <2>1. purse' = [purse EXCEPT ![m] = p]
    BY <1>1, <1>3
  <2>2. p \in Purses
    BY <1>1, <1>3 DEF Purses
  <2> HIDE DEF p
  <2>3. QED
    BY <1>1, <2>1, <2>2
<1>4. QED
  BY <1>1, <1>2, <1>3 DEF PricePending

LEMMA TurnKeeps ==
  ASSUME ReadersInv, Unanswered, Turn
  PROVE  ReadersInv'
<1>1. UNCHANGED <<period, purse, frozen, settling, query>> /\ over' = over + 1 /\ Follow({})
  BY DEF Turn
<1>2. BooksTyped' /\ Balanced'
  BY <1>1 DEF ReadersInv, BooksTyped, Balanced, Current, Live
<1>3. QED
  BY <1>1, <1>2, BooksStep

LEMMA LandKeeps ==
  ASSUME ReadersInv, Unanswered, NEW m \in Read, NEW priced \in BOOLEAN, Land(m, priced)
  PROVE  ReadersInv'
<1>1. UNCHANGED <<over, period, frozen, settling, query>> /\ Follow({})
  BY DEF Land
<1>2. BooksTyped /\ Balanced
  BY DEF ReadersInv
<1>3. /\ purse' \in [Read -> Purses] /\ \A n \in Read : n # m => purse'[n] = purse[n]
      /\ period[m] = "closed" => purse'[m].billed = purse[m].billed
      /\ purse[m].billed <= purse'[m].billed /\ purse[m].late <= purse'[m].late
  BY <1>2, LandMoves
<1>4. BooksTyped'
  BY <1>1, <1>2, <1>3 DEF BooksTyped
<1>5. Balanced'
  <2> SUFFICES ASSUME NEW n \in Read, period[n] = "closed"
               PROVE  /\ frozen[n] # <<>>
                      /\ n \notin settling => Current(n)' = purse'[n].billed
                      /\ n \in settling => purse'[n].billed <= Current(n)' /\ Current(n)' <= Live(n)'
    BY <1>1, <1>2 DEF Balanced
  <2>1. Current(n)' = Current(n) /\ purse'[n].billed = purse[n].billed /\ purse[n].late <= purse'[n].late
    <3>1. purse[n].late \in Nat
      BY <1>2, SumsTyped
    <3>2. QED
      BY <1>1, <1>3, <3>1 DEF Current
  <2>2. purse'[n].late \in Nat
    BY <1>3 DEF Purses
  <2>3. Live(n) <= Live(n)'
    BY <1>2, <2>1, <2>2, SumsTyped DEF Live
  <2>4. Live(n)' \in Nat /\ Live(n) \in Nat /\ Current(n) \in Nat
    <3>1. purse'[n].billed \in Nat
      BY <1>3 DEF Purses
    <3>2. QED
      BY <1>2, <2>2, <3>1, SumsTyped DEF Live
  <2>5. QED
    BY <1>2, <2>1, <2>3, <2>4 DEF Balanced
<1>6. QED
  BY <1>1, <1>4, <1>5, BooksStep

LEMMA PricePendingKeeps ==
  ASSUME ReadersInv, Unanswered, NEW m \in Read, PricePending(m)
  PROVE  ReadersInv'
<1>1. UNCHANGED <<over, period, frozen, settling, query>> /\ Follow({}) /\ period[m] # "closed"
  BY DEF PricePending
<1>2. BooksTyped /\ Balanced
  BY DEF ReadersInv
<1>3. purse' \in [Read -> Purses] /\ \A n \in Read : n # m => purse'[n] = purse[n]
  BY <1>2, PricingMoves
<1>4. BooksTyped'
  BY <1>1, <1>2, <1>3 DEF BooksTyped
<1>5. Balanced'
  BY <1>1, <1>2, <1>3 DEF Balanced, Current, Live
<1>6. QED
  BY <1>1, <1>4, <1>5, BooksStep

LEMMA ReopenBillKeeps ==
  ASSUME ReadersInv, Unanswered, NEW m \in Read, ReopenBill(m)
  PROVE  ReadersInv'
<1>1. /\ UNCHANGED <<over, purse, frozen, settling, query>> /\ Follow({m})
      /\ period' = [period EXCEPT ![m] = "open"] /\ m \notin settling
  BY DEF ReopenBill
<1>2. BooksTyped'
  BY <1>1 DEF ReadersInv, BooksTyped
<1>3. Balanced'
  BY <1>1 DEF ReadersInv, BooksTyped, Balanced, Current, Live
<1>4. \A n \in Read \ {m} : period'[n] = period[n]
  BY <1>1 DEF ReadersInv, BooksTyped
<1>5. QED
  BY <1>1, <1>2, <1>3, <1>4, BooksStep

\* A bill of stamps that nobody had marked needs no absorption.
LEMMA PublishBillKeeps ==
  ASSUME ReadersInv, Unanswered, NEW m \in Read, PublishBill(m)
  PROVE  ReadersInv'
<1>1. BooksTyped /\ Balanced
  BY DEF ReadersInv
<1>2. /\ UNCHANGED <<over, purse, query>> /\ Follow({m})
      /\ period' = [period EXCEPT ![m] = "closed"]
      /\ frozen' = [frozen EXCEPT ![m] = Append(frozen[m], Live(m))]
      /\ settling' = IF purse[m].late > 0 THEN settling \cup {m} ELSE settling
  BY <1>1 DEF PublishBill, BooksTyped
<1>3. Live(m) \in Nat /\ frozen[m] \in Seq(Nat) /\ purse[m].billed \in Nat /\ purse[m].late \in Nat
  BY <1>1, SumsTyped
<1>4. Append(frozen[m], Live(m)) \in Seq(Nat) /\ Append(frozen[m], Live(m)) # <<>>
      /\ Append(frozen[m], Live(m))[Len(Append(frozen[m], Live(m)))] = Live(m)
  BY <1>3
<1>5. /\ \A n \in Read \ {m} : frozen'[n] = frozen[n] /\ period'[n] = period[n]
      /\ frozen'[m] = Append(frozen[m], Live(m)) /\ period'[m] = "closed"
  BY <1>1, <1>2 DEF BooksTyped
<1>6. BooksTyped'
  BY <1>1, <1>2, <1>4 DEF BooksTyped
<1>7. Current(m)' = Live(m) /\ \A n \in Read \ {m} : Current(n)' = Current(n)
  BY <1>4, <1>5 DEF Current
<1>8. m \notin settling
  BY <1>1 DEF PublishBill, Balanced
<1>9. Balanced'
  <2> SUFFICES ASSUME NEW n \in Read
               PROVE  /\ period'[n] = "closed" => frozen'[n] # <<>>
                      /\ period'[n] = "closed" /\ n \notin settling' => Current(n)' = purse[n].billed
                      /\ n \in settling' => /\ period'[n] = "closed"
                                            /\ purse[n].billed <= Current(n)' /\ Current(n)' <= Live(n)
    BY <1>2 DEF Balanced, Live
  <2>1. CASE n = m
    BY <1>2, <1>3, <1>4, <1>5, <1>7, <2>1 DEF Live
  <2>2. CASE n # m
    BY <1>1, <1>2, <1>5, <1>7, <2>2 DEF Balanced
  <2>3. QED
    BY <2>1, <2>2
<1>10. settling' \subseteq settling \cup {m}
  BY <1>2
<1>11. QED
  BY <1>2, <1>5, <1>6, <1>9, <1>10, BooksStep

LEMMA AbsorbLateKeeps ==
  ASSUME ReadersInv, Unanswered, NEW m \in Read, AbsorbLate(m)
  PROVE  ReadersInv'
<1> DEFINE absorbed == Current(m) - purse[m].billed
           p == [purse[m] EXCEPT !.late = purse[m].late - absorbed, !.billed = purse[m].billed + absorbed]
<1>1. BooksTyped /\ Balanced
  BY DEF ReadersInv
<1>2. /\ UNCHANGED <<over, period, frozen, query>> /\ Follow({m}) /\ m \in settling
      /\ settling' = settling \ {m}
  BY DEF AbsorbLate
<1>3. /\ purse \in [Read -> Purses] /\ purse[m] \in Purses /\ Current(m) \in Nat
      /\ purse[m].billed \in Nat /\ purse[m].late \in Nat
  BY <1>1, SumsTyped DEF BooksTyped
<1>4. purse' = [purse EXCEPT ![m] = p]
  BY <1>3 DEF AbsorbLate
<1>5. purse[m].billed <= Current(m) /\ Current(m) <= purse[m].billed + purse[m].late
  BY <1>1, <1>2 DEF Balanced, Live
<1>6. p \in Purses /\ p.billed = Current(m)
  <2>1. purse[m].late - absorbed \in Nat /\ purse[m].billed + absorbed = Current(m)
    BY <1>3, <1>5
  <2> HIDE DEF absorbed
  <2>2. QED
    BY <1>3, <2>1 DEF Purses
<1> HIDE DEF p, absorbed
<1>7. purse' \in [Read -> Purses] /\ purse'[m].billed = Current(m) /\ \A n \in Read : n # m => purse'[n] = purse[n]
  BY <1>3, <1>4, <1>6
<1>8. BooksTyped'
  BY <1>1, <1>2, <1>7 DEF BooksTyped
<1>9. Balanced'
  BY <1>1, <1>2, <1>7 DEF Balanced, Current, Live
<1>10. QED
  BY <1>2, <1>8, <1>9, BooksStep

LEMMA BooksKeep ==
  ASSUME ReadersInv, Unanswered, BooksNext
  PROVE  ReadersInv'
  BY TurnKeeps, LandKeeps, PricePendingKeeps, PublishBillKeeps, AbsorbLateKeeps, ReopenBillKeeps DEF BooksNext

-----------------------------------------------------------------------------
(* A query takes a step. *)

\* What a step of a query leaves as it was: a month's document is read before
\* its money, and only once.
LEMMA Stepped ==
  ASSUME ReadersInv, NEW next \in QueryStates, Step(next), query.pc \in Asked,
         next.kind = query.kind, next.month = query.month,
         next.anchor = query.anchor \/ \A m \in ByStamps(next) : m < next.anchor => 0 \in during.lives[m],
         \A m \in Read : \/ next.docs[m] = query.docs[m]
                         \/ /\ query.docs[m] = "unread" /\ next.docs[m] = period[m]
                            /\ query.total[m] = -1 /\ query.split[m] = -1
  PROVE  /\ query' = next /\ UNCHANGED <<over, period, purse, frozen, settling>>
         /\ BooksTyped' /\ Balanced' /\ during' \in Histories /\ Followed'
         /\ during'.moved = during.moved /\ during'.settled = during.settled /\ during'.moves = during.moves
         /\ \A m \in ByStamps(next) : during'.lives[m] = during.lives[m]
         /\ \A m \in ByBill(next) : during'.frozen[m] = during.frozen[m]
         /\ \A m \in Read : next.total[m] = query.total[m] => HonestTotal(m)'
         /\ \A m \in Read : next.split[m] = query.split[m] => HonestSplit(m)'
<1> DEFINE lives == [m \in Read |-> IF m \in ByStamps(next) THEN during.lives[m] ELSE {}]
           bills == [m \in Read |-> IF m \in ByBill(next) THEN during.frozen[m] ELSE {}]
<1>1. /\ BooksTyped /\ Balanced /\ query \in QueryStates /\ during \in Histories
      /\ Shape /\ Followed /\ Honest
  BY DEF ReadersInv
<1>2. query' = next /\ UNCHANGED <<over, period, purse, frozen, settling>>
  BY DEF Step, books
<1>3. during' = [during EXCEPT !.lives = lives, !.frozen = bills]
  BY DEF Step
<1>4. \A m \in Read : /\ lives[m] = IF m \in ByStamps(next) THEN during.lives[m] ELSE {}
                      /\ bills[m] = IF m \in ByBill(next) THEN during.frozen[m] ELSE {}
  OBVIOUS
<1>5. lives \in [Read -> SUBSET Nat] /\ bills \in [Read -> SUBSET Nat]
  BY <1>1 DEF Histories
<1> HIDE DEF lives, bills
<1>6. /\ during' \in Histories /\ during'.lives = lives /\ during'.frozen = bills
      /\ during'.moved = during.moved /\ during'.settled = during.settled /\ during'.moves = during.moves
  BY <1>1, <1>3, <1>5 DEF Histories
<1>7. ByStamps(next) \subseteq ByStamps(query) /\ ByBill(next) \subseteq ByBill(query)
      /\ ByStamps(next) \subseteq Read /\ ByBill(next) \subseteq Read
  BY DEF ByStamps, ByBill, Concerned
<1>8. BooksTyped' /\ Balanced'
  BY <1>1, <1>2 DEF BooksTyped, Balanced, Current, Live
<1>9. /\ \A m \in ByStamps(next) : during'.lives[m] = during.lives[m]
      /\ \A m \in ByBill(next) : during'.frozen[m] = during.frozen[m]
  BY <1>4, <1>6, <1>7
<1>10. Followed'
  <2>1. \A m \in ByStamps(next) : Live(m)' \in during'.lives[m]
    BY <1>1, <1>2, <1>7, <1>9 DEF Followed, Live
  <2>2. \A m \in ByBill(next) : Current(m)' \in during'.frozen[m]
    BY <1>1, <1>2, <1>7, <1>9 DEF Followed, Current
  <2>3. next.anchor # 0 => \A m \in ByStamps(next) : m < next.anchor => 0 \in during'.lives[m]
    BY <1>1, <1>7, <1>9 DEF Followed
  <2>4. next.kind = "daily" =>
          /\ settling' \subseteq during'.moved
          /\ \A m \in Read : next.docs[m] = "closed" /\ m \notin during'.moved => period'[m] = "closed"
    BY <1>1, <1>2, <1>6 DEF Followed
  <2>5. ByStamps(query)' = ByStamps(next) /\ ByBill(query)' = ByBill(next)
    BY <1>2 DEF ByStamps, ByBill, Concerned
  <2>6. QED
    BY <1>2, <2>1, <2>2, <2>3, <2>4, <2>5 DEF Followed
<1>11. ASSUME NEW m \in Read, next.total[m] = query.total[m] PROVE HonestTotal(m)'
  <2> SUFFICES ASSUME query.total[m] # -1 PROVE HonestTotal(m)'
    BY <1>2, <1>11 DEF HonestTotal
  <2>1. next.docs[m] = query.docs[m] /\ (Frozen(m)' <=> Frozen(m))
    BY <1>2 DEF Frozen
  <2>2. m \in Concerned(next)
    BY <1>1 DEF Shape, SummaryShape, Concerned
  <2>3. HonestTotal(m)
    BY <1>1 DEF Honest
  <2>4. CASE Frozen(m)
    <3>1. query.kind # "projection"
      BY <1>1, <2>4 DEF Frozen, Shape, Unread
    <3>2. m \in ByBill(next)
      BY <2>1, <2>2, <2>4, <3>1 DEF ByBill, Frozen
    <3>3. QED
      BY <1>2, <1>6, <1>9, <1>11, <2>1, <2>3, <2>4, <3>2 DEF HonestTotal
  <2>5. CASE ~Frozen(m)
    <3>1. m \in ByStamps(next)
      BY <2>1, <2>2, <2>5 DEF ByStamps, Frozen
    <3>2. QED
      BY <1>2, <1>9, <1>11, <2>1, <2>3, <2>5, <3>1 DEF HonestTotal
  <2>6. QED
    BY <2>4, <2>5
<1>12. ASSUME NEW m \in Read, next.split[m] = query.split[m] PROVE HonestSplit(m)'
  <2> SUFFICES ASSUME query.split[m] # -1 PROVE HonestSplit(m)'
    BY <1>2, <1>12 DEF HonestSplit
  <2>1. next.docs[m] = query.docs[m]
    OBVIOUS
  <2>2. HonestSplit(m) /\ m \in Concerned(next)
    BY <1>1 DEF Honest, Shape, SummaryShape, Concerned
  <2>3. m \in ByStamps(next)
    BY <2>1, <2>2 DEF HonestSplit, ByStamps
  <2>4. QED
    BY <1>2, <1>9, <1>12, <2>1, <2>2, <2>3 DEF HonestSplit
<1>13. QED
  BY <1>2, <1>6, <1>8, <1>9, <1>10, <1>11, <1>12

LEMMA ItemSeen ==
  ASSUME ReadersInv, query.pc \in Asked, query.kind # "summary", query.anchor # 0,
         NEW m \in Read, query.docs[m] \notin {"closed", "unread"}
  PROVE  ItemOf(m) \in Nat /\ ItemOf(m) \in during.lives[m]
<1>1. BooksTyped /\ query \in QueryStates /\ Followed
  BY DEF ReadersInv
<1>2. m \in ByStamps(query) /\ Live(m) \in Nat
  BY <1>1, SumsTyped DEF ByStamps, Concerned
<1>3. Live(m) \in during.lives[m] /\ (m < query.anchor => 0 \in during.lives[m])
  BY <1>1, <1>2 DEF Followed
<1>4. CASE m \in RowsFrom \/ Live(m) = 0
  BY <1>2, <1>3, <1>4 DEF ItemOf
<1>5. CASE ~(m \in RowsFrom \/ Live(m) = 0)
  <2>1. ~(m >= LiveFrom(query.docs, query.anchor)) /\ ItemOf(m) = 0
    BY <1>2, <1>5 DEF RowsFrom, ItemOf
  <2>2. m < query.anchor
    BY <1>1, <2>1, LeftOutIsEarly
  <2>3. QED
    BY <1>3, <2>1, <2>2
<1>6. QED
  BY <1>4, <1>5

LEMMA BeginCallKeeps ==
  ASSUME ReadersInv, NEW kind \in Readers, NEW m \in Read, BeginCall(kind, m)
  PROVE  ReadersInv'
<1> DEFINE pc == CASE kind = "summary" -> "find" [] kind = "projection" -> "accrue" [] OTHER -> "read"
           began == [NoRead EXCEPT !.kind = kind, !.month = m, !.pc = pc]
<1>1. BooksTyped /\ Balanced /\ query \in QueryStates
  BY DEF ReadersInv
<1>2. query' = began /\ during' = Seen(began) /\ UNCHANGED <<over, period, purse, frozen, settling>>
  BY DEF BeginCall, books
<1>3. /\ pc \in {"find", "accrue", "read"} /\ (pc = "find" <=> kind = "summary")
      /\ (pc = "accrue" <=> kind = "projection") /\ pc \in Phases
  BY DEF Phases, Asked, Readers
<1> HIDE DEF pc
<1>4. /\ began.kind = kind /\ began.month = m /\ began.pc = pc /\ began.docs = Unread /\ began.anchor = 0
      /\ began.total = NoSums /\ began.split = NoSums /\ began.todo = {} /\ began.pending = -1 /\ began.held = -1
      /\ began = [NoRead EXCEPT !.kind = kind, !.month = m, !.pc = pc]
  <2> HIDE DEF NoSums, Unread
  <2>1. QED
    BY DEF NoRead
<1> HIDE DEF began
<1>5. \A n \in Read : NoSums[n] = -1 /\ Unread[n] = "unread"
  BY DEF NoSums, Unread
<1>6. began \in QueryStates
  <2>1. Unread \in [Read -> {"unread", "absent", "open", "closed"}] /\ NoSums \in [Read -> Nat \cup {-1}]
        /\ 0 \in 0..(LastRead + 1) /\ 1 \in Read
    BY <1>1, QueryTyped DEF Unread, NoSums
  <2>2. NoRead \in QueryStates
    <3> HIDE DEF Unread, NoSums
    <3>1. QED
      BY <2>1 DEF QueryStates, NoRead, Phases
  <2>3. QED
    BY <1>3, <1>4, <2>2 DEF QueryStates
<1>7. /\ \A n \in Read : Seen(began).lives[n] = IF n \in ByStamps(began) THEN {Live(n)} ELSE {}
      /\ \A n \in Read : Seen(began).frozen[n] = IF n \in ByBill(began) THEN {Current(n)} ELSE {}
      /\ Seen(began).moved = IF kind = "daily" THEN settling ELSE {}
      /\ Seen(began).settled = (settling = {}) /\ Seen(began).moves = 0
  BY <1>4 DEF Seen
<1>8. during' \in Histories
  <2> DEFINE lives == [n \in Read |-> IF n \in ByStamps(began) THEN {Live(n)} ELSE {}]
             bills == [n \in Read |-> IF n \in ByBill(began) THEN {Current(n)} ELSE {}]
  <2>1. \A n \in Read : Live(n) \in Nat /\ Current(n) \in Nat
    BY <1>1, SumsTyped
  <2>2. lives \in [Read -> SUBSET Nat] /\ bills \in [Read -> SUBSET Nat]
    BY <2>1
  <2>3. Seen(began) = [lives |-> lives, frozen |-> bills, moved |-> IF kind = "daily" THEN settling ELSE {},
                       settled |-> settling = {}, moves |-> 0]
    BY <1>4 DEF Seen
  <2>4. (IF kind = "daily" THEN settling ELSE {}) \in SUBSET Read
    BY <1>1 DEF BooksTyped
  <2> HIDE DEF lives, bills
  <2>5. QED
    BY <1>2, <2>2, <2>3, <2>4 DEF Histories
<1>9. BooksTyped' /\ Balanced'
  BY <1>1, <1>2 DEF BooksTyped, Balanced, Current, Live
<1>10. Shape'
  <2>1. SummaryShape'
    <3>1. query'.total[query'.month] = -1 /\ Target' = m /\ query'.docs[m] = "unread"
          /\ \A n \in Read : query'.total[n] = -1 /\ query'.split[n] = -1 /\ query'.docs[n] = "unread"
      BY <1>2, <1>4, <1>5 DEF Target
    <3>2. query'.pc \in {"find", "accrue", "read"}
      BY <1>2, <1>3, <1>4
    <3>3. QED
      BY <1>2, <1>3, <1>4, <3>1, <3>2 DEF SummaryShape
  <2>2. ListShape'
    BY <1>2, <1>3, <1>4, <1>5 DEF ListShape
  <2>3. kind \in Readers /\ pc \notin {"idle", "statement", "pending", "quarantine", "rollup", "models", "snapshots"}
    BY <1>3
  <2>4. QED
    BY <1>2, <1>3, <1>4, <2>1, <2>2, <2>3 DEF Shape, Readers
<1>11. Followed'
  <2>1. ByStamps(query)' = ByStamps(began) /\ ByBill(query)' = ByBill(began)
        /\ ByStamps(began) \subseteq Read /\ ByBill(began) \subseteq Read
    BY <1>2 DEF ByStamps, ByBill, Concerned
  <2>2. \A n \in Read : Live(n)' = Live(n) /\ Current(n)' = Current(n)
    BY <1>2 DEF Live, Current
  <2>3. \A n \in Read : began.docs[n] # "closed"
    BY <1>4, <1>5
  <2>4. /\ \A n \in ByStamps(began) : during'.lives[n] = {Live(n)}
        /\ \A n \in ByBill(began) : during'.frozen[n] = {Current(n)}
        /\ query'.anchor = 0 /\ (query'.kind = "daily" => during'.moved = settling)
        /\ \A n \in Read : query'.docs[n] # "closed"
    BY <1>2, <1>4, <1>7, <2>1, <2>3
  <2>5. \A n \in ByStamps(query)' : Live(n)' \in during'.lives[n]
    BY <2>1, <2>2, <2>4
  <2>6. \A n \in ByBill(query)' : Current(n)' \in during'.frozen[n]
    BY <2>1, <2>2, <2>4
  <2>7. QED
    BY <1>2, <2>4, <2>5, <2>6 DEF Followed
<1>12. Honest'
  <2>1. \A n \in Read : query'.total[n] = -1 /\ query'.split[n] = -1
    BY <1>2, <1>4, <1>5
  <2>2. QED
    BY <2>1 DEF Honest, HonestTotal, HonestSplit
<1>13. Undisturbed'
  <2>1. query'.total[query'.month] = -1 /\ query'.docs[query'.month] = "unread" /\ query'.pending = -1
        /\ query'.held = -1 /\ (during'.settled => settling' = {})
    BY <1>2, <1>4, <1>5, <1>7
  <2>2. QED
    BY <2>1 DEF Undisturbed
<1>14. QED
  BY <1>2, <1>6, <1>8, <1>9, <1>10, <1>11, <1>12, <1>13 DEF ReadersInv

\* The month whose turn it is in a summary.
LEMMA TargetMonth ==
  ASSUME ReadersInv, query.pc \in {"find", "statement"}
  PROVE  /\ query.kind = "summary" /\ Target \in Read /\ query.month \in Read
         /\ query.total[Target] = -1 /\ query.split[Target] = -1
         /\ Target \in {query.month, query.month - 1}
         /\ Target = query.month <=> query.total[query.month] = -1
         /\ Target # query.month => query.month > 1 /\ query.pending # -1 /\ query.held # -1
         /\ \A m \in Read : /\ query.split[m] = -1
                            /\ m # query.month => query.total[m] = -1
<1>1. query.kind = "summary" /\ SummaryShape /\ query \in QueryStates
  BY DEF ReadersInv, Shape
<1>2. \A m \in Read : /\ query.split[m] = -1
                      /\ m # query.month => query.total[m] = -1
  BY <1>1 DEF SummaryShape
<1>3. CASE query.total[query.month] = -1
  BY <1>1, <1>2, <1>3, QueryTyped DEF Target
<1>4. CASE query.total[query.month] # -1
  <2>1. /\ query.month > 1 /\ query.pending # -1 /\ query.held # -1 /\ Target = query.month - 1
        /\ query.month \in 1..LastRead /\ LastRead \in Nat
    BY <1>1, <1>4, QueryTyped DEF Target, SummaryShape, Read
  <2>2. Target \in Read /\ Target # query.month
    BY <2>1 DEF Read
  <2>3. QED
    BY <1>1, <1>2, <1>4, <2>1, <2>2, QueryTyped
<1>5. QED
  BY <1>3, <1>4

LEMMA FindPeriodKeeps ==
  ASSUME ReadersInv, FindPeriod
  PROVE  ReadersInv'
<1> DEFINE docs == [query.docs EXCEPT ![Target] = period[Target]]
           pc == IF IsFuture(period, Target) THEN "failed" ELSE "statement"
           next == [query EXCEPT !.docs = docs, !.pc = pc]
<1>1. /\ BooksTyped /\ Balanced /\ query \in QueryStates /\ Shape /\ Followed /\ Honest /\ Undisturbed
      /\ query.pc = "find" /\ query.pc \in Asked
  BY DEF ReadersInv, FindPeriod, Asked
<1>2. Step(next)
  BY DEF FindPeriod
<1>3. query.kind = "summary" /\ pc \in {"failed", "statement"} /\ pc \in Phases
  BY <1>1 DEF Shape, Phases, Asked
<1>4. Target \in Read /\ query.total[Target] = -1 /\ query.split[Target] = -1
      /\ query.docs[Target] = "unread" /\ (Target # query.month => query.total[query.month] # -1)
  <2>1. query.docs[Target] = "unread"
    BY <1>1, <1>3 DEF Shape, SummaryShape
  <2>2. QED
    BY <1>1, <2>1, TargetMonth
<1>5. /\ docs \in [Read -> {"unread", "absent", "open", "closed"}] /\ docs[Target] = period[Target]
      /\ period[Target] \in {"absent", "open", "closed"} /\ \A m \in Read : m # Target => docs[m] = query.docs[m]
  BY <1>1, <1>4, QueryTyped DEF BooksTyped
<1> HIDE DEF docs, pc
<1>6. /\ next \in QueryStates /\ next.docs = docs /\ next.pc = pc /\ next.kind = query.kind
      /\ next.month = query.month /\ next.anchor = query.anchor /\ next.total = query.total
      /\ next.split = query.split /\ next.pending = query.pending /\ next.held = query.held
  BY <1>1, <1>3, <1>5 DEF QueryStates
<1> HIDE DEF next
<1>7. \A m \in Read : \/ next.docs[m] = query.docs[m]
                      \/ /\ query.docs[m] = "unread" /\ next.docs[m] = period[m]
                         /\ query.total[m] = -1 /\ query.split[m] = -1
  BY <1>1, <1>4, <1>5, <1>6
<1>8. /\ query' = next /\ BooksTyped' /\ Balanced' /\ during' \in Histories /\ Followed'
      /\ UNCHANGED <<over, period, purse, frozen, settling>>
      /\ during'.settled = during.settled /\ during'.moves = during.moves /\ Honest'
  BY <1>1, <1>2, <1>6, <1>7, Stepped DEF Honest
<1>9. Target' = Target
  BY <1>6, <1>8 DEF Target
<1>10. Shape'
  <2>1. SummaryShape
    BY <1>1 DEF Shape
  <2>2. SummaryShape'
    <3>1. query'.pc \in {"failed", "statement"} /\ query'.month = query.month /\ query'.total = query.total
          /\ query'.split = query.split /\ query'.pending = query.pending /\ query'.held = query.held
          /\ query'.docs = docs /\ query'.kind = "summary"
      BY <1>3, <1>6, <1>8
    <3>2. \A m \in Read : /\ query.split[m] = -1
                          /\ m # query.month => query.total[m] = -1
      BY <1>1, <1>3, <2>1 DEF SummaryShape
    <3>3. query.total[query.month] # -1 => query.month > 1 /\ query.pending # -1 /\ query.held # -1
      BY <1>1, <1>3, <2>1 DEF SummaryShape
    <3>4. query.held = -1 => \A m \in Read \ {query.month} : docs[m] = "unread"
      <4>1. query.held = -1 => Target = query.month
        BY <3>3 DEF Target
      <4>2. query.held = -1 => \A m \in Read \ {query.month} : query.docs[m] = "unread"
        BY <1>3, <2>1 DEF SummaryShape
      <4>3. QED
        BY <1>5, <4>1, <4>2
    <3>5. query'.docs[Target'] # "unread"
      BY <1>5, <1>9, <3>1
    <3>6. \A m \in Read : /\ query'.split[m] = -1 /\ (m # query'.month => query'.total[m] = -1)
                          /\ m \notin {query'.month, query'.month - 1} => query'.total[m] = -1
      BY <3>1, <3>2
    <3>7. /\ query'.total[query'.month] # -1 => query'.month > 1 /\ query'.pending # -1 /\ query'.held # -1
          /\ query'.held = -1 => \A m \in Read \ {query'.month} : query'.docs[m] = "unread"
          /\ query'.total[query'.month] = -1 => query'.held = -1
      BY <1>3, <2>1, <3>1, <3>3, <3>4 DEF SummaryShape
    <3>8. query'.pc \notin {"pending", "quarantine", "done", "find"}
      BY <3>1
    <3>9. QED
      BY <3>5, <3>6, <3>7, <3>8 DEF SummaryShape
  <2>3. ListShape'
    BY <1>3, <1>6, <1>8 DEF ListShape
  <2>4. QED
    BY <1>3, <1>6, <1>8, <2>2, <2>3 DEF Shape
<1>11. Undisturbed'
  <2> SUFFICES ASSUME during.settled, during.moves = 0 PROVE Undisturbed'
    BY <1>8 DEF Undisturbed
  <2> DEFINE m == query.month
  <2>1. m \in Read
    BY <1>1, QueryTyped
  <2>2. CASE docs[m] = query.docs[m]
    <3>1. PendingPriceSummary(m, docs) = PendingPriceSummary(m, query.docs)
      BY <2>2 DEF PendingPriceSummary
    <3>2. QED
      BY <1>1, <1>3, <1>6, <1>8, <2>2, <3>1 DEF Undisturbed, Frozen, Current, Live, PendingPriceSummary, Quarantined
  <2>3. CASE m = Target /\ docs[m] = period[m]
    BY <1>1, <1>3, <1>4, <1>6, <1>8, <2>3 DEF Undisturbed, Quarantined
  <2>4. QED
    BY <1>5, <2>1, <2>2, <2>3
<1>12. QED
  BY <1>6, <1>8, <1>10, <1>11 DEF ReadersInv

LEMMA MonthStatementKeeps ==
  ASSUME ReadersInv, MonthStatement
  PROVE  ReadersInv'
<1> DEFINE sum == IF query.docs[Target] = "closed" THEN Current(Target) ELSE Live(Target)
           totals == [query.total EXCEPT ![Target] = sum]
           pc == IF Target = query.month THEN "pending" ELSE "done"
           next == [query EXCEPT !.total = totals, !.pc = pc]
<1>1. /\ BooksTyped /\ Balanced /\ query \in QueryStates /\ Shape /\ Followed /\ Honest /\ Undisturbed
      /\ SummaryShape /\ query.pc = "statement" /\ query.pc \in Asked
  BY DEF ReadersInv, MonthStatement, Asked, Shape
<1>2. Step(next)
  BY DEF MonthStatement
<1>3. /\ query.kind = "summary" /\ Target \in Read /\ query.month \in Read
      /\ query.total[Target] = -1
      /\ Target \in {query.month, query.month - 1}
      /\ Target = query.month <=> query.total[query.month] = -1
      /\ Target # query.month => query.month > 1 /\ query.pending # -1 /\ query.held # -1
      /\ \A m \in Read : /\ query.split[m] = -1
                         /\ m # query.month => query.total[m] = -1
  BY <1>1, TargetMonth
<1>4. query.docs[Target] # "unread" /\ query.docs[Target] \in {"absent", "open", "closed"}
  BY <1>1, <1>3, QueryTyped DEF SummaryShape
<1>5. sum \in Nat
  BY <1>1, <1>3, SumsTyped
<1>6. /\ totals \in [Read -> Nat \cup {-1}] /\ totals[Target] = sum
      /\ \A m \in Read : m # Target => totals[m] = query.total[m]
      /\ pc \in {"pending", "done"} /\ pc \in Phases /\ (pc = "pending" <=> Target = query.month)
  <2> HIDE DEF sum
  <2>1. QED
    BY <1>1, <1>3, <1>5, QueryTyped DEF Phases, Asked
<1>7. (Frozen(Target) => sum = Current(Target)) /\ (~Frozen(Target) => sum = Live(Target))
  BY DEF Frozen
<1> HIDE DEF sum, totals, pc
<1>8. /\ next \in QueryStates /\ next.docs = query.docs /\ next.pc = pc /\ next.kind = query.kind
      /\ next.month = query.month /\ next.anchor = query.anchor /\ next.total = totals
      /\ next.split = query.split /\ next.pending = query.pending /\ next.held = query.held
  BY <1>1, <1>6 DEF QueryStates
<1> HIDE DEF next
<1>9. /\ query' = next /\ BooksTyped' /\ Balanced' /\ during' \in Histories /\ Followed'
      /\ UNCHANGED <<over, period, purse, frozen, settling>>
      /\ during'.settled = during.settled /\ during'.moves = during.moves
      /\ \A m \in ByStamps(next) : during'.lives[m] = during.lives[m]
      /\ \A m \in ByBill(next) : during'.frozen[m] = during.frozen[m]
      /\ \A m \in Read : next.total[m] = query.total[m] => HonestTotal(m)'
      /\ \A m \in Read : next.split[m] = query.split[m] => HonestSplit(m)'
  BY <1>1, <1>2, <1>8, Stepped
<1>10. ASSUME NEW m \in Read, m = Target PROVE HonestTotal(m)'
  <2>1. m \in Concerned(query) /\ m \in Concerned(next)
    BY <1>3, <1>8, <1>10 DEF Concerned
  <2>2. Frozen(m)' <=> Frozen(m)
    BY <1>8, <1>9 DEF Frozen
  <2>3. CASE Frozen(m)
    <3>1. m \in ByBill(query) /\ m \in ByBill(next)
      BY <1>3, <1>8, <2>1, <2>3 DEF ByBill, Frozen
    <3>2. Current(m) \in during'.frozen[m]
      BY <1>1, <1>9, <3>1 DEF Followed
    <3>3. QED
      BY <1>3, <1>6, <1>7, <1>8, <1>9, <1>10, <2>2, <2>3, <3>2 DEF HonestTotal
  <2>4. CASE ~Frozen(m)
    <3>1. m \in ByStamps(query) /\ m \in ByStamps(next)
      BY <1>3, <1>8, <2>1, <2>4 DEF ByStamps, Frozen
    <3>2. Live(m) \in during'.lives[m]
      BY <1>1, <1>9, <3>1 DEF Followed
    <3>3. QED
      BY <1>3, <1>6, <1>7, <1>8, <1>9, <1>10, <2>2, <2>4, <3>2 DEF HonestTotal
  <2>5. QED
    BY <2>3, <2>4
<1>11. Honest'
  BY <1>6, <1>8, <1>9, <1>10 DEF Honest
<1>12. Shape'
  <2>1. /\ query'.pc = pc /\ query'.month = query.month /\ query'.total = totals
        /\ query'.split = query.split /\ query'.pending = query.pending /\ query'.held = query.held
        /\ query'.docs = query.docs /\ query'.kind = "summary"
    BY <1>3, <1>8, <1>9
  <2>2. \A m \in Read : /\ totals[m] = -1 \/ m \in {query.month, query.month - 1}
                        /\ m # query.month /\ pc # "done" => totals[m] = -1
    BY <1>3, <1>6
  <2>3. totals[query.month] # -1
    BY <1>3, <1>5, <1>6
  <2>4. (pc = "done" => query.pending # -1 /\ query.held # -1) /\ (pc = "pending" => query.held = -1)
    BY <1>1, <1>3, <1>6 DEF SummaryShape
  <2>5. query.held = -1 => \A m \in Read \ {query.month} : query.docs[m] = "unread"
    BY <1>1, <1>3 DEF SummaryShape
  <2>6. SummaryShape'
    <3>1. pc \notin {"find", "statement", "quarantine"}
      BY <1>6
    <3>2. QED
      BY <1>3, <2>1, <2>2, <2>3, <2>4, <2>5, <3>1 DEF SummaryShape
  <2>7. ListShape'
    BY <1>6, <2>1 DEF ListShape
  <2>8. QED
    BY <1>6, <2>1, <2>6, <2>7 DEF Shape
<1>13. Undisturbed'
  <2> SUFFICES ASSUME during.settled, during.moves = 0 PROVE Undisturbed'
    BY <1>9 DEF Undisturbed
  <2> DEFINE m == query.month
  <2>1. /\ settling = {}
        /\ query.docs[m] = "unread" \/ query.docs[m] = period[m]
        /\ query.total[m] # -1 => /\ query.docs[m] # "unread"
                                  /\ query.total[m] = IF Frozen(m) THEN Current(m) ELSE Live(m)
        /\ query.pending # -1 => query.pending = PendingPriceSummary(m, query.docs) /\ query.total[m] # -1
        /\ query.held # -1 => query.held = Quarantined(m)
    BY <1>1, <1>3 DEF Undisturbed
  <2>2. totals[m] # -1 /\ query.docs[m] # "unread" /\ totals[m] = IF Frozen(m) THEN Current(m) ELSE Live(m)
    <3>1. CASE Target = m
      BY <1>3, <1>4, <1>5, <1>6, <1>7, <3>1
    <3>2. CASE Target # m
      BY <1>3, <1>6, <2>1, <3>2
    <3>3. QED
      BY <3>1, <3>2
  <2>3. /\ query'.total = totals /\ query'.docs = query.docs /\ query'.month = m
        /\ query'.pending = query.pending /\ query'.held = query.held
    BY <1>8, <1>9
  <2> HIDE DEF m
  <2>4. QED
    BY <1>9, <2>1, <2>2, <2>3 DEF Undisturbed, Frozen, Current, Live, PendingPriceSummary, Quarantined
<1>14. QED
  BY <1>8, <1>9, <1>11, <1>12, <1>13 DEF ReadersInv

LEMMA ReadPendingKeeps ==
  ASSUME ReadersInv, ReadPending
  PROVE  ReadersInv'
<1> DEFINE panel == PendingPriceSummary(query.month, query.docs)
           next == [query EXCEPT !.pc = "quarantine", !.pending = panel]
<1>1. /\ BooksTyped /\ Balanced /\ query \in QueryStates /\ Shape /\ Followed /\ Honest /\ Undisturbed
      /\ SummaryShape /\ query.pc = "pending" /\ query.pc \in Asked /\ query.kind = "summary" /\ query.month \in Read
  BY QueryTyped DEF ReadersInv, ReadPending, Asked, Shape
<1>2. Step(next)
  BY DEF ReadPending
<1>3. panel \in Nat
  BY <1>1, SumsTyped
<1> HIDE DEF panel
<1>4. /\ next \in QueryStates /\ next.docs = query.docs /\ next.pc = "quarantine" /\ next.kind = query.kind
      /\ next.month = query.month /\ next.anchor = query.anchor /\ next.total = query.total
      /\ next.split = query.split /\ next.pending = panel /\ next.held = query.held
  BY <1>1, <1>3 DEF QueryStates, Phases, Asked
<1> HIDE DEF next
<1>5. /\ query' = next /\ BooksTyped' /\ Balanced' /\ during' \in Histories /\ Followed'
      /\ UNCHANGED <<over, period, purse, frozen, settling>>
      /\ during'.settled = during.settled /\ during'.moves = during.moves /\ Honest'
  BY <1>1, <1>2, <1>4, Stepped DEF Honest
<1>6. Shape'
  <2>1. /\ query'.pc = "quarantine" /\ query'.month = query.month /\ query'.total = query.total
        /\ query'.split = query.split /\ query'.pending = panel /\ query'.held = query.held
        /\ query'.docs = query.docs /\ query'.kind = "summary"
    BY <1>1, <1>4, <1>5
  <2>2. SummaryShape'
    BY <1>1, <1>3, <2>1 DEF SummaryShape
  <2>3. ListShape'
    BY <2>1 DEF ListShape
  <2>4. QED
    BY <2>1, <2>2, <2>3 DEF Shape
<1>7. Undisturbed'
  <2>1. query.total[query.month] # -1
    BY <1>1 DEF SummaryShape
  <2>2. QED
    BY <1>1, <1>4, <1>5, <2>1
       DEF Undisturbed, Frozen, Current, Live, PendingPriceSummary, Quarantined, panel
<1>8. QED
  BY <1>4, <1>5, <1>6, <1>7 DEF ReadersInv

LEMMA CountQuarantinedKeeps ==
  ASSUME ReadersInv, CountQuarantined
  PROVE  ReadersInv'
<1> DEFINE held == Quarantined(query.month)
           pc == IF query.month = 1 THEN "done" ELSE "find"
           next == [query EXCEPT !.held = held, !.pc = pc]
<1>1. /\ BooksTyped /\ Balanced /\ query \in QueryStates /\ Shape /\ Followed /\ Honest /\ Undisturbed
      /\ SummaryShape /\ query.pc = "quarantine" /\ query.pc \in Asked /\ query.kind = "summary"
      /\ query.month \in Read
  BY QueryTyped DEF ReadersInv, CountQuarantined, Asked, Shape
<1>2. Step(next)
  BY DEF CountQuarantined
<1>3. held \in Nat /\ query.month \in 1..LastRead /\ LastRead \in Nat
  BY <1>1, SumsTyped, QueryTyped DEF Read
<1>4. pc \in {"done", "find"} /\ pc \in Phases /\ (pc = "find" => query.month > 1)
  BY <1>3 DEF Phases, Asked
<1> HIDE DEF held, pc
<1>5. /\ next \in QueryStates /\ next.docs = query.docs /\ next.pc = pc /\ next.kind = query.kind
      /\ next.month = query.month /\ next.anchor = query.anchor /\ next.total = query.total
      /\ next.split = query.split /\ next.pending = query.pending /\ next.held = held
  BY <1>1, <1>3, <1>4 DEF QueryStates
<1> HIDE DEF next
<1>6. /\ query' = next /\ BooksTyped' /\ Balanced' /\ during' \in Histories /\ Followed'
      /\ UNCHANGED <<over, period, purse, frozen, settling>>
      /\ during'.settled = during.settled /\ during'.moves = during.moves /\ Honest'
  BY <1>1, <1>2, <1>5, Stepped DEF Honest
<1>7. query.total[query.month] # -1 /\ query.pending # -1
  BY <1>1 DEF SummaryShape
<1>8. Shape'
  <2>1. /\ query'.pc = pc /\ query'.month = query.month /\ query'.total = query.total
        /\ query'.split = query.split /\ query'.pending = query.pending /\ query'.held = held
        /\ query'.docs = query.docs /\ query'.kind = "summary"
    BY <1>1, <1>5, <1>6
  <2>2. pc = "find" => query'.docs[Target'] = "unread"
    <3>1. CASE pc = "find"
      <4>1. Target' = query.month - 1
        BY <1>7, <2>1 DEF Target
      <4>2. query.month - 1 \in Read \ {query.month}
        BY <1>3, <1>4, <3>1 DEF Read
      <4>3. query.docs[query.month - 1] = "unread"
        <5>1. query.held = -1 => \A m \in Read \ {query.month} : query.docs[m] = "unread"
          BY <1>1 DEF SummaryShape
        <5>2. query.held = -1
          BY <1>1 DEF SummaryShape
        <5>3. QED
          BY <4>2, <5>1, <5>2
      <4>4. QED
        BY <2>1, <4>1, <4>3
    <3>2. QED
      BY <3>1
  <2>3. held # -1
    BY <1>3
  <2>4. SummaryShape'
    BY <1>1, <1>4, <1>7, <2>1, <2>2, <2>3 DEF SummaryShape
  <2>5. ListShape'
    BY <1>4, <2>1 DEF ListShape
  <2>6. QED
    BY <1>4, <2>1, <2>4, <2>5 DEF Shape
<1>9. Undisturbed'
  BY <1>1, <1>5, <1>6 DEF Undisturbed, Frozen, Current, Live, PendingPriceSummary, Quarantined, held
<1>10. QED
  BY <1>5, <1>6, <1>8, <1>9 DEF ReadersInv

\* The readers of many months: a sum they take of a month must be one the
\* history holds.
LEMMA ListStep ==
  ASSUME ReadersInv, NEW next \in QueryStates, Step(next), query.pc \in Asked,
         query.kind # "summary", next.kind = query.kind, next.month = query.month,
         next.anchor = query.anchor \/ \A m \in ByStamps(next) : m < next.anchor => 0 \in during.lives[m],
         \A m \in Read : \/ next.docs[m] = query.docs[m]
                         \/ /\ query.docs[m] = "unread" /\ next.docs[m] = period[m]
                            /\ query.total[m] = -1 /\ query.split[m] = -1,
         \A m \in Read : \/ next.total[m] \in {query.total[m], -1}
                         \/ next.docs[m] # "closed" /\ next.total[m] \in during.lives[m]
                         \/ /\ next.docs[m] = "closed"
                            /\ (query.kind = "daily" /\ m \in during.moved) \/ next.total[m] = Current(m),
         \A m \in Read : \/ next.split[m] \in {query.split[m], -1}
                         \/ next.docs[m] # "closed" /\ next.split[m] \in during.lives[m],
         Shape'
  PROVE  ReadersInv'
<1>1. /\ query' = next /\ BooksTyped' /\ Balanced' /\ during' \in Histories /\ Followed'
      /\ UNCHANGED <<over, period, purse, frozen, settling>>
      /\ during'.moved = during.moved
      /\ \A m \in ByStamps(next) : during'.lives[m] = during.lives[m]
      /\ \A m \in ByBill(next) : during'.frozen[m] = during.frozen[m]
      /\ \A m \in Read : next.total[m] = query.total[m] => HonestTotal(m)'
      /\ \A m \in Read : next.split[m] = query.split[m] => HonestSplit(m)'
  BY Stepped
<1>2. Followed /\ Shape
  BY DEF ReadersInv
<1>3. query.kind = "projection" => next.docs = Unread
  BY <1>1 DEF Shape
<1>4. \A m \in Read : /\ m \in Concerned(query) /\ m \in Concerned(next)
                      /\ next.docs[m] # "closed" => m \in ByStamps(next)
                      /\ next.docs[m] = "closed" => m \in ByBill(next) /\ m \in ByBill(query)
  <2> SUFFICES ASSUME NEW m \in Read
               PROVE  /\ m \in Concerned(query) /\ m \in Concerned(next)
                      /\ next.docs[m] # "closed" => m \in ByStamps(next)
                      /\ next.docs[m] = "closed" => m \in ByBill(next) /\ m \in ByBill(query)
    OBVIOUS
  <2>1. m \in Concerned(query) /\ m \in Concerned(next)
    BY DEF Concerned
  <2>2. next.docs[m] = "closed" => query.kind # "projection"
    BY <1>3 DEF Unread
  <2>3. QED
    BY <2>1, <2>2 DEF ByStamps, ByBill
<1>5. ASSUME NEW m \in Read
      PROVE  /\ next.docs[m] # "closed" => during'.lives[m] = during.lives[m]
             /\ next.docs[m] = "closed" => Current(m) \in during'.frozen[m]
  <2>1. CASE next.docs[m] # "closed"
    <3>1. m \in ByStamps(next)
      BY <1>4, <2>1
    <3>2. QED
      BY <1>1, <2>1, <3>1
  <2>2. CASE next.docs[m] = "closed"
    <3>1. m \in ByBill(next) /\ m \in ByBill(query)
      BY <1>4, <2>2
    <3>2. during'.frozen[m] = during.frozen[m]
      BY <1>1, <3>1
    <3>3. Current(m) \in during.frozen[m]
      BY <1>2, <3>1 DEF Followed
    <3>4. QED
      BY <2>2, <3>2, <3>3
  <2>3. QED
    BY <2>1, <2>2
<1>6. ASSUME NEW m \in Read PROVE HonestTotal(m)'
  <2>1. query'.total[m] = next.total[m] /\ query'.kind = query.kind /\ (Frozen(m)' <=> next.docs[m] = "closed")
    BY <1>1 DEF Frozen
  <2>2. CASE next.total[m] \in {query.total[m], -1}
    BY <1>1, <2>1, <2>2 DEF HonestTotal
  <2>3. CASE next.docs[m] # "closed" /\ next.total[m] \in during.lives[m]
    <3>1. during'.lives[m] = during.lives[m]
      BY <1>5, <2>3
    <3>2. QED
      BY <2>1, <2>3, <3>1 DEF HonestTotal
  <2>4. CASE /\ next.docs[m] = "closed"
             /\ (query.kind = "daily" /\ m \in during.moved) \/ next.total[m] = Current(m)
    <3>1. Current(m) \in during'.frozen[m]
      BY <1>5, <2>4
    <3>2. QED
      BY <1>1, <2>1, <2>4, <3>1 DEF HonestTotal
  <2>5. QED
    BY <2>2, <2>3, <2>4
<1>7. ASSUME NEW m \in Read PROVE HonestSplit(m)'
  <2>1. CASE next.split[m] \in {query.split[m], -1}
    BY <1>1, <2>1 DEF HonestSplit
  <2>2. CASE next.docs[m] # "closed" /\ next.split[m] \in during.lives[m]
    <3>1. during'.lives[m] = during.lives[m] /\ query'.docs = next.docs /\ query'.split = next.split
      BY <1>1, <1>5, <2>2
    <3>2. QED
      BY <2>2, <3>1 DEF HonestSplit
  <2>3. QED
    BY <2>1, <2>2
<1>8. Honest'
  BY <1>6, <1>7 DEF Honest
<1>9. Undisturbed'
  BY <1>1 DEF Undisturbed
<1>10. QED
  BY <1>1, <1>8, <1>9 DEF ReadersInv

LEMMA ListKinds ==
  ASSUME ReadersInv, query.pc \in {"read", "rollup", "models", "snapshots", "accrue"}
  PROVE  /\ BooksTyped /\ query \in QueryStates /\ Shape /\ ListShape /\ Followed /\ Balanced
         /\ query.pc \in Asked /\ query.kind # "summary" /\ during \in Histories
         /\ \A m \in Read : query.docs[m] # "closed" => m \in ByStamps(query) /\ Live(m) \in during.lives[m]
<1>1. /\ BooksTyped /\ query \in QueryStates /\ Shape /\ ListShape /\ Followed /\ Balanced
      /\ query.pc \in Asked /\ query.kind # "summary" /\ during \in Histories
  BY DEF ReadersInv, Shape, Asked
<1>2. \A m \in Read : query.docs[m] # "closed" => m \in ByStamps(query) /\ Live(m) \in during.lives[m]
  BY <1>1 DEF Followed, ByStamps, Concerned
<1>3. QED
  BY <1>1, <1>2

LEMMA ReadPeriodsKeeps ==
  ASSUME ReadersInv, ReadPeriods
  PROVE  ReadersInv'
<1> DEFINE pc == IF query.anchor = 0 /\ query.kind # "daily" THEN "read" ELSE "rollup"
           next == [query EXCEPT !.docs = period, !.pc = pc]
<1>1. /\ BooksTyped /\ query \in QueryStates /\ Shape /\ ListShape /\ query.pc = "read" /\ query.docs = Unread
      /\ query.pc \in Asked /\ query.kind # "summary"
  BY ListKinds DEF ReadPeriods
<1>2. Step(next)
  BY DEF ReadPeriods
<1>3. pc \in {"read", "rollup"} /\ (pc = "rollup" /\ query.kind # "daily" => query.anchor # 0) /\ pc \in Phases
  BY DEF Phases, Asked
<1> HIDE DEF pc
<1>4. period \in [Read -> {"unread", "absent", "open", "closed"}] /\ \A m \in Read : period[m] # "unread"
  BY <1>1 DEF BooksTyped
<1>5. /\ next \in QueryStates /\ next.docs = period /\ next.pc = pc /\ next.kind = query.kind
      /\ next.month = query.month /\ next.anchor = query.anchor /\ next.total = query.total
      /\ next.split = query.split
  BY <1>1, <1>3, <1>4 DEF QueryStates
<1> HIDE DEF next
<1>6. query' = next
  BY <1>2 DEF Step
<1>7. \A m \in Read : query.docs[m] = "unread" /\ query.total[m] = -1 /\ query.split[m] = -1
  BY <1>1 DEF ListShape, Unread
<1>8. Shape'
  <2>1. ListShape'
    BY <1>3, <1>4, <1>5, <1>6, <1>7 DEF ListShape
  <2>2. query.kind \in {"series", "daily", "bills"}
    BY <1>1 DEF Shape
  <2>3. QED
    BY <1>3, <1>5, <1>6, <2>1, <2>2 DEF Shape, SummaryShape
<1>9. QED
  BY <1>1, <1>2, <1>5, <1>7, <1>8, ListStep

LEMMA ReadAnchorKeeps ==
  ASSUME ReadersInv, ReadAnchor
  PROVE  ReadersInv'
<1> DEFINE anchor == Min(Traced \cup {LastRead + 1})
           pc == IF query.docs = Unread THEN "read" ELSE "rollup"
           next == [query EXCEPT !.anchor = anchor, !.pc = pc]
<1>1. /\ BooksTyped /\ query \in QueryStates /\ Shape /\ ListShape /\ query.pc = "read"
      /\ query.pc \in Asked /\ query.kind # "summary" /\ query.kind # "daily"
      /\ \A m \in Read : query.docs[m] # "closed" => m \in ByStamps(query) /\ Live(m) \in during.lives[m]
  BY ListKinds DEF ReadAnchor
<1>2. Step(next)
  BY DEF ReadAnchor
<1>3. /\ pc \in {"read", "rollup"} /\ pc \in Phases /\ (pc = "read" => query.docs = Unread)
      /\ (pc = "rollup" => \A m \in Read : query.docs[m] # "unread")
  BY <1>1 DEF Phases, Asked, ListShape
<1>4. anchor \in 1..(LastRead + 1) /\ \A m \in Traced : anchor <= m
  <2>1. LastRead + 1 \in Nat \ {0} /\ Traced \in SUBSET (1..(LastRead + 1))
    BY <1>1, QueryTyped DEF Traced, Read
  <2>2. QED
    BY <2>1, EarliestTrace
<1>5. \A m \in Read : query.docs[m] # "closed" /\ m < anchor => 0 \in during.lives[m]
  <2> SUFFICES ASSUME NEW m \in Read, query.docs[m] # "closed", m < anchor PROVE 0 \in during.lives[m]
    OBVIOUS
  <2>1. m \notin Traced
    <3>1. m \in Nat /\ anchor \in Nat
      BY <1>1, <1>4, QueryTyped DEF Read
    <3> HIDE DEF anchor
    <3>2. QED
      BY <1>4, <3>1
  <2>2. /\ purse[m].billed \in Nat /\ purse[m].late \in Nat
        /\ purse[m].pending \in Nat /\ purse[m].pendingLate \in Nat
    BY <1>1, SumsTyped
  <2>3. Live(m) = 0
    BY <2>1, <2>2 DEF Traced, All, Live
  <2>4. QED
    BY <1>1, <2>3
<1> HIDE DEF anchor, pc
<1>6. /\ next \in QueryStates /\ next.docs = query.docs /\ next.pc = pc /\ next.kind = query.kind
      /\ next.month = query.month /\ next.anchor = anchor /\ next.total = query.total
      /\ next.split = query.split
  <2>1. anchor \in 0..(LastRead + 1) /\ anchor # 0
    BY <1>1, <1>4, QueryTyped
  <2>2. QED
    BY <1>1, <1>3, <2>1 DEF QueryStates
<1> HIDE DEF next
<1>7. query' = next /\ anchor # 0
  BY <1>1, <1>2, <1>4, QueryTyped DEF Step
<1>8. Shape'
  <2>1. query.kind \in {"series", "daily", "bills"} /\ \A m \in Read : query.total[m] = -1 /\ query.split[m] = -1
    BY <1>1 DEF Shape, ListShape
  <2>2. ListShape'
    BY <1>3, <1>6, <1>7, <2>1 DEF ListShape
  <2>3. QED
    BY <1>3, <1>6, <1>7, <2>1, <2>2 DEF Shape, SummaryShape
<1>9. \A m \in ByStamps(next) : m < next.anchor => 0 \in during.lives[m]
  BY <1>5, <1>6 DEF ByStamps, Concerned
<1>10. QED
  BY <1>1, <1>2, <1>6, <1>8, <1>9, ListStep

LEMMA MonthlyRollupKeeps ==
  ASSUME ReadersInv, MonthlyRollup
  PROVE  ReadersInv'
<1> DEFINE shown == Axis(RowsFrom)
           totals == [m \in Read |-> IF m \in shown \ ClosedDocs(query.docs) THEN ItemOf(m) ELSE -1]
           todo == shown \cap ClosedDocs(query.docs)
           next == [query EXCEPT !.total = totals, !.todo = todo, !.pc = "models"]
<1>1. /\ BooksTyped /\ query \in QueryStates /\ Shape /\ ListShape /\ query.pc = "rollup"
      /\ query.pc \in Asked /\ query.kind = "series" /\ query.kind # "summary"
  BY ListKinds DEF MonthlyRollup
<1>2. Step(next)
  BY DEF MonthlyRollup
<1>3. query.anchor # 0 /\ \A m \in Read : query.docs[m] # "unread" /\ query.split[m] = -1
  BY <1>1 DEF ListShape
<1>4. \A m \in Read : query.docs[m] # "closed" => ItemOf(m) \in Nat /\ ItemOf(m) \in during.lives[m]
  BY <1>1, <1>3, ItemSeen
<1>5. /\ totals \in [Read -> Nat \cup {-1}]
      /\ \A m \in Read : totals[m] = -1 \/ (query.docs[m] # "closed" /\ totals[m] \in during.lives[m])
  <2> HIDE DEF shown
  <2>1. \A m \in Read : totals[m] = IF m \in shown \ ClosedDocs(query.docs) THEN ItemOf(m) ELSE -1
    OBVIOUS
  <2>2. \A m \in Read : m \notin ClosedDocs(query.docs) => query.docs[m] # "closed"
    BY DEF ClosedDocs
  <2>3. totals \in [Read -> Nat \cup {-1}]
    BY <1>4, <2>2
  <2> HIDE DEF totals
  <2>4. ASSUME NEW m \in Read
        PROVE  totals[m] = -1 \/ (query.docs[m] # "closed" /\ totals[m] \in during.lives[m])
    BY <1>4, <2>1, <2>2
  <2>5. QED
    BY <2>3, <2>4
<1>6. todo \subseteq ClosedDocs(query.docs) /\ ClosedDocs(query.docs) \subseteq Read
  BY DEF ClosedDocs
<1> HIDE DEF totals, todo
<1>7. /\ next \in QueryStates /\ next.docs = query.docs /\ next.pc = "models" /\ next.kind = query.kind
      /\ next.month = query.month /\ next.anchor = query.anchor /\ next.total = totals
      /\ next.split = query.split /\ next.todo = todo
  BY <1>1, <1>5, <1>6 DEF QueryStates, Phases, Asked
<1> HIDE DEF next
<1>8. query' = next
  BY <1>2 DEF Step
<1>9. Shape'
  <2>1. ListShape'
    BY <1>1, <1>3, <1>5, <1>6, <1>7, <1>8 DEF ListShape, ClosedDocs
  <2>2. QED
    BY <1>1, <1>7, <1>8, <2>1 DEF Shape, SummaryShape
<1>10. QED
  BY <1>1, <1>2, <1>5, <1>7, <1>9, ListStep

LEMMA RollupByModelKeeps ==
  ASSUME ReadersInv, RollupByModel
  PROVE  ReadersInv'
<1> DEFINE splits == [m \in Read |-> IF query.total[m] = -1 THEN -1 ELSE ItemOf(m)]
           next == [query EXCEPT !.split = splits, !.pc = "snapshots"]
<1>1. /\ BooksTyped /\ query \in QueryStates /\ Shape /\ ListShape /\ query.pc = "models"
      /\ query.pc \in Asked /\ query.kind # "summary"
  BY ListKinds DEF RollupByModel
<1>2. Step(next)
  BY DEF RollupByModel
<1>3. /\ query.kind \in {"series", "bills"} /\ query.anchor # 0 /\ query.todo \subseteq ClosedDocs(query.docs)
      /\ \A m \in Read : query.docs[m] # "unread" /\ (query.total[m] # -1 => query.docs[m] # "closed")
  BY <1>1 DEF ListShape, Shape
<1>4. \A m \in Read : query.total[m] # -1 => ItemOf(m) \in Nat /\ ItemOf(m) \in during.lives[m]
  BY <1>1, <1>3, ItemSeen
<1>5. /\ splits \in [Read -> Nat \cup {-1}]
      /\ \A m \in Read : splits[m] = -1 \/ (query.docs[m] # "closed" /\ splits[m] \in during.lives[m])
  <2>1. \A m \in Read : splits[m] = IF query.total[m] = -1 THEN -1 ELSE ItemOf(m)
    OBVIOUS
  <2>2. splits \in [Read -> Nat \cup {-1}]
    BY <1>4
  <2> HIDE DEF splits
  <2>3. ASSUME NEW m \in Read
        PROVE  splits[m] = -1 \/ (query.docs[m] # "closed" /\ splits[m] \in during.lives[m])
    BY <1>3, <1>4, <2>1
  <2>4. QED
    BY <2>2, <2>3
<1> HIDE DEF splits
<1>6. /\ next \in QueryStates /\ next.docs = query.docs /\ next.pc = "snapshots" /\ next.kind = query.kind
      /\ next.month = query.month /\ next.anchor = query.anchor /\ next.total = query.total
      /\ next.split = splits /\ next.todo = query.todo
  BY <1>1, <1>5 DEF QueryStates, Phases, Asked
<1> HIDE DEF next
<1>7. query' = next
  BY <1>2 DEF Step
<1>8. Shape'
  <2>1. ListShape'
    BY <1>3, <1>6, <1>7 DEF ListShape, ClosedDocs
  <2>2. QED
    BY <1>1, <1>3, <1>6, <1>7, <2>1 DEF Shape, SummaryShape
<1>9. QED
  BY <1>1, <1>2, <1>5, <1>6, <1>8, ListStep

LEMMA BillItemsKeeps ==
  ASSUME ReadersInv, BillItems
  PROVE  ReadersInv'
<1> DEFINE shown == {m \in Documented \cup {t \in Traced : t >= LiveFrom(query.docs, query.anchor)} :
                       ~IsFuture(query.docs, m)}
           totals == [m \in Read |-> IF m \in shown \ ClosedDocs(query.docs) THEN Live(m) ELSE -1]
           todo == ClosedDocs(query.docs)
           next == [query EXCEPT !.total = totals, !.todo = todo, !.pc = "snapshots"]
<1>1. /\ BooksTyped /\ query \in QueryStates /\ Shape /\ ListShape /\ query.pc = "rollup"
      /\ query.pc \in Asked /\ query.kind = "bills" /\ query.kind # "summary"
      /\ \A m \in Read : query.docs[m] # "closed" => m \in ByStamps(query) /\ Live(m) \in during.lives[m]
  BY ListKinds DEF BillItems
<1>2. Step(next)
  BY DEF BillItems
<1>3. \A m \in Read : Live(m) \in Nat
  BY <1>1, SumsTyped
<1>4. /\ totals \in [Read -> Nat \cup {-1}]
      /\ \A m \in Read : totals[m] = -1 \/ (query.docs[m] # "closed" /\ totals[m] \in during.lives[m])
  <2> HIDE DEF shown
  <2>1. \A m \in Read : totals[m] = IF m \in shown \ ClosedDocs(query.docs) THEN Live(m) ELSE -1
    OBVIOUS
  <2>2. \A m \in Read : m \notin ClosedDocs(query.docs) => query.docs[m] # "closed"
    BY DEF ClosedDocs
  <2>3. totals \in [Read -> Nat \cup {-1}]
    BY <1>3
  <2> HIDE DEF totals
  <2>4. ASSUME NEW m \in Read
        PROVE  totals[m] = -1 \/ (query.docs[m] # "closed" /\ totals[m] \in during.lives[m])
    BY <1>1, <2>1, <2>2
  <2>5. QED
    BY <2>3, <2>4
<1>5. todo \subseteq ClosedDocs(query.docs) /\ todo \subseteq Read
  BY DEF ClosedDocs
<1> HIDE DEF totals, todo
<1>6. /\ next \in QueryStates /\ next.docs = query.docs /\ next.pc = "snapshots" /\ next.kind = query.kind
      /\ next.month = query.month /\ next.anchor = query.anchor /\ next.total = totals
      /\ next.split = query.split /\ next.todo = todo
  BY <1>1, <1>4, <1>5 DEF QueryStates, Phases, Asked
<1> HIDE DEF next
<1>7. query' = next
  BY <1>2 DEF Step
<1>8. Shape'
  <2>1. ListShape'
    BY <1>5, <1>6, <1>7 DEF ListShape, ClosedDocs
  <2>2. QED
    BY <1>1, <1>6, <1>7, <2>1 DEF Shape, SummaryShape
<1>9. QED
  BY <1>1, <1>2, <1>4, <1>6, <1>8, ListStep

LEMMA FromSnapshotKeeps ==
  ASSUME ReadersInv, NEW m \in Read, FromSnapshot(m)
  PROVE  ReadersInv'
<1> DEFINE totals == [query.total EXCEPT ![m] = Current(m)]
           todo == query.todo \ {m}
           next == [query EXCEPT !.total = totals, !.todo = todo]
<1>1. /\ BooksTyped /\ query \in QueryStates /\ Shape /\ ListShape /\ query.pc = "snapshots"
      /\ query.pc \in Asked /\ query.kind # "summary" /\ m \in query.todo
  BY ListKinds DEF FromSnapshot
<1>2. Step(next)
  BY DEF FromSnapshot
<1>3. query.todo \subseteq ClosedDocs(query.docs) /\ query.docs[m] = "closed" /\ query.kind \in {"series", "bills"}
  BY <1>1 DEF ListShape, ClosedDocs, Shape
<1>4. totals \in [Read -> Nat \cup {-1}] /\ totals[m] = Current(m) /\ \A n \in Read : n # m => totals[n] = query.total[n]
  <2>1. Current(m) \in Nat /\ query.total \in [Read -> Nat \cup {-1}]
    BY <1>1, SumsTyped, QueryTyped
  <2>2. QED
    BY <2>1
<1>5. todo \subseteq query.todo /\ todo \in SUBSET Read
  BY <1>1, QueryTyped
<1> HIDE DEF totals, todo
<1>6. /\ next \in QueryStates /\ next.docs = query.docs /\ next.pc = "snapshots" /\ next.kind = query.kind
      /\ next.month = query.month /\ next.anchor = query.anchor /\ next.total = totals
      /\ next.split = query.split /\ next.todo = todo
  BY <1>1, <1>4, <1>5 DEF QueryStates
<1> HIDE DEF next
<1>7. query' = next
  BY <1>2 DEF Step
<1>8. Shape'
  <2>1. ListShape'
    BY <1>3, <1>5, <1>6, <1>7 DEF ListShape, ClosedDocs
  <2>2. QED
    BY <1>1, <1>3, <1>6, <1>7, <2>1 DEF Shape, SummaryShape
<1>9. \A n \in Read : \/ next.total[n] \in {query.total[n], -1}
                      \/ next.docs[n] = "closed" /\ next.total[n] = Current(n)
  BY <1>3, <1>4, <1>6
<1>10. QED
  BY <1>1, <1>2, <1>6, <1>8, <1>9, ListStep

LEMMA EndOfMonthsKeeps ==
  ASSUME ReadersInv, EndOfMonths
  PROVE  ReadersInv'
<1> DEFINE next == [query EXCEPT !.pc = "done"]
<1>1. /\ query \in QueryStates /\ Shape /\ query.pc = "snapshots" /\ query.pc \in Asked /\ query.kind # "summary"
  BY ListKinds DEF EndOfMonths
<1>2. Step(next)
  BY DEF EndOfMonths
<1>3. /\ next \in QueryStates /\ next.docs = query.docs /\ next.pc = "done" /\ next.kind = query.kind
      /\ next.month = query.month /\ next.anchor = query.anchor /\ next.total = query.total
      /\ next.split = query.split
  BY <1>1 DEF QueryStates, Phases
<1> HIDE DEF next
<1>4. query' = next
  BY <1>2 DEF Step
<1>5. Shape'
  BY <1>1, <1>3, <1>4 DEF Shape, SummaryShape, ListShape
<1>6. QED
  BY <1>1, <1>2, <1>3, <1>5, ListStep

LEMMA DailyRollupKeeps ==
  ASSUME ReadersInv, DailyRollup
  PROVE  ReadersInv'
<1> DEFINE totals == [m \in Read |-> IF m <= Now THEN DailyOf(m) ELSE -1]
           next == [query EXCEPT !.total = totals, !.pc = "done"]
<1>1. /\ BooksTyped /\ Balanced /\ query \in QueryStates /\ Shape /\ Followed /\ query.pc = "rollup"
      /\ query.pc \in Asked /\ query.kind = "daily" /\ query.kind # "summary"
      /\ \A m \in Read : query.docs[m] # "closed" => m \in ByStamps(query) /\ Live(m) \in during.lives[m]
  BY ListKinds DEF DailyRollup
<1>2. Step(next)
  BY DEF DailyRollup
<1>3. \A m \in Read : DailyOf(m) \in Nat
  <2> SUFFICES ASSUME NEW m \in Read PROVE DailyOf(m) \in Nat
    OBVIOUS
  <2>1. purse[m].billed \in Nat /\ Live(m) \in Nat
    BY <1>1, SumsTyped
  <2>2. QED
    BY <2>1 DEF DailyOf
<1>4. \A m \in Read : \/ query.docs[m] # "closed" /\ DailyOf(m) \in during.lives[m]
                      \/ query.docs[m] = "closed" /\ (m \in during.moved \/ DailyOf(m) = Current(m))
  <2> SUFFICES ASSUME NEW m \in Read
               PROVE  \/ query.docs[m] # "closed" /\ DailyOf(m) \in during.lives[m]
                      \/ query.docs[m] = "closed" /\ (m \in during.moved \/ DailyOf(m) = Current(m))
    OBVIOUS
  <2>1. CASE query.docs[m] # "closed"
    BY <1>1, <2>1 DEF DailyOf
  <2>2. CASE query.docs[m] = "closed"
    <3>1. CASE m \in during.moved
      BY <2>2, <3>1
    <3>2. CASE m \notin during.moved
      <4>1. period[m] = "closed" /\ m \notin settling
        BY <1>1, <2>2, <3>2 DEF Followed
      <4>2. Current(m) = purse[m].billed
        BY <1>1, <4>1 DEF Balanced
      <4>3. QED
        BY <2>2, <4>2 DEF DailyOf
    <3>3. QED
      BY <3>1, <3>2
  <2>3. QED
    BY <2>1, <2>2
<1>5. totals \in [Read -> Nat \cup {-1}] /\ \A m \in Read : totals[m] \in {DailyOf(m), -1}
  BY <1>3
<1> HIDE DEF totals
<1>6. /\ next \in QueryStates /\ next.docs = query.docs /\ next.pc = "done" /\ next.kind = query.kind
      /\ next.month = query.month /\ next.anchor = query.anchor /\ next.total = totals
      /\ next.split = query.split
  BY <1>1, <1>5 DEF QueryStates, Phases
<1> HIDE DEF next
<1>7. query' = next
  BY <1>2 DEF Step
<1>8. Shape'
  BY <1>1, <1>6, <1>7 DEF Shape, SummaryShape, ListShape
<1>9. \A m \in Read : \/ next.total[m] \in {query.total[m], -1}
                      \/ next.docs[m] # "closed" /\ next.total[m] \in during.lives[m]
                      \/ /\ next.docs[m] = "closed"
                         /\ (query.kind = "daily" /\ m \in during.moved) \/ next.total[m] = Current(m)
  BY <1>1, <1>4, <1>5, <1>6
<1>10. QED
  BY <1>1, <1>2, <1>6, <1>8, <1>9, ListStep

LEMMA AccruedCostKeeps ==
  ASSUME ReadersInv, AccruedCost
  PROVE  ReadersInv'
<1> DEFINE totals == [m \in Read |-> IF m = Now THEN Live(m) ELSE -1]
           next == [query EXCEPT !.total = totals, !.pc = "done"]
<1>1. /\ BooksTyped /\ query \in QueryStates /\ Shape /\ query.pc = "accrue"
      /\ query.pc \in Asked /\ query.kind = "projection" /\ query.kind # "summary" /\ query.docs = Unread
      /\ \A m \in Read : query.docs[m] # "closed" => m \in ByStamps(query) /\ Live(m) \in during.lives[m]
  BY ListKinds DEF AccruedCost, Shape
<1>2. Step(next)
  BY DEF AccruedCost
<1>3. \A m \in Read : query.docs[m] = "unread" /\ Live(m) \in Nat /\ Live(m) \in during.lives[m]
  BY <1>1, SumsTyped DEF Unread
<1>4. totals \in [Read -> Nat \cup {-1}] /\ \A m \in Read : totals[m] \in {Live(m), -1}
  BY <1>3
<1> HIDE DEF totals
<1>5. /\ next \in QueryStates /\ next.docs = query.docs /\ next.pc = "done" /\ next.kind = query.kind
      /\ next.month = query.month /\ next.anchor = query.anchor /\ next.total = totals
      /\ next.split = query.split
  BY <1>1, <1>4 DEF QueryStates, Phases
<1> HIDE DEF next
<1>6. query' = next
  BY <1>2 DEF Step
<1>7. Shape'
  BY <1>1, <1>5, <1>6 DEF Shape, SummaryShape, ListShape
<1>8. \A m \in Read : \/ next.total[m] \in {query.total[m], -1}
                      \/ next.docs[m] # "closed" /\ next.total[m] \in during.lives[m]
  BY <1>3, <1>4, <1>5
<1>9. QED
  BY <1>1, <1>2, <1>5, <1>7, <1>8, ListStep

LEMMA CallKeeps ==
  ASSUME ReadersInv, CallNext
  PROVE  ReadersInv'
  BY BeginCallKeeps, FindPeriodKeeps, MonthStatementKeeps, ReadPendingKeeps, CountQuarantinedKeeps,
     ReadPeriodsKeeps, ReadAnchorKeeps, MonthlyRollupKeeps, RollupByModelKeeps, BillItemsKeeps,
     DailyRollupKeeps, AccruedCostKeeps, EndOfMonthsKeeps, FromSnapshotKeeps
     DEF CallNext

LEMMA ReadersStart ==
  ASSUME ReadersInit
  PROVE  ReadersInv
<1>1. LastRead \in Nat /\ LastRead > 0 /\ 1 \in Read
  BY ReadersAssumption DEF Read
<1>2. BooksTyped
  <2>1. NoTraces \in Purses
    BY DEF NoTraces, Purses
  <2>2. over \in Nat
    BY <1>1 DEF ReadersInit
  <2>3. <<>> \in Seq(Nat)
    OBVIOUS
  <2>4. QED
    BY <2>1, <2>2, <2>3 DEF ReadersInit, BooksTyped
<1>3. /\ query.kind = "none" /\ query.pc = "idle" /\ query = NoRead
      /\ \A m \in Read : query.total[m] = -1 /\ query.split[m] = -1
  BY DEF ReadersInit, NoRead, NoSums
<1>4. query \in QueryStates
  <2>1. Unread \in [Read -> {"unread", "absent", "open", "closed"}] /\ NoSums \in [Read -> Nat \cup {-1}]
        /\ 0 \in 0..(LastRead + 1)
    BY <1>1 DEF Unread, NoSums
  <2>2. NoRead \in QueryStates
    <3> HIDE DEF Unread, NoSums
    <3>1. QED
      BY <1>1, <2>1 DEF QueryStates, NoRead, Phases
  <2>3. QED
    BY <1>3, <2>2
<1>5. during \in Histories
  BY DEF ReadersInit, NoHistory, Histories
<1>6. Balanced
  BY DEF ReadersInit, Balanced
<1>7. Shape
  BY <1>3 DEF Shape, SummaryShape, ListShape
<1>8. Followed /\ Honest /\ Undisturbed
  BY <1>3 DEF Followed, Honest, HonestTotal, HonestSplit, Undisturbed, Asked
<1>9. QED
  BY <1>2, <1>4, <1>5, <1>6, <1>7, <1>8 DEF ReadersInv

LEMMA ReadersKeep ==
  ASSUME ReadersInv, [ReadersNext]_readersVars
  PROVE  ReadersInv'
<1>1. CASE ReadersNext
  BY <1>1, BooksKeep, CallKeeps DEF ReadersNext
<1>2. CASE UNCHANGED readersVars
  <2>1. UNCHANGED <<over, period, purse, frozen, settling, query, during>>
    BY <1>2 DEF readersVars, books
  <2>2. BooksTyped' /\ Balanced' /\ query' \in QueryStates /\ during' \in Histories
    BY <2>1 DEF ReadersInv, BooksTyped, Balanced, Current, Live
  <2>3. Shape'
    BY <2>1 DEF ReadersInv, Shape, SummaryShape, ListShape, Target, ClosedDocs
  <2>4. Followed'
    BY <2>1 DEF ReadersInv, Followed, ByStamps, ByBill, Concerned, Live, Current
  <2>5. Honest'
    BY <2>1 DEF ReadersInv, Honest, HonestTotal, HonestSplit, Frozen
  <2>6. Undisturbed'
    BY <2>1 DEF ReadersInv, Undisturbed, Frozen, Current, Live, PendingPriceSummary, Quarantined
  <2>7. QED
    BY <2>2, <2>3, <2>4, <2>5, <2>6 DEF ReadersInv
<1>3. QED
  BY <1>1, <1>2

\* The three reads of a summary add up to the month when nothing moved.
LEMMA AddsUp ==
  ASSUME ReadersInv, query.pc = "done", query.kind = "summary", during.settled, during.moves = 0
  PROVE  All(purse[query.month]) = query.total[query.month] + query.pending
                                   + (IF Frozen(query.month) THEN query.held ELSE 0)
<1> DEFINE m == query.month
<1>1. /\ BooksTyped /\ Balanced /\ SummaryShape /\ Undisturbed /\ m \in Read
  BY QueryTyped DEF ReadersInv, Shape
<1>2. query.total[m] # -1 /\ query.pending # -1 /\ query.held # -1
  BY <1>1 DEF SummaryShape
<1>3. /\ settling = {} /\ query.docs[m] = period[m]
      /\ query.total[m] = IF Frozen(m) THEN Current(m) ELSE Live(m)
      /\ query.pending = PendingPriceSummary(m, query.docs) /\ query.held = Quarantined(m)
  BY <1>1, <1>2 DEF Undisturbed
<1>4. /\ purse[m].billed \in Nat /\ purse[m].late \in Nat
      /\ purse[m].pending \in Nat /\ purse[m].pendingLate \in Nat
  BY <1>1, SumsTyped
<1>5. CASE Frozen(m)
  <2>1. query.total[m] = purse[m].billed
    BY <1>1, <1>3, <1>5 DEF Balanced, Frozen
  <2>2. query.pending = purse[m].pending + 0
    BY <1>3, <1>5 DEF PendingPriceSummary, Frozen
  <2>3. QED
    BY <1>3, <1>4, <1>5, <2>1, <2>2 DEF All, Quarantined
<1>6. CASE ~Frozen(m)
  <2>1. query.pending = purse[m].pending + purse[m].pendingLate
    BY <1>3, <1>6 DEF PendingPriceSummary, Frozen
  <2>2. QED
    BY <1>3, <1>4, <1>6, <2>1 DEF All, Live
<1>7. QED
  BY <1>5, <1>6

LEMMA AnswerIsHonest ==
  ASSUME ReadersInv
  PROVE  OneTotalPerMonth
<1> SUFFICES ASSUME query.pc = "done" PROVE OneTotalPerMonth
  BY DEF OneTotalPerMonth
<1>1. Honest
  BY DEF ReadersInv
<1>2. \A m \in Answered :
         CASE Frozen(m) /\ query.kind = "daily" ->
                m \notin during.moved => query.total[m] \in during.frozen[m]
           [] Frozen(m) /\ query.kind # "daily" -> query.total[m] \in during.frozen[m]
           [] OTHER -> query.total[m] \in during.lives[m]
  BY <1>1 DEF Honest, HonestTotal, Answered
<1>3. \A m \in Read : query.split[m] # -1 => query.split[m] \in during.lives[m]
  BY <1>1 DEF Honest, HonestSplit
<1>4. QED
  BY <1>2, <1>3, AddsUp DEF OneTotalPerMonth

\* Whatever traces land, are priced or marked, and however often months close
\* and reopen while one of the five readers (GetBillingSummaryDbUseCase,
\* GetBillingSeriesDbUseCase with its daily lens, GetBillingProjectionDbUseCase,
\* ListBillsUseCase) makes its reads: a month it calls closed shows a bill that
\* was current during the query, any other a sum of its stamps during it, and
\* an undisturbed summary accounts for every trace of its month once.
THEOREM OneTotal == ReadersSpec => []OneTotalPerMonth
<1>1. ReadersInit => ReadersInv
  BY ReadersStart
<1>2. ReadersInv /\ [ReadersNext]_readersVars => ReadersInv'
  BY ReadersKeep
<1>3. ReadersInv => OneTotalPerMonth
  BY AnswerIsHonest
<1>4. QED
  BY <1>1, <1>2, <1>3, PTL DEF ReadersSpec
=============================================================================
