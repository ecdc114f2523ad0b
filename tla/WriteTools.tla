----------------------------- MODULE WriteTools -----------------------------
(***************************************************************************)
(* The writes of the MCP server: a preview reads the store, shows a person *)
(* what would change and answers a confirmation token; the confirming tool *)
(* takes the token back with the request, and runs the same use case as    *)
(* the operator's jobs.  The server keeps no record of a preview: the      *)
(* signed token is the record.  Between the two calls, and between the     *)
(* steps of a confirming call, other callers, the runbook and the ingestor *)
(* move the months.                                                        *)
(*                                                                         *)
(* The MAC and the hash are perfect: a token is the record it signs, a     *)
(* hash the content it covers.  Money is the number of stamped traces.     *)
(***************************************************************************)
EXTENDS Integers

CONSTANTS
  BillMonths,      \* months a caller may name
  CurrentMonth,    \* the month under way
  Prices,          \* price keys (model and token type)
  Terms,           \* what a registration says: price and effectiveFrom
  SameDate,        \* [Terms -> SUBSET Terms]: same effectiveFrom
  Reasons,         \* reasons of a reopen
  Callers,         \* a tenant and a subject, of a master: see SessionDoor
  Calls,           \* confirming calls under way
  Ttl,             \* CONFIRMATION_TTL_MS
  None,            \* no etag, no content, no row
  MaxClock, MaxVersion, MaxPerMonth   \* bounds

ASSUME WriteToolsAssumption ==
  /\ BillMonths \subseteq Nat /\ BillMonths # {}
  /\ {CurrentMonth, Ttl, MaxClock, MaxVersion, MaxPerMonth} \subseteq Nat
  /\ SameDate \in [Terms -> SUBSET Terms]

VARIABLES
  ledger,     \* the months: lifecycle, live counts, what the last close froze
  registry,   \* price versions: key and terms
  clock,
  minted,     \* history: the tokens minted, each with the row its preview showed
  call        \* confirming calls

toolStore == <<ledger, registry>>
tools == <<toolStore, clock, minted, call>>

-----------------------------------------------------------------------------
(* The requests, and the record a token binds. *)

CloseRequests == [action : {"close_period"}, id : BillMonths, content : {None}]
ReopenRequests == [action : {"reopen_period"}, id : BillMonths, content : Reasons]
PriceRequests == [action : {"register_price"}, id : Prices, content : Terms]
Requests == CloseRequests \cup ReopenRequests \cup PriceRequests

\* The kind follows from the action.
Expected(caller, request, etag) ==
  [caller |-> caller, action |-> request.action, id |-> request.id,
   etag |-> etag, hash |-> request.content]

Fields == {"caller", "action", "id", "etag", "hash"}

-----------------------------------------------------------------------------
(* /bills, as the tools read it. *)

HasRow(m) == ledger[m].status # "absent" \/ ledger[m].stamped + ledger[m].pending > 0

\* A closed month shows its snapshot; any other one its live numbers.
RowOf(m) ==
  IF ledger[m].status = "closed"
  THEN [status |-> "closed", version |-> ledger[m].version, total |-> ledger[m].frozen, pending |-> 0]
  ELSE [status |-> "open", version |-> 0, total |-> ledger[m].stamped, pending |-> ledger[m].pending]

Row(m) == IF HasRow(m) THEN RowOf(m) ELSE None

\* Faulty: the stamp of a month is its lifecycle state.
StateEtag(row) == IF row = None THEN row ELSE [status |-> row.status, version |-> row.version]

\* It covers the numbers the preview showed.
PeriodEtag(row) == row

BeforeArchive(m) == ~HasRow(m) /\ \E n \in BillMonths : HasRow(n) /\ \A k \in BillMonths : HasRow(k) => m < k
OlderOpen(m) == \E n \in BillMonths : n < m /\ HasRow(n) /\ RowOf(n).status = "open"

-----------------------------------------------------------------------------
(* The use cases both the tools and the runbook run.  *)

CanClose(m) ==
  /\ m < CurrentMonth
  /\ ledger[m].status # "closed"
  /\ ledger[m].pending = 0
  /\ \A n \in BillMonths : n < m /\ ledger[n].status # "closed" => ledger[n].stamped + ledger[n].pending = 0

Closing(m) ==
  [ledger EXCEPT ![m].status = "closed", ![m].version = @ + 1, ![m].frozen = ledger[m].stamped]

CanReopen(m) == ledger[m].status = "closed"

Reopening(m) == [ledger EXCEPT ![m].status = "open"]

\* A version is refused when one of the same key and date exists.
CanRegister(key, terms) == ~\E v \in registry : v.id = key /\ v.terms \in SameDate[terms]

-----------------------------------------------------------------------------
Month == [status : {"absent", "open", "closed"}, version : 0..MaxVersion,
          stamped : 0..MaxPerMonth, pending : 0..MaxPerMonth, frozen : 0..MaxPerMonth]

BillRows == {None} \cup [status : {"open", "closed"}, version : 0..MaxVersion,
                         total : 0..MaxPerMonth, pending : 0..MaxPerMonth]

Bindings == [caller : Callers, action : {"close_period", "reopen_period", "register_price"},
             id : BillMonths \cup Prices, etag : BillRows, hash : {None} \cup Reasons \cup Terms]

Tokens == [bound : Bindings, expires : 0..MaxClock + Ttl, signed : BOOLEAN]

NoCall == [pc |-> "idle"]
Underway == [pc : {"verified", "read"}, caller : Callers, request : Requests,
             token : Tokens, row : BillRows, at : 0..MaxClock]

WriteToolsTypeOK ==
  /\ ledger \in [BillMonths -> Month]
  /\ registry \subseteq [id : Prices, terms : Terms]
  /\ clock \in 0..MaxClock
  /\ minted \subseteq [token : Tokens, row : BillRows]
  /\ call \in [Calls -> {NoCall} \cup Underway]

WriteToolsInit ==
  /\ ledger = [m \in BillMonths |-> [status |-> "absent", version |-> 0, stamped |-> 0,
                                     pending |-> 0, frozen |-> 0]]
  /\ registry = {}
  /\ clock = 0
  /\ minted = {}
  /\ call = [c \in Calls |-> NoCall]

-----------------------------------------------------------------------------
(* Previews: what would refuse the write, and a token when nothing does. *)

\* The archive does not reach back so far, the month is not over, an older
\* one is open, it is closed already, or executions wait for a price.
CloseBlocked(m) ==
  \/ BeforeArchive(m)
  \/ m >= CurrentMonth
  \/ OlderOpen(m)
  \/ HasRow(m) /\ (RowOf(m).status = "closed" \/ RowOf(m).pending > 0)

ReopenBlocked(m) == ~HasRow(m) \/ RowOf(m).status # "closed"

\* One token is outstanding: each is judged by itself.
Mint(caller, request, row) ==
  /\ minted = {}
  /\ minted' = {[token |-> [bound |-> Expected(caller, request, PeriodEtag(row)),
                            expires |-> clock + Ttl, signed |-> TRUE],
                 row |-> row]}
  /\ UNCHANGED <<toolStore, clock, call>>

PreviewClose(caller, request) == ~CloseBlocked(request.id) /\ Mint(caller, request, Row(request.id))

PreviewReopen(caller, request) == ~ReopenBlocked(request.id) /\ Mint(caller, request, Row(request.id))

\* Nothing of a price is a month's: its token stamps no row.
PreviewPrice(caller, request) ==
  CanRegister(request.id, request.content) /\ Mint(caller, request, None)

-----------------------------------------------------------------------------
(* Confirming calls. *)

\* What may be presented: a token of a preview, by anyone, or one that was
\* edited to fit the request and whose MAC no longer covers it.
Presentable(caller, request) ==
  {m.token : m \in minted} \cup
  {[bound |-> Expected(caller, request, m.token.bound.etag), expires |-> m.token.expires,
    signed |-> FALSE] : m \in minted}

Drifted(token, expected, fields) == {f \in fields : token.bound[f] # expected[f]}

\* Faulty: the content is not compared.
MatchLoosely(token, expected, fields) ==
  Drifted(token, expected, fields \ {"hash"}) = {} /\ clock < token.expires

MatchConfirmation(token, expected, fields) ==
  Drifted(token, expected, fields) = {} /\ clock < token.expires

\* The etag of a period is compared after a fresh read.
BeforeRead == Fields \ {"etag"}

\* Signature, fields, window: before any store call.
Admit(c, caller, request, token, fields, pc) ==
  /\ call[c].pc = "idle"
  /\ token \in Presentable(caller, request)
  /\ token.signed
  /\ MatchConfirmation(token, Expected(caller, request, None), fields)
  /\ call' = [call EXCEPT ![c] = [pc |-> pc, caller |-> caller, request |-> request,
                                  token |-> token, row |-> None, at |-> clock]]
  /\ UNCHANGED <<toolStore, clock, minted>>

ConfirmPeriod(c, caller, request, token) == Admit(c, caller, request, token, BeforeRead, "verified")

ConfirmPrice(c, caller, request, token) == Admit(c, caller, request, token, Fields, "read")

\* STALE_PERIOD: the month is not what the preview showed.
ReadBills(c) ==
  LET row == Row(call[c].request.id) IN
  /\ call[c].pc = "verified"
  /\ call' = [call EXCEPT ![c] = IF PeriodEtag(row) = call[c].token.bound.etag
                                 THEN [call[c] EXCEPT !.pc = "read", !.row = row] ELSE NoCall]
  /\ UNCHANGED <<toolStore, clock, minted>>

(* The use case runs, or refuses: BLOCKED, INVALID_STATE, CONFLICT. *)

Performing(c, action) ==
  /\ call[c].pc = "read" /\ call[c].request.action = action
  /\ call' = [call EXCEPT ![c] = NoCall]
  /\ UNCHANGED <<clock, minted>>

PerformClose(c) ==
  LET m == call[c].request.id IN
  /\ Performing(c, "close_period")
  /\ ledger[m].version < MaxVersion
  /\ ledger' = IF CanClose(m) THEN Closing(m) ELSE ledger
  /\ UNCHANGED registry

PerformReopen(c) ==
  LET m == call[c].request.id IN
  /\ Performing(c, "reopen_period")
  /\ ledger' = IF CanReopen(m) THEN Reopening(m) ELSE ledger
  /\ UNCHANGED registry

PerformRegister(c) ==
  LET r == call[c].request IN
  /\ Performing(c, "register_price")
  /\ registry' = IF CanRegister(r.id, r.content)
                 THEN registry \cup {[id |-> r.id, terms |-> r.content]} ELSE registry
  /\ UNCHANGED ledger

\* readBills, or the use case, fails; the error boundary answers INTERNAL.
CallFails(c) ==
  /\ call[c].pc # "idle"
  /\ call' = [call EXCEPT ![c] = NoCall]
  /\ UNCHANGED <<toolStore, clock, minted>>

-----------------------------------------------------------------------------
(* Everybody else. *)

RunbookCloses(m) ==
  /\ CanClose(m) /\ ledger[m].version < MaxVersion
  /\ ledger' = Closing(m)
  /\ UNCHANGED <<registry, clock, minted, call>>

RunbookReopens(m) ==
  /\ CanReopen(m)
  /\ ledger' = Reopening(m)
  /\ UNCHANGED <<registry, clock, minted, call>>

TraceArrives(m, kind) ==
  /\ ledger[m].stamped + ledger[m].pending < MaxPerMonth
  /\ ledger' = [ledger EXCEPT ![m][kind] = @ + 1]
  /\ UNCHANGED <<registry, clock, minted, call>>

PriceIsStamped(m) ==
  /\ ledger[m].status # "closed" /\ ledger[m].pending > 0
  /\ ledger' = [ledger EXCEPT ![m].pending = @ - 1, ![m].stamped = @ + 1]
  /\ UNCHANGED <<registry, clock, minted, call>>

TimePasses ==
  /\ clock < MaxClock
  /\ clock' = clock + 1
  /\ UNCHANGED <<toolStore, minted, call>>

WriteToolsNext ==
  \/ \E caller \in Callers :
       \/ \E r \in CloseRequests : PreviewClose(caller, r)
       \/ \E r \in ReopenRequests : PreviewReopen(caller, r)
       \/ \E r \in PriceRequests : PreviewPrice(caller, r)
       \/ \E c \in Calls, r \in CloseRequests \cup ReopenRequests :
            \E token \in Presentable(caller, r) : ConfirmPeriod(c, caller, r, token)
       \/ \E c \in Calls, r \in PriceRequests :
            \E token \in Presentable(caller, r) : ConfirmPrice(c, caller, r, token)
  \/ \E c \in Calls :
       ReadBills(c) \/ PerformClose(c) \/ PerformReopen(c) \/ PerformRegister(c) \/ CallFails(c)
  \/ \E m \in BillMonths :
       \/ RunbookCloses(m) \/ RunbookReopens(m) \/ PriceIsStamped(m)
       \/ \E kind \in {"stamped", "pending"} : TraceArrives(m, kind)
  \/ TimePasses

WriteToolsSpec == WriteToolsInit /\ [][WriteToolsNext]_tools

-----------------------------------------------------------------------------
(* The token makes "confirm something the user never saw" impossible       *)
(* (confirmation.ts): a call that goes on to the write is, for that caller,*)
(* the request a preview was shown for, within its window, and the month   *)
(* stood, when the call looked, at the very numbers the preview showed.    *)
ConfirmedAsPreviewed ==
  \A c \in Calls : call[c].pc = "read" =>
    \E p \in minted :
      /\ Drifted(p.token, Expected(call[c].caller, call[c].request, p.token.bound.etag), Fields) = {}
      /\ p.row = call[c].row
      /\ call[c].at < p.token.expires

=============================================================================
