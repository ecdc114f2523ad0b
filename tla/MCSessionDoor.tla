--------------------------- MODULE MCSessionDoor ---------------------------
EXTENDS SessionDoor, TLC

Token(aud, tenant, role, org, abilities) ==
  [kid |-> "k1", aud |-> aud, tenant |-> tenant, sub |-> "someone", role |-> role, org |-> org,
   capabilities |-> NoClaim, abilities |-> abilities, exp |-> 1]

Request(at, asks, origin, token) == [at |-> at, asks |-> asks, origin |-> origin, token |-> token]

Site(host) == [https |-> TRUE, host |-> host]

Manager == Token(<<"mcp">>, "acme", "member", TRUE,
                 {<<"mcp", "billing.read">>, <<"mcp", "tracing.read">>, <<"other", "billing.export">>})

\* A master's write, a member's playbook and its write, a call from a look-alike
\* origin, an app's read, and a token of another tenant, signed with one key:
\* DoorHonest speaks of one key at a time.
MCRequests ==
  {Request("mcp", "register_price", NoOrigin, Token(<<"mcp">>, "acme", "master", FALSE, NoClaim)),
   Request("mcp", "find-cost-driver", Site(<<"console", "acme", "ai">>), Manager),
   Request("mcp", "register_price", NoOrigin, Manager),
   Request("mcp", "list_bills", Site(<<"evil-acme", "ai">>), Manager),
   Request("api", "GET /bills", NoOrigin, Token(<<"console", "billing">>, "acme", "member", FALSE, Malformed)),
   Request("api", "GET /bills", NoOrigin, Token(<<"billing">>, "other", "master", FALSE, NoClaim))}
MCApps == [a \in {"billing"} |-> {"billing.ledger"}]
MCRules == {[kind |-> "suffix", host |-> <<"acme", "ai">>], [kind |-> "exact", host |-> <<"acme", "example">>]}
DoorSym == Permutations(Handlers)
=============================================================================
