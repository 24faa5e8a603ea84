--------------------------- MODULE WireCredentials ---------------------------
(***************************************************************************)
(* The intercepting proxy of the broker, request by request: the host of a *)
(* CONNECT decides between a pipe and an interception; a request is        *)
(* planned from what the sandbox sent, the secrets are looked up, put on   *)
(* the request, the call is refused or metered, and sent.  Meanwhile the   *)
(* credentials change in the control plane and expire in the cache.        *)
(*                                                                         *)
(* A header is [name, text, scheme, owner, gen]: the text of a secret is   *)
(* its name, its owner the provider and gen the credential it came with;   *)
(* the owner of everything else is "sandbox".                              *)
(***************************************************************************)
EXTENDS Integers, Sequences, FiniteSets, SequencesExt, TLC

-----------------------------------------------------------------------------
(* The catalog of the third-party APIs whose credentials the broker puts   *)
(* on the requests of the sandbox: which hosts are a provider's, how a     *)
(* request asks for a secret and where the secret is written, and what the *)
(* environment of the agent holds while the provider is connected.         *)
(*                                                                         *)
(* A slot says: a secret, the header (or "url") it is written to, in which *)
(* format, and the placeholder by which a request asks for it.             *)

Slot(header, secret, format, placeholder) ==
    [header |-> header, secret |-> secret, format |-> format, placeholder |-> placeholder]

\* Every request of the provider receives the secrets.
AlwaysInjectHeaders(slots) ==
    [style |-> "always", slots |-> slots, removes |-> FALSE, rejects |-> FALSE]

\* A placeholder in one header selects the secret; without the header the
\* request passes as it is.
HeaderPlaceholder(slots, removesAndRejects) ==
    [style |-> "header", slots |-> slots, removes |-> removesAndRejects,
     rejects |-> removesAndRejects]

UrlCredentialPlaceholder(secret, placeholder) ==
    [style |-> "url", slots |-> {Slot("url", secret, "raw", placeholder)},
     removes |-> TRUE, rejects |-> FALSE]

Spec(slug, hosts, behavior, env) ==
    [slug |-> slug, hosts |-> hosts, behavior |-> behavior, env |-> env]

HUMR_PLACEHOLDER_VALUE == "HUMR_PLACEHOLDER"

BearerToken == AlwaysInjectHeaders({Slot("Authorization", "access_token", "bearer", "")})
BearerKey(placeholder) ==
    HeaderPlaceholder({Slot("Authorization", "api_key", "bearer", placeholder)}, FALSE)
HeaderKey(header) ==
    HeaderPlaceholder({Slot(header, "api_key", "raw", HUMR_PLACEHOLDER_VALUE)}, TRUE)

Connectors == {
    Spec("google", {"gmail.googleapis.com", "calendar-json.googleapis.com",
                    "drive.googleapis.com", "docs.googleapis.com", "sheets.googleapis.com",
                    "people.googleapis.com", "www.googleapis.com", "oauth2.googleapis.com"},
         BearerToken, {}),
    Spec("github", {"github.com", "api.github.com", "codeload.github.com"},
         AlwaysInjectHeaders({Slot("Authorization", "access_token", "basic", "")}),
         {HUMR_PLACEHOLDER_VALUE}),
    Spec("telegram", {"api.telegram.org"},
         UrlCredentialPlaceholder("bot_token", "000000:HUMR_PLACEHOLDER"),
         {"000000:HUMR_PLACEHOLDER"}),
    Spec("slack", {"slack.com", "www.slack.com"},
         HeaderPlaceholder({Slot("Authorization", "app_token", "bearer", "xapp-HUMR_PLACEHOLDER"),
                            Slot("Authorization", "bot_token", "bearer", "xoxb-HUMR_PLACEHOLDER")},
                           FALSE),
         {"xapp-HUMR_PLACEHOLDER", "xoxb-HUMR_PLACEHOLDER"})}

LlmProviders == {
    Spec("openai-codex", {"chatgpt.com"},
         AlwaysInjectHeaders({Slot("Authorization", "access_token", "bearer", ""),
                              Slot("ChatGPT-Account-ID", "chatgpt_account_id", "raw", "")}), {}),
    Spec("nous", {"inference-api.nousresearch.com"}, BearerToken, {}),
    Spec("openrouter", {"openrouter.ai"}, BearerKey(HUMR_PLACEHOLDER_VALUE),
         {HUMR_PLACEHOLDER_VALUE}),
    Spec("openai-api", {"api.openai.com"}, BearerKey(HUMR_PLACEHOLDER_VALUE),
         {HUMR_PLACEHOLDER_VALUE}),
    Spec("anthropic", {"api.anthropic.com"}, HeaderKey("x-api-key"), {HUMR_PLACEHOLDER_VALUE})}

ToolProviders == {
    Spec("browseruse", {"api.browser-use.com"}, HeaderKey("X-Browser-Use-API-Key"),
         {HUMR_PLACEHOLDER_VALUE}),
    Spec("x", {"api.x.com"}, BearerToken, {}),
    Spec("tavily", {"api.tavily.com"}, BearerKey("tvly-HUMR_PLACEHOLDER"),
         {"tvly-HUMR_PLACEHOLDER"})}

TLS_INTERCEPT_PROVIDERS == Connectors \cup LlmProviders \cup ToolProviders

SpecOf(slug) == CHOOSE s \in TLS_INTERCEPT_PROVIDERS : s.slug = slug
ProviderSlugs == {s.slug : s \in TLS_INTERCEPT_PROVIDERS}
SecretsOf(slug) == {slot.secret : slot \in SpecOf(slug).behavior.slots}

\* A slug names one provider, a host belongs to one: the broker refuses to
\* start on a catalog of which this is false.
CatalogIsClear ==
    \A s, t \in TLS_INTERCEPT_PROVIDERS :
        s # t => s.slug # t.slug /\ s.hosts \cap t.hosts = {}

-----------------------------------------------------------------------------

CONSTANTS
    Connections,
    Providers,   \* the slugs that have a credential in this instance
    Forms,       \* bound: the forms of requests the sandbox sends
    Kinds,       \* whose credentials HUMR issues: "own", "shared", "partial"
    MaxGen,      \* credentials a provider gets
    None

VARIABLES
    plane,     \* provider -> the credential HUMR holds, None without one
    cache,     \* provider -> the credential the broker holds, None without one
    solvent,   \* whether the organization has credits
    conn       \* connection -> the exchange it is in

vars == <<plane, cache, solvent, conn>>

Idle == [phase |-> "idle", host |-> None, slug |-> None, request |-> None, plan |-> None,
         credential |-> None, out |-> None, tapped |-> FALSE, status |-> 0, calls |-> 0]

Header(name, text, scheme, owner, gen) ==
    [name |-> name, text |-> text, scheme |-> scheme, owner |-> owner, gen |-> gen]

-----------------------------------------------------------------------------
(* What the sandbox sends: nothing of a credential, one of its own, a      *)
(* placeholder in a header in either form, both, or one in the URL.        *)

CredentialHeaders(slug) ==
    {"Authorization"} \cup {s.header : s \in SpecOf(slug).behavior.slots}

Sent(name, text, scheme) == Header(name, text, scheme, "sandbox", 0)

Texts == ({slot.placeholder : slot \in UNION {SpecOf(p).behavior.slots : p \in Providers}} \ {""})
            \cup UNION {SpecOf(p).env : p \in Providers}
Names == UNION {CredentialHeaders(p) : p \in Providers} \ {"url"}
Foreign == {Sent(n, "foreign", "bearer") : n \in Names}
Placeholders == {Sent(n, t, s) : n \in Names, t \in Texts, s \in {"raw", "bearer"}}

HeadersOf(form) ==
    CASE form = "plain" -> {<<>>}
      [] form = "foreign" -> {<<h>> : h \in Foreign}
      [] form = "placeholder" -> {<<h>> : h \in Placeholders}
      [] form = "both" -> {<<h, f>> : h \in Placeholders, f \in Foreign}
      [] form = "url" -> {<<>>, <<Sent("Authorization", "foreign", "bearer")>>}

WireRequests ==
    UNION {{[headers |-> hs, url |-> Sent("url", t, "raw")] :
              hs \in HeadersOf(f), t \in IF f = "url" THEN Texts ELSE {"plain"}} : f \in Forms}

\* The hosts a CONNECT may name, as [host, dotted].
Dials ==
    {[host |-> h, dotted |-> FALSE] : h \in UNION {SpecOf(p).hosts : p \in Providers}}
        \cup {[host |-> "example.org", dotted |-> FALSE]}
        \cup {[host |-> CHOOSE h \in SpecOf(p).hosts : TRUE, dotted |-> TRUE] : p \in Providers}

-----------------------------------------------------------------------------
Credentials(p, gens) ==
    [owner : {p}, secrets : SUBSET SecretsOf(p), gen : gens, shared : BOOLEAN]

WireInit ==
    /\ plane = [p \in Providers |-> None]
    /\ cache = [p \in Providers |-> None]
    /\ solvent = TRUE
    /\ conn = [c \in Connections |-> Idle]

Go(c, fields) == conn' = [conn EXCEPT ![c] = fields @@ @]
At(c, phase) == conn[c].phase = phase
Answer(c, status) == conn' = [conn EXCEPT ![c] = [Idle EXCEPT !.phase = "closed", !.status = status]]

-----------------------------------------------------------------------------
(* Which connection is opened.                                            *)

normalize_connect_host(dial) == dial.host

\* Every intercepted host is some provider's; all others are a pipe.
Dial(c, dial) ==
    /\ At(c, "idle")
    /\ LET owners == {s \in TLS_INTERCEPT_PROVIDERS : normalize_connect_host(dial) \in s.hosts}
       IN  IF owners = {}
           THEN \E r \in WireRequests :
                    Go(c, [phase |-> "tunnel", host |-> dial.host, out |-> r, request |-> r])
           ELSE Go(c, [phase |-> "open", host |-> dial.host,
                       slug |-> (CHOOSE s \in owners : TRUE).slug])
    /\ UNCHANGED <<plane, cache, solvent>>

-----------------------------------------------------------------------------
(* Planning.                                                              *)

Named(headers, name) == SelectSeq(headers, LAMBDA h : h.name = name)
Without(headers, names) == SelectSeq(headers, LAMBDA h : h.name \notin names)

\* A bearer slot reads the token behind an optional prefix, a raw one the
\* whole value.
_incoming_placeholder_value(h, format) ==
    IF format = "raw" /\ h.scheme # "raw" THEN "" ELSE h.text

PassThrough == [kind |-> "pass", slots |-> {}, removes |-> FALSE]
Refusal == [kind |-> "refuse", slots |-> {}, removes |-> FALSE]
Injects(slots, behavior) ==
    [kind |-> "inject", slots |-> slots, removes |-> behavior.removes]

PlanHeader(headers, behavior) ==
    LET name == (CHOOSE s \in behavior.slots : TRUE).header
        incoming == Named(headers, name)
        asked == {s \in behavior.slots :
                     _incoming_placeholder_value(Head(incoming), s.format) = s.placeholder}
    IN  IF incoming = <<>>
        THEN IF behavior.rejects /\ Named(headers, "Authorization") # <<>>
             THEN Refusal ELSE PassThrough
        ELSE IF asked = {} THEN Refusal ELSE Injects(asked, behavior)

PlanUrl(url, behavior) ==
    LET slot == CHOOSE s \in behavior.slots : TRUE
    IN  IF url.text # slot.placeholder THEN Refusal ELSE Injects({slot}, behavior)

plan_injection(request, behavior) ==
    CASE behavior.style = "always" -> Injects(behavior.slots, behavior)
      [] behavior.style = "header" -> PlanHeader(request.headers, behavior)
      [] behavior.style = "url" -> PlanUrl(request.url, behavior)

\* A request is judged by what it carries, before any lookup.
Ask(c, r) ==
    /\ At(c, "open")
    /\ LET plan == plan_injection(r, SpecOf(conn[c].slug).behavior)
           asked == [Idle EXCEPT !.host = conn[c].host, !.slug = conn[c].slug,
                                 !.request = r, !.plan = plan, !.out = r]
       IN  conn' = [conn EXCEPT ![c] =
                CASE plan.kind = "refuse" -> [asked EXCEPT !.phase = "closed", !.status = 400,
                                                           !.out = None]
                  [] plan.kind = "pass" -> [asked EXCEPT !.phase = "billing"]
                  [] OTHER -> [asked EXCEPT !.phase = "lookup", !.out = None]]
    /\ UNCHANGED <<plane, cache, solvent>>

-----------------------------------------------------------------------------
(* Putting the secrets on.                                                *)

\* A fresh credential comes from the cache; otherwise HUMR is asked, which
\* answers with what it holds or not at all.
credential_for_slug(c) ==
    LET p == conn[c].slug IN
    \/ cache[p] # None /\ UNCHANGED cache /\ Go(c, [phase |-> "apply", credential |-> cache[p]])
    \/ /\ cache' = [cache EXCEPT ![p] = plane[p]]
       /\ Go(c, [phase |-> "apply", credential |-> plane[p], calls |-> 1])
    \/ UNCHANGED cache /\ Go(c, [phase |-> "apply", credential |-> cache[p], calls |-> 1])

Lookup(c) ==
    /\ At(c, "lookup")
    /\ credential_for_slug(c)
    /\ UNCHANGED <<plane, solvent>>

Managed(slot, credential) ==
    Header(slot.header, slot.secret, slot.format, credential.owner, credential.gen)

_inject_headers(headers, added) ==
    Without(headers, {h.name : h \in added}) \o SetToSeq(added)

apply_injection_plan(request, credential, plan) ==
    LET kept == IF plan.removes THEN Without(request.headers, {"Authorization"})
                ELSE request.headers
        onHeaders == {s \in plan.slots : s.header # "url"}
    IN  [headers |-> _inject_headers(kept, {Managed(s, credential) : s \in onHeaders}),
         url |-> IF onHeaders = plan.slots THEN request.url
                 ELSE Managed(CHOOSE s \in plan.slots : s.header = "url", credential)]

\* 503 when the provider is not connected, 502 when a secret is missing.
Apply(c) ==
    /\ At(c, "apply")
    /\ LET e == conn[c] IN
       IF e.credential = None THEN Answer(c, 503)
       ELSE IF {s.secret : s \in e.plan.slots} \subseteq e.credential.secrets
       THEN Go(c, [phase |-> "billing",
                   out |-> apply_injection_plan(e.request, e.credential, e.plan)])
       ELSE Answer(c, 502)
    /\ UNCHANGED <<plane, cache, solvent>>

-----------------------------------------------------------------------------
(* Billing and sending.                                                   *)

\* Bug: who funds the call is read from the cache when the bill is decided.
FundedByTheCache(c) ==
    /\ conn[c].slug = "openai-codex"
    /\ cache[conn[c].slug] # None /\ cache[conn[c].slug].shared

\* The call costs credits: HUMR funds the credential that was put on, and
\* the response can be read.
_request_is_metered(c) ==
    conn[c].credential # None /\ conn[c].credential.shared /\ conn[c].slug = "openai-codex"

decision_for_request(c) ==
    /\ At(c, "billing")
    /\ IF _request_is_metered(c) /\ ~solvent
       THEN Answer(c, 402)
       ELSE Go(c, [phase |-> "sent", tapped |-> _request_is_metered(c)])
    /\ UNCHANGED <<plane, cache, solvent>>

Evicts(c, status) == status = 401 /\ conn[c].credential # None

\* The answer is relayed; the connection serves another request or ends.
Answered(c, status) ==
    /\ At(c, "sent")
    /\ cache' = IF Evicts(c, status) THEN [cache EXCEPT ![conn[c].slug] = None] ELSE cache
    /\ \/ Answer(c, status)
       \/ conn' = [conn EXCEPT ![c] =
             [Idle EXCEPT !.phase = "open", !.host = conn[c].host, !.slug = conn[c].slug]]
    /\ UNCHANGED <<plane, solvent>>

SendFails(c) ==
    /\ At(c, "sent")
    /\ Answer(c, 502)
    /\ UNCHANGED <<plane, cache, solvent>>

Close(c) ==
    /\ conn[c].phase \in {"closed", "tunnel"}
    /\ conn' = [conn EXCEPT ![c] = Idle]
    /\ UNCHANGED <<plane, cache, solvent>>

-----------------------------------------------------------------------------
(* Around the proxy.                                                      *)

\* The user or an administrator connects, replaces or removes a credential.
GenOf(p) == IF plane[p] = None THEN 0 ELSE plane[p].gen
Issue(p, secrets, shared) ==
    /\ GenOf(p) < MaxGen
    /\ plane' = [plane EXCEPT ![p] =
          [owner |-> p, secrets |-> secrets, gen |-> GenOf(p) + 1, shared |-> shared]]

PlaneChanges(p) ==
    /\ \/ "own" \in Kinds /\ Issue(p, SecretsOf(p), FALSE)
       \/ "shared" \in Kinds /\ Issue(p, SecretsOf(p), TRUE)
       \/ "partial" \in Kinds /\ \E s \in SecretsOf(p) : Issue(p, SecretsOf(p) \ {s}, FALSE)
       \/ plane[p] # None /\ plane' = [plane EXCEPT ![p] = None]
    /\ UNCHANGED <<cache, solvent, conn>>

\* An entry expires, or a connect or disconnect drops it.
CacheLoses(p) ==
    /\ cache[p] # None
    /\ cache' = [cache EXCEPT ![p] = None]
    /\ UNCHANGED <<plane, solvent, conn>>

CreditsChange ==
    /\ solvent' = ~solvent
    /\ UNCHANGED <<plane, cache, conn>>

WireNext ==
    \/ \E c \in Connections :
          \/ \E d \in Dials : Dial(c, d)
          \/ \E r \in WireRequests : Ask(c, r)
          \/ Lookup(c) \/ Apply(c) \/ decision_for_request(c)
          \/ \E status \in {200, 401} : Answered(c, status)
          \/ SendFails(c) \/ Close(c)
    \/ \E p \in Providers : PlaneChanges(p) \/ CacheLoses(p)
    \/ CreditsChange

WireSpec == WireInit /\ [][WireNext]_vars

-----------------------------------------------------------------------------
WireTypeOK ==
    /\ \A p \in Providers :
          /\ plane[p] = None \/ plane[p] \in Credentials(p, 1..MaxGen)
          /\ cache[p] = None \/ cache[p] \in Credentials(p, 1..MaxGen)
    /\ \A c \in Connections :
          /\ conn[c].phase \in {"idle", "tunnel", "open", "lookup", "apply", "billing", "sent",
                                "closed"}
          /\ conn[c].phase \in {"billing", "sent", "tunnel"} => conn[c].out # None

Exchanges == {conn[c] : c \in Connections}
OnTheWire == {e \in Exchanges : e.phase \in {"sent", "tunnel"}}
SecretsOn(r) == {h \in ToSet(r.headers) : h.owner # "sandbox"}
                    \cup {u \in {r.url} : u.owner # "sandbox"}
\* "every other host is tunnelled opaquely and never gets a credential
\* written into it": a secret is sent only to a host its own provider lists.
SecretsStayHome ==
    \A e \in OnTheWire : \A h \in SecretsOn(e.out) : e.host \in SpecOf(h.owner).hosts

\* A request that carries a managed secret carries it once, and nothing of the
\* sandbox beside it where the provider would look for a credential.
OneCredentialPerRequest ==
    \A e \in OnTheWire : e.slug # None /\ SecretsOn(e.out) # {} =>
        \A i, j \in DOMAIN e.out.headers :
            e.out.headers[i].name \in CredentialHeaders(e.slug) =>
                /\ e.out.headers[i].owner = e.slug
                /\ e.out.headers[i].name = e.out.headers[j].name => i = j

\* No placeholder reaches a provider where its credential belongs, however
\* the sandbox spelled the host.
PlaceholdersAreSwapped ==
    \A e \in OnTheWire :
        \A s \in TLS_INTERCEPT_PROVIDERS : e.host \in s.hosts =>
            \A slot \in {b \in s.behavior.slots : b.placeholder # ""} :
                /\ slot.header = "url" => e.out.url.text # slot.placeholder
                /\ \A i \in DOMAIN e.out.headers :
                      e.out.headers[i].name = slot.header => e.out.headers[i].text # slot.placeholder

\* A call is metered exactly when the credential it carries is HUMR's own,
\* whatever happened to the connection since it was looked up.
FundedCallsAreTapped ==
    \A e \in Exchanges : e.phase = "sent" =>
        (e.tapped <=> e.slug = "openai-codex" /\ e.credential # None /\ e.credential.shared)

\* "a refused request never costs a HUMR call".
RefusalsCostNothing == \A e \in Exchanges : e.status = 400 => e.calls = 0

\* What the environment of a connected agent holds is accepted where its
\* clients put it: it is never the sandbox that is told it sent the wrong
\* thing.
EnvironmentWorks ==
    \A e \in Exchanges : e.phase = "closed" /\ e.status = 400 =>
        LET b == SpecOf(e.slug).behavior IN
        \A value \in SpecOf(e.slug).env :
            /\ b.style = "url" => e.request.url.text # value
            /\ b.style = "header" =>
                  \A s \in b.slots :
                     LET sent == Named(e.request.headers, s.header)
                     IN  sent = <<>> \/ Head(sent).text # value \/ Head(sent).scheme # s.format

\* "A 401 on anonymous traffic never touches the cache": an exchange that did
\* not carry the broker's credential does not cost anybody that credential.
AnonymousNeverDisturbs ==
    \A p \in Providers :
        cache[p] # None /\ cache'[p] = None /\ conn' # conn =>
            \E c \in Connections :
               conn'[c] # conn[c] /\ conn[c].slug = p /\ conn[c].plan.kind = "inject"
=============================================================================
