------------------------------ MODULE MCBroker ------------------------------
(***************************************************************************)
(* The integrations broker of an agent, for TLC.  Its parts share one      *)
(* event loop but no state: a behaviour is one of a single part, and the   *)
(* others rest in an initial state.                                        *)
(***************************************************************************)
EXTENDS CredentialBroker, MessageRelay, ToolCatalog, DcrOAuth, Sequences, TLC

CONSTANTS
    Parts

VARIABLES
    part,  \* the component that moves, chosen once and for all
    \* The state of that component; of the instances below, in the order in which
    \* their modules declare it.
    v1, v2, v3, v4, v5, v6, v7, v8, v9, v10, v11, v12, v13, v14, v15, v16, v17

\* A save of the provider's lines restarts both processes.
RestartOnSave == [p \in Processes |-> Slugs]

-----------------------------------------------------------------------------
(* MessageRelay: connections of one or two requests in every framing a     *)
(* request may have, and responses in every framing, whole and broken.     *)

T(t) == [t |-> t, n |-> 0]
N(t, n) == [t |-> t, n |-> n]

Get == <<N("line", 0), T("end"), T("eof")>>
GetNext == <<N("line", 0), T("end")>>
HeadNext == <<N("line", 1), T("end")>>
Closing == <<N("line", 0), T("close"), T("end")>>
Firsts == {
    GetNext, HeadNext,
    <<N("line", 0), N("length", 2), T("end"), T("unit"), T("unit")>>,
    <<N("line", 0), T("chunked"), T("end"), T("unit"), T("last")>>,
    <<N("line", 0), T("chunked"), N("length", 1), T("end"), T("unit"), T("last")>>}
Refused == {
    <<N("line", 0), T("coded"), T("end"), T("unit"), T("last")>>,
    <<N("line", 0), N("length", 2), T("end"), T("unit"), T("eof")>>,
    <<N("line", 0), T("badlength"), T("end")>>,
    <<T("badline")>>,
    GetNext \o <<T("badline")>>}
RelayInputs ==
    {f \o g \o <<T("eof")>> : f \in Firsts, g \in {<<>>, GetNext, HeadNext, Closing}} \cup Refused

Ok(headers, body) == <<N("status", 200)>> \o headers \o <<T("end")>> \o body
Unit == T("unit")
WholeAnswers == {
    Ok(<<N("length", 2)>>, <<Unit, Unit>>),
    Ok(<<N("length", 0)>>, <<>>),
    Ok(<<N("length", 1), T("close")>>, <<Unit>>),
    Ok(<<>>, <<Unit, T("eof")>>),
    Ok(<<T("coded"), N("length", 1)>>, <<Unit, T("eof")>>),
    Ok(<<T("chunked")>>, <<N("size", 2), Unit, Unit, T("crlf"), N("size", 0), T("crlf")>>),
    Ok(<<T("chunked"), N("length", 1)>>,
        <<N("size", 1), Unit, T("crlf"), N("size", 0), T("trailer"), T("crlf")>>),
    <<N("status", 304), N("length", 2), T("end")>>,
    <<N("status", 101), T("end")>>,
    <<N("status", 103), T("end"), N("status", 204), T("end")>>}
BrokenAnswers == {
    Ok(<<N("length", 2)>>, <<Unit, T("eof")>>),
    Ok(<<T("badlength")>>, <<Unit>>),
    Ok(<<T("chunked")>>, <<N("size", 2), Unit, T("eof")>>),
    Ok(<<T("chunked")>>, <<N("size", 1), Unit, T("crlf"), T("eof")>>),
    Ok(<<T("chunked")>>, <<N("size", 1), Unit, T("crlf"), T("junk")>>),
    Ok(<<T("chunked")>>, <<N("size", 0), T("trailer"), T("eof")>>),
    <<T("junk"), T("eof")>>}
RelayResponses == WholeAnswers \cup BrokenAnswers

-----------------------------------------------------------------------------
(* UsageTap: streams of up to three events, named and nameless, with       *)
(* documents on one line and on two, too long, broken and without usage.   *)

TapLine(what, terminal, payload, len) ==
    [what |-> what, terminal |-> terminal, payload |-> payload, len |-> len]
NoDoc == [kind |-> "none"]
Usage(i, o, c) == [kind |-> "usage", input |-> i, output |-> o, cached |-> c]
Half == [kind |-> "half", input |-> 1, output |-> 1, cached |-> 2]

Blank == TapLine("blank", FALSE, NoDoc, 0)
Event(terminal) == TapLine("event", terminal, NoDoc, 1)
Data(terminal, payload, len) == TapLine("data", terminal, payload, len)
Body(payload, len) == TapLine("json", FALSE, payload, len)

Good == Usage(5, 2, 3)
Other == Usage(4, 1, 0)
Deltas == {
    <<Event(FALSE), Data(FALSE, Other, 1), Blank>>,
    <<Data(FALSE, Other, 4), Blank>>,
    <<TapLine("other", FALSE, NoDoc, 4)>>,
    <<>>}
Terminals == {
    <<Event(TRUE), Data(TRUE, Good, 2)>>,
    <<Data(TRUE, Good, 3)>>,
    <<Event(TRUE), Data(TRUE, Half, 1), Data(FALSE, Half, 1)>>,
    <<Event(TRUE), Data(TRUE, Good, 4)>>,
    <<Data(TRUE, Good, 4)>>,
    <<Event(TRUE), Data(TRUE, Good, 2), Data(FALSE, Good, 2)>>,
    <<Event(TRUE), Data(TRUE, NoDoc, 2)>>,
    <<Event(FALSE), Data(TRUE, Good, 1)>>}
Tails == {<<>>, <<Blank>>, <<Blank, Data(TRUE, Other, 1), Blank, Blank>>}
Streams == {d \o t \o e : d \in Deltas, t \in Terminals, e \in Tails}
Bodies == {<<Body(Good, 3)>>, <<Body(Good, 1)>>, <<Body(Good, 4)>>, <<Body(NoDoc, 3)>>}
TapResponses ==
    {[lines |-> s, typed |-> t, ok |-> "ok"] : s \in Streams \cup Bodies, t \in BOOLEAN}
        \cup {[lines |-> <<Event(TRUE), Data(TRUE, Good, 2), Blank>>, typed |-> TRUE, ok |-> k] :
                 k \in {"error", "coded"}}

-----------------------------------------------------------------------------
(* ToolCatalog: a connector of the gateway's own with a tool scope, and    *)
(* Merge with one of its own and its copy of the native one; or two that   *)
(* claim one tool id, one of them public.                                  *)

BackendOrder == <<"merge", "posthog">>
OwnConnectors == [merge |-> {"gmail", "posthog"}, posthog |-> {"posthog"}]
OffersByScope == [s \in {"wide", "narrow"} |->
    <<"merge", "gmail">> :> {"mail", "send"}
        @@ <<"merge", "posthog">> :> {"query"}
        @@ <<"posthog", "posthog">> :> (IF s = "wide" THEN {"flags", "query"} ELSE {"flags"})]
ASSUME ToolsApart
TwoConnectors == [merge |-> {"weather"}, posthog |-> {"posthog"}]
TwoOffers == [s \in {"wide"} |->
    <<"merge", "weather">> :> {"query"} @@ <<"posthog", "posthog">> :> {"flags", "query"}]

\* What a component of fewer variables leaves at rest.
Beyond15 == <<v15, v16, v17>>
Rest15 ==
    v15 = 0 /\ v16 = 0 /\ v17 = 0
Beyond14 == <<v14, Beyond15>>
Rest14 ==
    v14 = 0 /\ Rest15
Beyond6 == <<v6, v7, v8, v9, v10, v11, v12, v13, Beyond14>>
Rest6 ==
    v6 = 0 /\ v7 = 0 /\ v8 = 0 /\ v9 = 0 /\ v10 = 0 /\ v11 = 0 /\ v12 = 0 /\ v13 = 0 /\ Rest14
Beyond5 == <<v5, Beyond6>>
Rest5 ==
    v5 = 0 /\ Rest6
Beyond1 == <<v1, v2, v3, v4, Beyond5>>
Rest1 ==
    v1 = 0 /\ v2 = 0 /\ v3 = 0 /\ v4 = 0 /\ Rest5

Swaps == INSTANCE WireCredentials WITH
    Connections <- {"c1"}, Providers <- {"anthropic", "telegram"},
    Forms <- {"plain", "foreign", "placeholder", "both", "url"},
    Kinds <- {"own", "partial"}, MaxGen <- 1, None <- None, plane <- v1, cache <- v2,
    solvent <- v3, conn <- v4
ASSUME Swaps!CatalogIsClear

Directory == INSTANCE WireCredentials WITH
    Connections <- {"c1"}, Providers <- Swaps!ProviderSlugs,
    Forms <- {"plain", "foreign", "placeholder", "url"}, Kinds <- {}, MaxGen <- 0,
    None <- None, plane <- v1, cache <- v2, solvent <- v3, conn <- v4

Funded == INSTANCE WireCredentials WITH
    Connections <- {"c1", "c2"}, Providers <- {"openai-codex"}, Forms <- {"plain"},
    Kinds <- {"own", "shared"}, MaxGen <- 2, None <- None, plane <- v1, cache <- v2,
    solvent <- v3, conn <- v4

Tap == INSTANCE UsageTap WITH
    Responses <- TapResponses, Cap <- 3, Sniff <- 2, None <- None, response <- v1, at <- v2,
    tap <- v3, reports <- v4, phase <- v5

Faulty == INSTANCE ToolCatalog WITH
    Order <- BackendOrder, Merge <- "merge", ConnectorsOf <- OwnConnectors,
    Natives <- {"posthog"}, Public <- {}, Tools <- {"mail", "send", "flags", "query"},
    Offers <- OffersByScope, Scopes <- {"wide"}, Scoped <- {}, Slots <- {1, 2},
    MaxChanges <- 1, MaxRestarts <- 0, Failing <- TRUE, linked <- v1, scope <- v2,
    entries <- v3, index <- v4, bm25 <- v5, loaded <- v6, lock <- v7, refreshing <- v8,
    task <- v9, modal <- v10, leaving <- v11, excuse <- v12, changes <- v13, restarts <- v14
ASSUME Faulty!CatalogIsNamed

SharedId == INSTANCE ToolCatalog WITH
    Order <- BackendOrder, Merge <- "merge", ConnectorsOf <- TwoConnectors,
    Natives <- {"posthog"}, Public <- {<<"merge", "weather">>}, Tools <- {"flags", "query"},
    Offers <- TwoOffers, Scopes <- {"wide"}, Scoped <- {}, Slots <- {1, 2}, MaxChanges <- 1,
    MaxRestarts <- 0, Failing <- TRUE, linked <- v1, scope <- v2, entries <- v3,
    index <- v4, bm25 <- v5, loaded <- v6, lock <- v7, refreshing <- v8, task <- v9,
    modal <- v10, leaving <- v11, excuse <- v12, changes <- v13, restarts <- v14
ASSUME SharedId!CatalogIsNamed

Refreshes == INSTANCE DcrOAuth WITH
    Flows <- {1}, Refreshers <- {1, 2}, Origins <- {"default"}, Rotates <- TRUE,
    Lossy <- TRUE, MaxCuts <- 1, MaxDowns <- 1, MaxExpiries <- 2, client <- v1, token <- v2,
    disk <- v3, flow <- v4, pending <- v5, refresh <- v6, regs <- v7, live <- v8,
    issued <- v9, spent <- v10, uses <- v11, cut <- v12, late <- v13, lost <- v14,
    cuts <- v15, downs <- v16, expiries <- v17

Device == INSTANCE DeviceFlow WITH
    Providers <- {"codex"}, TwoStep <- {"codex"}, Tabs <- {"t1", "t2"}, MaxLogins <- 2,
    MaxPresses <- 2, MaxDisconnects <- 0, MaxRestarts <- 1, Faults <- TRUE, session <- v1,
    lock <- v2, job <- v3, code <- v4, tab <- v5, posts <- v6, row <- v7, card <- v8,
    marker <- v9, writers <- v10, used <- v11, stored <- v12, disturbed <- v13
ASSUME Device!DeviceAssumption

Marker == INSTANCE DeviceFlow WITH
    Providers <- {"codex"}, TwoStep <- {"codex"}, Tabs <- {"t1"}, MaxLogins <- 1,
    MaxPresses <- 1, MaxDisconnects <- 2, MaxRestarts <- 1, Faults <- TRUE, session <- v1,
    lock <- v2, job <- v3, code <- v4, tab <- v5, posts <- v6, row <- v7, card <- v8,
    marker <- v9, writers <- v10, used <- v11, stored <- v12, disturbed <- v13
ASSUME Marker!DeviceAssumption

Init ==
    /\ part \in Parts
    /\ CredentialInit
    /\ part # "credentials" => grant = [s \in Slugs |-> 0]
    /\ RelayInit
    /\ part # "relay" => input = Get
    /\ CatalogInit
    /\ part # "tools" => linked = {} /\ scope["posthog"] = "wide"
    /\ DcrInit
    /\ \/ part \in {"credentials", "relay", "tools", "signins"} /\ Rest1
       \/ part = "swaps" /\ Swaps!WireInit /\ Rest5
       \/ part = "directory" /\ Directory!WireInit /\ Rest5
       \/ part = "funded" /\ Funded!WireInit /\ Rest5
       \/ part = "tap" /\ Tap!TapInit /\ Rest6
       \/ part = "faults" /\ Faulty!CatalogInit /\ Rest15
       \/ part = "public" /\ SharedId!CatalogInit /\ Rest15
       \/ part = "refreshes" /\ Refreshes!DcrInit
       \/ part = "device" /\ Device!Init /\ Rest14
       \/ part = "marker" /\ Marker!Init /\ Rest14

\* One component takes a step of its own, the others rest.
OthersRest ==
    /\ part' = part
    /\ IF part = "credentials" THEN TRUE ELSE UNCHANGED credentialVars
    /\ IF part = "relay" THEN TRUE ELSE UNCHANGED relayVars
    /\ IF part = "tools" THEN TRUE ELSE UNCHANGED catalogVars
    /\ IF part = "signins" THEN TRUE ELSE UNCHANGED dcrVars

Next ==
    \/ part = "credentials" /\ CredentialNext /\ OthersRest /\ UNCHANGED Beyond1
    \/ part = "swaps" /\ Swaps!WireNext /\ OthersRest /\ UNCHANGED Beyond5
    \/ part = "directory" /\ Directory!WireNext /\ OthersRest /\ UNCHANGED Beyond5
    \/ part = "funded" /\ Funded!WireNext /\ OthersRest /\ UNCHANGED Beyond5
    \/ part = "relay" /\ RelayNext /\ OthersRest /\ UNCHANGED Beyond1
    \/ part = "tap" /\ Tap!TapNext /\ OthersRest /\ UNCHANGED Beyond6
    \/ part = "tools" /\ CatalogNext /\ OthersRest /\ UNCHANGED Beyond1
    \/ part = "faults" /\ Faulty!CatalogNext /\ OthersRest /\ UNCHANGED Beyond15
    \/ part = "public" /\ SharedId!CatalogNext /\ OthersRest /\ UNCHANGED Beyond15
    \/ part = "signins" /\ DcrNext /\ OthersRest /\ UNCHANGED Beyond1
    \/ part = "refreshes" /\ Refreshes!DcrNext /\ OthersRest
    \/ part = "device" /\ Device!Next /\ OthersRest /\ UNCHANGED Beyond14
    \/ part = "marker" /\ Marker!Next /\ OthersRest /\ UNCHANGED Beyond14

allVars == <<part,
            credentialVars, relayVars, catalogVars, dcrVars, v1, v2, v3, v4, v5, v6, v7, v8,
            v9, v10, v11, v12, v13, v14, v15, v16, v17>>

Spec == Init /\ [][Next]_allVars

-----------------------------------------------------------------------------
\* A secret reaches only its own provider's hosts, alone and in its place; a
\* refused request costs nothing, a funded call is metered, and an exchange
\* without the broker's credential costs nobody theirs (WireCredentials).
SecretsAreInTheirPlace ==
    /\ [](part = "swaps" => /\ Swaps!WireTypeOK
                            /\ Swaps!SecretsStayHome
                            /\ Swaps!OneCredentialPerRequest
                            /\ Swaps!PlaceholdersAreSwapped)
    /\ [](part = "directory" => Directory!RefusalsCostNothing /\ Directory!EnvironmentWorks)
    /\ [](part = "funded" => Funded!FundedCallsAreTapped)
    /\ [][part = "swaps" => Swaps!AnonymousNeverDisturbs]_allVars

\* What is metered is what a reader of all that arrived would find, within the
\* cap (UsageTap), and a request and the next one do not share tokens (MessageRelay).
StreamsAreReadWhole ==
    /\ part = "tap" => /\ Tap!TapTypeOK
                       /\ Tap!ReportsWhatArrived
                       /\ Tap!MemoryIsCapped
                       /\ Tap!OverflowIsLogged
    /\ part = "relay" => RequestsAreTakenWhole

\* Two tabs, cancelled logins and a restart leave one login per provider, and
\* the marker agrees with the card when nothing moves (DeviceFlow); a sign-in of the
\* gateway's own keeps what it got when answers are lost (DcrOAuth), and its catalogue
\* is right when listings fail or two connectors claim one tool id (ToolCatalog).
LoginsAndListingsAreSound ==
    /\ [](part = "device" => Device!DeviceTypeOK /\ Device!TasksAreSessions /\ Device!ChangedMeansStored)
    /\ [](part = "marker" => Marker!MarkerMirrorsCard)
    /\ [][part = "device" => Device!NewestLoginStands]_allVars
    /\ [](part = "refreshes" => Refreshes!SignInsAreSound)
    /\ [](part = "faults" => Faulty!CatalogIsCurrent)
    /\ [](part = "public" => SharedId!CatalogIsCurrent)
=============================================================================
