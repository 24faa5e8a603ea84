--------------------------- MODULE TelegramSetup ---------------------------
(***************************************************************************)
(* Connecting a Telegram bot: the dialog shows a link with a bot name made *)
(* for this session, the user creates the bot in Telegram, and the dialog  *)
(* polls until the manager bot's updates hold a creation under that name.  *)
(* The updates are those of every customer, are never confirmed, and come  *)
(* a page of the oldest at a time.  A connected bot has a form with the    *)
(* list of users it answers.                                               *)
(*                                                                         *)
(* The name of a session is the session itself: both are random and new.   *)
(***************************************************************************)
EXTENDS Naturals, FiniteSets, Sequences

CONSTANTS
    Owners,         \* members of the organization who own the app, one after the other
    Dialogs,        \* the setup dialogs ever opened
    MaxOwned,       \* bound on the apps ever created under the slug
    MaxTransfers,   \* bound on the changes of owner
    MaxPartings,    \* bound on the disconnects
    Nobody,         \* no owner, no row, no session
    Creators,       \* Telegram accounts
    MaxBots,        \* bound on the bots ever created under the manager bot
    MaxEdits,       \* bound on the lists sent
    Page,           \* the updates that one getUpdates returns, 100 at Telegram
    AnswersAreLost  \* whether answers are lost and Telegram fails

ASSUME TelegramAssumption ==
    /\ MaxBots \in Nat /\ MaxEdits \in Nat /\ Page \in Nat \ {0} /\ AnswersAreLost \in BOOLEAN
    /\ MaxOwned \in Nat \ {0} /\ MaxTransfers \in Nat /\ MaxPartings \in Nat
    /\ Nobody \notin Owners \cup Dialogs

VARIABLES
    owned, ticket, lapsed, connected, used,     \* app, session, expired, credential and spent of Setup
    bots,       \* at Telegram: the bots in the order of their creation
    gone,       \* at Telegram: how many of the creations are no longer kept as updates
    dialog,     \* the dialog of each session in the browser
    poll,       \* the poll_setup under way for each session
    edit,       \* the save_credentials under way for each session
    edits,      \* lists sent so far
    rows,       \* rows ever inserted: the last primary key
    edited,     \* history: the bots whose form was sent
    left        \* history: <<user, bot>> that were disconnected with no poll under way

Setup == INSTANCE SetupSessions WITH
    Users <- Owners, Sessions <- Dialogs, MaxApps <- MaxOwned, MaxMoves <- MaxTransfers,
    MaxDisconnects <- MaxPartings, None <- Nobody,
    app <- owned, session <- ticket, expired <- lapsed, credential <- connected, spent <- used

setupVars == <<owned, ticket, lapsed, connected, used>>
browserVars == <<dialog, poll, edit, edits>>
historyVars == <<edited, left>>
telegramVars == <<setupVars, bots, gone, browserVars, rows, historyVars>>

Bot == 1 .. MaxBots
BotRow == [pk : Nat \ {0}, bot : Bot, allowed : SUBSET Creators]
Ticket == [user : Owners, app : 1 .. MaxOwned, seen : BotRow \cup {Nobody}]
Poll == [stage : {"find", "token", "store"}, user : Owners, bot : 0 .. MaxBots]
Edit == [stage : {"read", "save"}, user : Owners, list : SUBSET Creators, found : BotRow \cup {Nobody}]

ASSUME NobodyAssumption == Nobody \notin Ticket

TelegramTypeOK ==
    /\ Setup!SessionTypeOK
    /\ connected \in [Owners -> BotRow \cup {Nobody}]
    /\ ticket \in [Dialogs -> Ticket \cup {Nobody}]
    /\ bots \in Seq([name : Dialogs \cup {Nobody}, creator : Creators]) /\ Len(bots) <= MaxBots
    /\ gone \in 0 .. Len(bots)
    /\ dialog \in [Dialogs -> {"none", "polling", "connected", "failed", "closed", "form"}]
    /\ poll \in [Dialogs -> Poll \cup {Nobody}] /\ edit \in [Dialogs -> Edit \cup {Nobody}]
    /\ edits \in 0 .. MaxEdits /\ rows \in Nat
    /\ edited \subseteq Bot /\ left \subseteq Owners \X Bot

TelegramInit ==
    /\ Setup!SessionInit
    /\ bots = <<>> /\ gone = 0
    /\ dialog = [s \in Dialogs |-> "none"]
    /\ poll = [s \in Dialogs |-> Nobody] /\ edit = [s \in Dialogs |-> Nobody]
    /\ edits = 0 /\ rows = 0
    /\ edited = {} /\ left = {}

-----------------------------------------------------------------------------
(* Telegram *)

Named(s) == {n \in DOMAIN bots : bots[n].name = s}

\* The user confirms the suggested name; it can be taken once.
CreateBot(s) ==
    /\ ticket[s] # Nobody /\ ticket[s].seen = Nobody
    /\ Named(s) = {} /\ Len(bots) < MaxBots
    /\ \E p \in Creators : bots' = Append(bots, [name |-> s, creator |-> p])
    /\ UNCHANGED <<setupVars, gone, browserVars, rows, historyVars>>

\* Another customer's bot, or one whose suggested name was edited.
CreateOtherBot ==
    /\ Len(bots) < MaxBots
    /\ \E p \in Creators : bots' = Append(bots, [name |-> Nobody, creator |-> p])
    /\ UNCHANGED <<setupVars, gone, browserVars, rows, historyVars>>

\* After a day, when every session of its time has expired.
DropUpdate ==
    /\ gone < Len(bots)
    /\ bots[gone + 1].name \in lapsed \cup {Nobody}
    /\ gone' = gone + 1
    /\ UNCHANGED <<setupVars, bots, browserVars, rows, historyVars>>

Updates == {n \in DOMAIN bots : gone < n /\ n <= gone + Page}

-----------------------------------------------------------------------------
(* The dialog of a new bot *)

Open(s) ==
    /\ Setup!Mint(s)
    /\ dialog' = [dialog EXCEPT ![s] = IF ticket'[s].seen = Nobody THEN "polling" ELSE "form"]
    /\ UNCHANGED <<bots, gone, poll, edit, edits, rows, historyVars>>

Close(s) ==
    /\ dialog[s] = "polling"
    /\ dialog' = [dialog EXCEPT ![s] = "closed"]
    /\ UNCHANGED <<setupVars, bots, gone, poll, edit, edits, rows, historyVars>>

\* What the browser makes of an answer; a closed dialog does not look at it.
Answer(s, state) ==
    /\ poll' = [poll EXCEPT ![s] = Nobody]
    /\ dialog' = IF dialog[s] = "polling" THEN [dialog EXCEPT ![s] = state] ELSE dialog

AskPoll(s) ==
    /\ dialog[s] = "polling" /\ poll[s] = Nobody
    /\ \/ /\ Setup!Resolves(s)
          /\ poll' = [poll EXCEPT ![s] = [stage |-> "find", user |-> owned.owner, bot |-> 0]]
          /\ UNCHANGED dialog
       \/ ~Setup!Resolves(s) /\ Answer(s, "failed")
    /\ UNCHANGED <<setupVars, bots, gone, edit, edits, rows, historyVars>>

\* Bug: any creation is taken for the one of this session.
NewestCreation(s) == Updates

Matches(s) == Named(s) \cap Updates

\* getUpdates without an offset; the newest match of the page.
FindCreation(s) ==
    /\ poll[s] # Nobody /\ poll[s].stage = "find"
    /\ IF Matches(s) = {}
       THEN Answer(s, "polling")
       ELSE /\ \E n \in Matches(s) : \A m \in Matches(s) :
                    m <= n /\ poll' = [poll EXCEPT ![s].stage = "token", ![s].bot = n]
            /\ UNCHANGED dialog
    /\ UNCHANGED <<setupVars, bots, gone, edit, edits, rows, historyVars>>

\* A getUpdates that fails reads like one with no match yet.
UpdatesFail(s) ==
    /\ AnswersAreLost /\ poll[s] # Nobody /\ poll[s].stage = "find"
    /\ Answer(s, "polling")
    /\ UNCHANGED <<setupVars, bots, gone, edit, edits, rows, historyVars>>

FetchToken(s) ==
    /\ poll[s] # Nobody /\ poll[s].stage = "token"
    /\ poll' = [poll EXCEPT ![s].stage = "store"]
    /\ UNCHANGED <<setupVars, bots, gone, dialog, edit, edits, rows, historyVars>>

TokenFails(s) ==
    /\ AnswersAreLost /\ poll[s] # Nobody /\ poll[s].stage = "token"
    /\ Answer(s, "failed")
    /\ UNCHANGED <<setupVars, bots, gone, edit, edits, rows, historyVars>>

\* update_or_create; a lost answer is a network blip, after which polling goes on.
StoreBot(s) ==
    LET r == poll[s]
        key == IF connected[r.user] = Nobody THEN rows + 1 ELSE connected[r.user].pk
    IN  /\ r # Nobody /\ r.stage = "store"
        /\ connected' = [connected EXCEPT ![r.user] =
                [pk |-> key, bot |-> r.bot, allowed |-> {bots[r.bot].creator}]]
        /\ rows' = IF connected[r.user] = Nobody THEN rows + 1 ELSE rows
        /\ Answer(s, "connected") \/ (AnswersAreLost /\ Answer(s, "polling"))
        /\ UNCHANGED <<owned, ticket, lapsed, used, bots, gone, edit, edits, historyVars>>

-----------------------------------------------------------------------------
(* The form of a connected bot *)

SendList(s) ==
    /\ dialog[s] = "form" /\ Setup!Resolves(s) /\ edit[s] = Nobody /\ edits < MaxEdits
    /\ \E list \in SUBSET Creators :
        edit' = [edit EXCEPT ![s] =
            [stage |-> "read", user |-> owned.owner, list |-> list, found |-> Nobody]]
    /\ edits' = edits + 1
    /\ edited' = edited \cup {ticket[s].seen.bot}
    /\ UNCHANGED <<setupVars, bots, gone, dialog, poll, rows, left>>

ReadConfig(s) ==
    /\ edit[s] # Nobody /\ edit[s].stage = "read"
    /\ edit' = IF connected[edit[s].user] = Nobody
               THEN [edit EXCEPT ![s] = Nobody]
               ELSE [edit EXCEPT ![s].stage = "save", ![s].found = connected[edit[s].user]]
    /\ UNCHANGED <<setupVars, bots, gone, dialog, poll, edits, rows, historyVars>>

\* An update of the config column alone, which fails when the row is gone.
SaveConfig(s) ==
    LET r == edit[s]  row == connected[r.user]
    IN  /\ r # Nobody /\ r.stage = "save"
        /\ connected' = IF row # Nobody /\ row.pk = r.found.pk
                         THEN [connected EXCEPT ![r.user].allowed = r.list]
                         ELSE connected
        /\ edit' = [edit EXCEPT ![s] = Nobody]
        /\ UNCHANGED <<owned, ticket, lapsed, used, bots, gone, dialog, poll, edits, rows, historyVars>>

-----------------------------------------------------------------------------
\* The sessions from which the bot of the owner's row could still be stored again.
Pending(s) == dialog[s] = "polling" \/ poll[s] # Nobody

LeaveBot ==
    /\ Setup!Disconnect
    /\ left' = LET u == owned.owner
               IN  IF connected[u] = Nobody \/ \E s \in Dialogs :
                                                s = bots[connected[u].bot].name /\ Pending(s)
                   THEN left
                   ELSE left \cup {<<u, connected[u].bot>>}
    /\ UNCHANGED <<bots, gone, browserVars, rows, edited>>

TelegramNext ==
    \/ Setup!SessionNext /\ UNCHANGED <<bots, gone, browserVars, rows, historyVars>>
    \/ LeaveBot \/ CreateOtherBot \/ DropUpdate
    \/ \E s \in Dialogs :
        \/ CreateBot(s) \/ Open(s) \/ Close(s) \/ AskPoll(s)
        \/ FindCreation(s) \/ UpdatesFail(s) \/ FetchToken(s) \/ TokenFails(s) \/ StoreBot(s)
        \/ SendList(s) \/ ReadConfig(s) \/ SaveConfig(s)

\* The browser asks again a second later, and each request is carried out;
\* Telegram answers one getUpdates in so many.
TelegramFairness ==
    \A s \in Dialogs :
        /\ WF_telegramVars(AskPoll(s)) /\ SF_telegramVars(FindCreation(s))
        /\ WF_telegramVars(FetchToken(s)) /\ WF_telegramVars(StoreBot(s))

TelegramSpec == TelegramInit /\ [][TelegramNext]_telegramVars
FairTelegramSpec == TelegramSpec /\ TelegramFairness

-----------------------------------------------------------------------------
\* Whoever else creates bots and polls at the time, and whatever the page of
\* updates holds, an owner is only connected to a bot that was created from a
\* link shown in a dialog of that owner's own.
BotIsFromOwnDialog ==
    \A u \in Owners : connected[u] # Nobody =>
        LET name == bots[connected[u].bot].name
        IN  name # Nobody /\ ticket[name].user = u

\* A bot that was disconnected does not come back, neither by a dialog that is
\* over nor by a list that was being saved, unless the dialog that created it
\* was still polling.
DisconnectSticks ==
    \A u \in Owners : connected[u] # Nobody => <<u, connected[u].bot>> \notin left

\* However dialogs, polls, lists and changes of owner overlap, a connected bot
\* is its owner's own and one that the owner has not let go.
BotsAreTheirOwners == TelegramTypeOK /\ BotIsFromOwnDialog /\ DisconnectSticks

Stored(s) == \E u \in Owners : connected[u] # Nobody /\ bots[connected[u].bot].name = s

\* While its dialog stays open, a bot that was created is stored in the end:
\* "concurrent connect sessions can't eat each other's events".
BotIsFound ==
    \A s \in Dialogs :
        (dialog[s] = "polling" /\ Named(s) # {}) ~> (dialog[s] # "polling" \/ Stored(s))

\* "The bot's creator is auto-added to allowed_users so the new bot answers
\* them immediately", and stays until a form that showed this bot is sent.
NewBotAnswersItsCreator ==
    \A u \in Owners : connected[u] # Nobody =>
        \/ bots[connected[u].bot].creator \in connected[u].allowed
        \/ connected[u].bot \in edited
=============================================================================
