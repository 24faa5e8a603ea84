----------------------------- MODULE SlackSetup -----------------------------
(***************************************************************************)
(* Connecting a Slack bot: the two tokens of a Slack app that the operator *)
(* pastes, kept tokens, the mode that is baked into the app's manifest,    *)
(* and the account that a personal bot answers, which Slack looks up in    *)
(* the workspace of the bot's token.  A save reads the stored row, calls   *)
(* Slack for as long as it likes, and writes a whole row.                  *)
(*                                                                         *)
(* Left out: the bot's name, and the channel that a company-wide bot posts *)
(* to, which is stored as typed.                                           *)
(***************************************************************************)
EXTENDS SetupSessions

CONSTANTS
    SlackApps,      \* Slack apps, by workspace and by the manifest they were created from
    People,         \* whose e-mail address can be entered; the users are people
    Accounts,       \* <<person, workspace>>: who has a Slack account where
    MaxSaves        \* bound on the submissions

ASSUME SlackAssumption ==
    /\ \A a \in SlackApps : DOMAIN a = {"ws", "mode"} /\ a.mode \in {"personal", "company"}
    /\ Users \subseteq People /\ None \notin People /\ MaxSaves \in Nat

VARIABLES
    save,       \* per session: the save_credentials under way, None for none
    pasted,     \* history: the tokens that were submitted, for which mode, in whose session
    saves       \* submissions so far

slackVars == <<sessionVars, save, pasted, saves>>

Mode == {"personal", "company"}
Token == SlackApps \cup {None}
Account == [who : People, ws : {a.ws : a \in SlackApps}]
DmChannel == [bot : SlackApps, with : Account]

\* A bot token and an app-level token, both named by the Slack app they belong to.
Row == [bot : SlackApps, socket : SlackApps, mode : Mode,
        owner : Account \cup {None}, home : DmChannel \cup {None}]
Form == [mode : Mode, bot : Token, socket : Token, email : People \cup {None}]
Save == [stage : {"read", "tokens", "owner", "write"}, user : Users, form : Form,
         found : Row \cup {None}, owner : Account \cup {None}, home : DmChannel \cup {None}]

ASSUME NoneAssumption == None \notin SlackApps \cup Account

SlackTypeOK ==
    /\ SessionTypeOK
    /\ credential \in [Users -> Row \cup {None}]
    /\ session \in [Sessions ->
            [user : Users, app : 1 .. MaxApps, seen : Row \cup {None}] \cup {None}]
    /\ save \in [Sessions -> Save \cup {None}]
    /\ pasted \subseteq [token : SlackApps, mode : Mode, user : Users]
    /\ saves \in 0 .. MaxSaves

SlackInit ==
    /\ SessionInit
    /\ save = [s \in Sessions |-> None]
    /\ pasted = {} /\ saves = 0

-----------------------------------------------------------------------------
(* The form *)

\* What the form of a session holds when it opens.
Prefill(t) ==
    [mode |-> IF t.seen = None THEN "company" ELSE t.seen.mode,
     bot |-> None, socket |-> None,
     email |-> IF t.seen # None /\ t.seen.owner # None THEN None ELSE t.user]

Submit(s) ==
    /\ Resolves(s) /\ save[s] = None /\ saves < MaxSaves
    /\ \E form \in Form :
        /\ save' = [save EXCEPT ![s] = [stage |-> "read", user |-> app.owner, form |-> form,
                                        found |-> None, owner |-> None, home |-> None]]
        /\ pasted' = pasted \cup
                {[token |-> t, mode |-> form.mode, user |-> session[s].user] :
                    t \in {form.bot, form.socket} \ {None}}
    /\ saves' = saves + 1
    /\ UNCHANGED sessionVars

-----------------------------------------------------------------------------
(* save_credentials *)

Ends(s) == save' = [save EXCEPT ![s] = None]
Goes(s, stage) == save' = [save EXCEPT ![s].stage = stage]

\* The submitted token, else the one that is stored.
BotToken(form, found) == IF form.bot # None \/ found = None THEN form.bot ELSE found.bot
SocketToken(form, found) ==
    IF form.socket # None \/ found = None THEN form.socket ELSE found.socket

\* A mode goes with the Slack app: to change it takes two new tokens.
Allowed(form, found) ==
    /\ BotToken(form, found) # None /\ SocketToken(form, found) # None
    /\ (found # None /\ found.mode # form.mode) => (form.bot # None /\ form.socket # None)

ReadRow(s) ==
    LET r == save[s]  found == credential[r.user]
    IN  /\ r # None /\ r.stage = "read"
        /\ \/ /\ Allowed(r.form, found)
              /\ save' = [save EXCEPT ![s].stage = "tokens", ![s].found = found]
           \/ ~Allowed(r.form, found) /\ Ends(s)
        /\ UNCHANGED <<sessionVars, pasted, saves>>

\* Slack vouches for the submitted tokens; a kept one was checked when it came.
CheckTokens(s) ==
    /\ save[s] # None /\ save[s].stage = "tokens"
    /\ Goes(s, "owner")
    /\ UNCHANGED <<sessionVars, pasted, saves>>

CompanyWide(s) ==
    /\ save[s] # None /\ save[s].stage = "owner" /\ save[s].form.mode = "company"
    /\ save' = [save EXCEPT ![s].stage = "write", ![s].owner = None, ![s].home = None]
    /\ UNCHANGED <<sessionVars, pasted, saves>>

\* users.lookupByEmail and conversations.open, with the scopes of the personal manifest.
LookUpOwner(s) ==
    LET r == save[s]  bot == BotToken(r.form, r.found)
        owner == [who |-> r.form.email, ws |-> bot.ws]
    IN  /\ r # None /\ r.stage = "owner" /\ r.form.mode = "personal" /\ r.form.email # None
        /\ \/ /\ bot.mode = "personal" /\ <<owner.who, owner.ws>> \in Accounts
              /\ save' = [save EXCEPT ![s].stage = "write", ![s].owner = owner,
                                      ![s].home = [bot |-> bot, with |-> owner]]
           \/ /\ bot.mode # "personal" \/ <<owner.who, owner.ws>> \notin Accounts
              /\ Ends(s)
        /\ UNCHANGED <<sessionVars, pasted, saves>>

\* An empty address keeps the owner, of the bot that is kept.
KeepOwner(s) ==
    LET r == save[s]
        bound == r.form.bot = None /\ r.found.owner # None
    IN  /\ r # None /\ r.stage = "owner" /\ r.form.mode = "personal" /\ r.form.email = None
        /\ \/ /\ bound
              /\ save' = [save EXCEPT ![s].stage = "write", ![s].owner = r.found.owner,
                                      ![s].home = r.found.home]
           \/ ~bound /\ Ends(s)
        /\ UNCHANGED <<sessionVars, pasted, saves>>

\* Slack refuses a token or an address, or does not answer.
SlackFails(s) ==
    /\ save[s] # None
    /\ \/ save[s].stage = "tokens" /\ (save[s].form.bot # None \/ save[s].form.socket # None)
       \/ save[s].stage = "owner" /\ save[s].form.mode = "personal" /\ save[s].form.email # None
    /\ Ends(s)
    /\ UNCHANGED <<sessionVars, pasted, saves>>

NewRow(r) ==
    [bot |-> BotToken(r.form, r.found), socket |-> SocketToken(r.form, r.found),
     mode |-> r.form.mode, owner |-> r.owner, home |-> r.home]

\* update_or_create: a whole row, made of the form and of the row that was read.
Write(s) ==
    /\ save[s] # None /\ save[s].stage = "write"
    /\ credential' = [credential EXCEPT ![save[s].user] = NewRow(save[s])]
    /\ Ends(s)
    /\ UNCHANGED <<app, session, expired, spent, pasted, saves>>

-----------------------------------------------------------------------------
SlackNext ==
    \/ (SessionNext \/ Disconnect \/ \E s \in Sessions : Mint(s)) /\ UNCHANGED <<save, pasted, saves>>
    \/ \E s \in Sessions :
        \/ Submit(s) \/ ReadRow(s) \/ CheckTokens(s) \/ CompanyWide(s)
        \/ LookUpOwner(s) \/ KeepOwner(s) \/ SlackFails(s) \/ Write(s)

SlackSpec == SlackInit /\ [][SlackNext]_slackVars

-----------------------------------------------------------------------------
Connected(u) == credential[u] # None

Tokens(row) == {row.bot, row.socket}

OwnerOfBot(row) ==
    IF row.mode = "company"
    THEN row.owner = None /\ row.home = None
    ELSE /\ row.bot.mode = "personal"
         /\ row.owner # None /\ row.owner.ws = row.bot.ws
         /\ row.home = [bot |-> row.bot, with |-> row.owner]

\* The account that a personal bot answers was looked up with the very token
\* that is stored beside it, and the channel it posts to is that bot's with
\* that account; a company-wide bot has no such account.  "A resolved user_id
\* is only valid against the workspace of the bot token that resolved it."
OwnerIsOfTheBotsWorkspace ==
    \A u \in Users : Connected(u) => OwnerOfBot(credential[u])

\* Nobody is connected in a mode with tokens that were pasted for the other
\* one only: whatever was saved, kept and overtaken in between, both tokens of
\* a row were once submitted with its mode.
TokensWerePastedForTheMode ==
    \A u \in Users : Connected(u) =>
        \A t \in Tokens(credential[u]) :
            \E p \in pasted : p.token = t /\ p.mode = credential[u].mode

\* What was pasted into a dialog of one owner's is never stored for another,
\* though the app changes hands while the dialog is open.
TokensStayWithTheirOwner ==
    \A u \in Users : Connected(u) =>
        \A t \in Tokens(credential[u]) : \E p \in pasted : p.token = t /\ p.user = u

\* Every stored row is sound: a bot, its mode, its owner and its channel belong
\* together, and all of it came from the owner of the row.
SlackRowsAreSound ==
    /\ SlackTypeOK
    /\ OwnerIsOfTheBotsWorkspace
    /\ TokensWerePastedForTheMode
    /\ TokensStayWithTheirOwner

\* Session s ends its save with a form that nobody touched (but for the bot's name).
Renames(s) ==
    /\ save[s] # None /\ save[s].stage = "write" /\ save'[s] = None
    /\ save[s].form = Prefill(session[s])

\* "A blank email on save keeps the bound owner (a name-only reconfigure)".
RenameKeepsTheOwner ==
    [][\A s \in Sessions : Renames(s) => credential' = credential]_slackVars
=============================================================================
