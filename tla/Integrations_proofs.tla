------------------------ MODULE Integrations_proofs ------------------------
(***************************************************************************)
(* The control plane's integrations, for every value of the constants.     *)
(*  - SlackSetup: any number of dialogs, owners, workspaces and Slack      *)
(*    apps.  The invariant says of each row, of each row that a save has   *)
(*    read, and of the row that a save is about to write, what is to hold  *)
(*    of rows.                                                             *)
(*  - TelegramSetup: any number of dialogs, bots, owners and pages of       *)
(*    updates.  The invariant follows a bot from the dialog whose link      *)
(*    created it to the poll that found it and the row that holds it, and   *)
(*    says of a bot that was let go that this dialog is over.               *)
(*  - UserOAuth: any number of overlapping refreshes.  The invariant says  *)
(*    what a refresh has in its hands: a token the provider issued, and,   *)
(*    if it was told to delete it, one the provider no longer takes.  That *)
(*    what is stored works, while no answer is lost, rests on one more:    *)
(*    whenever the row is behind its grant, one refresh, and only one,     *)
(*    has the newest token and will find the row as it read it.            *)
(*  - SharedLogins: any number of admins, targets, rows and logins.  The   *)
(*    invariant of the newest rotation says where each login is: in one    *)
(*    row or in one request that has yet to store it, with the newest      *)
(*    rotation or with the refresh that holds the row's lock.              *)
(***************************************************************************)
EXTENDS SlackSetup, TelegramSetup, UserOAuth, SharedLogins, TLAPS

Pasted(t, mode, u) ==
    /\ \E p \in pasted : p.token = t /\ p.mode = mode
    /\ \E p \in pasted : p.token = t /\ p.user = u

\* A row of u's, stored or about to be.
GoodRow(row, u) ==
    /\ row \in Row
    /\ OwnerOfBot(row)
    /\ \A t \in Tokens(row) : Pasted(t, row.mode, u)

GoodRowOrNone(row, u) == row # None => GoodRow(row, u)

GoodSave(r) ==
    /\ \A t \in {r.form.bot, r.form.socket} \ {None} : Pasted(t, r.form.mode, r.user)
    /\ r.stage # "read" => Allowed(r.form, r.found) /\ GoodRowOrNone(r.found, r.user)
    /\ r.stage = "write" => GoodRow(NewRow(r), r.user)

SlackIInv ==
    /\ SlackTypeOK
    /\ \A u \in Users : GoodRowOrNone(credential[u], u)
    /\ \A s \in Sessions : save[s] # None => GoodSave(save[s])

-----------------------------------------------------------------------------
\* What was pasted stays pasted, so rows and saves stay good.
LEMMA PastedGrows ==
    ASSUME pasted \subseteq pasted', NEW t, NEW mode, NEW u, Pasted(t, mode, u)
    PROVE  Pasted(t, mode, u)'
BY DEF Pasted

LEMMA GoodRowStays ==
    ASSUME pasted \subseteq pasted', NEW row, NEW u, GoodRow(row, u)
    PROVE  GoodRow(row, u)'
BY PastedGrows DEF GoodRow, OwnerOfBot, Tokens, Row, DmChannel, Account, Mode

LEMMA GoodSaveStays ==
    ASSUME pasted \subseteq pasted', NEW r, GoodSave(r)
    PROVE  GoodSave(r)'
<1>1. ASSUME NEW t \in {r.form.bot, r.form.socket} \ {None}
      PROVE  Pasted(t, r.form.mode, r.user)'
  BY <1>1, PastedGrows DEF GoodSave
<1>2. r.stage # "read" => GoodRowOrNone(r.found, r.user)'
  BY GoodRowStays DEF GoodSave, GoodRowOrNone
<1>3. r.stage = "write" => GoodRow(NewRow(r), r.user)'
  BY GoodRowStays DEF GoodSave
<1> QED BY <1>1, <1>2, <1>3 DEF GoodSave, Allowed, BotToken, SocketToken, NewRow

\* The tokens of a save are Slack apps' and were pasted for its mode and user.
LEMMA TokensOfSave ==
    ASSUME NEW r \in Save, GoodSave(r), r.stage # "read"
    PROVE  /\ BotToken(r.form, r.found) \in SlackApps
           /\ SocketToken(r.form, r.found) \in SlackApps
           /\ Pasted(BotToken(r.form, r.found), r.form.mode, r.user)
           /\ Pasted(SocketToken(r.form, r.found), r.form.mode, r.user)
<1> DEFINE form == r.form  found == r.found
<1>1. /\ form.bot \in Token /\ form.socket \in Token /\ form.mode \in Mode
      /\ found \in Row \cup {None}
  BY DEF Save, Form
<1>2. Allowed(form, found) /\ GoodRowOrNone(found, r.user)
  BY DEF GoodSave
<1>3. BotToken(form, found) \in SlackApps /\ SocketToken(form, found) \in SlackApps
  BY <1>1, <1>2 DEF Allowed, BotToken, SocketToken, Token, Row
<1>4. Pasted(BotToken(form, found), form.mode, r.user)
  <2>1. CASE form.bot # None
    BY <2>1 DEF GoodSave, BotToken
  <2>2. CASE form.bot = None
    BY <1>2, <2>2 DEF Allowed, BotToken, GoodRowOrNone, GoodRow, Tokens
  <2> QED BY <2>1, <2>2
<1>5. Pasted(SocketToken(form, found), form.mode, r.user)
  <2>1. CASE form.socket # None
    BY <2>1 DEF GoodSave, SocketToken
  <2>2. CASE form.socket = None
    BY <1>2, <2>2 DEF Allowed, SocketToken, GoodRowOrNone, GoodRow, Tokens
  <2> QED BY <2>1, <2>2
<1> QED BY <1>3, <1>4, <1>5

\* With an owner and a channel that belong to its bot, what a save writes is good.
LEMMA NewRowIsGood ==
    ASSUME NEW r \in Save, GoodSave(r), r.stage # "read", NEW q \in Save,
           q.form = r.form, q.found = r.found, q.user = r.user, OwnerOfBot(NewRow(q))
    PROVE  GoodRow(NewRow(q), q.user)
<1>1. NewRow(q) \in Row
  BY TokensOfSave DEF NewRow, Row, Save, Form
<1>2. \A t \in Tokens(NewRow(q)) : Pasted(t, NewRow(q).mode, q.user)
  BY TokensOfSave DEF NewRow, Tokens
<1> QED BY <1>1, <1>2 DEF GoodRow

-----------------------------------------------------------------------------
LEMMA SlackStarts == SlackInit => SlackIInv
<1> SUFFICES ASSUME SlackInit PROVE SlackIInv
  OBVIOUS
<1>1. SlackTypeOK
  BY SessionAssumption, SlackAssumption
  DEF SlackInit, SessionInit, SlackTypeOK, SessionTypeOK
<1> QED BY <1>1 DEF SlackInit, SessionInit, SlackIInv, GoodRowOrNone

\* The types and bounds.
LEMMA SlackTypesStay ==
    ASSUME SlackIInv, SlackNext
    PROVE  SlackTypeOK'
<1> USE SessionAssumption, SlackAssumption DEF SlackIInv, SlackTypeOK, SessionTypeOK
<1>1. CASE (SessionNext \/ Disconnect \/ \E s \in Sessions : Mint(s)) /\ UNCHANGED <<save, pasted, saves>>
  <2>1. CASE DeleteTags \/ CreateTags \/ RemoveApp \/ CreateApp
    <3>1. CASE DeleteTags
      BY <1>1, <3>1 DEF DeleteTags
    <3>2. CASE CreateTags
      BY <1>1, <3>2 DEF CreateTags
    <3>3. CASE RemoveApp
      <4>1. app' = [id |-> 0, created |-> app.created, owner |-> None]
        BY <3>3 DEF RemoveApp
      <4> QED BY <1>1, <3>3, <4>1 DEF RemoveApp
    <3>4. CASE CreateApp
      BY <1>1, <3>4 DEF CreateApp
    <3> QED BY <2>1, <3>1, <3>2, <3>3, <3>4
  <2>2. CASE \E s \in Sessions : Expire(s)
    BY <1>1, <2>2 DEF Expire
  <2>3. CASE Disconnect
    BY <1>1, <2>3 DEF Disconnect
  <2>4. ASSUME NEW s \in Sessions, Mint(s)
        PROVE  SlackTypeOK'
    <3>1. [user |-> app.owner, app |-> app.id, seen |-> credential[app.owner]]
            \in [user : Users, app : 1 .. MaxApps, seen : Row \cup {None}]
      BY <2>4 DEF Mint
    <3> QED BY <1>1, <2>4, <3>1 DEF Mint
  <2> QED BY <1>1, <2>1, <2>2, <2>3, <2>4 DEF SessionNext
<1>2. ASSUME NEW s \in Sessions, Submit(s)
      PROVE  SlackTypeOK'
  BY <1>2, NoneAssumption DEF Submit, Resolves, sessionVars, Save, Form, Token
<1>3. ASSUME NEW s \in Sessions, ReadRow(s) \/ CheckTokens(s) \/ CompanyWide(s) \/ SlackFails(s)
      PROVE  SlackTypeOK'
  BY <1>3 DEF ReadRow, CheckTokens, CompanyWide, SlackFails, Goes, Ends, sessionVars, Save
<1>4. ASSUME NEW s \in Sessions, LookUpOwner(s)
      PROVE  SlackTypeOK'
  <2>1. save[s] \in Save /\ GoodSave(save[s]) /\ save[s].stage = "owner"
    BY <1>4 DEF LookUpOwner
  <2>2. BotToken(save[s].form, save[s].found) \in SlackApps
    BY <2>1, TokensOfSave
  <2>3. save[s].form.email # None => save[s].form.email \in People
    BY <2>1 DEF Save, Form
  <2> QED BY <1>4, <2>1, <2>2, <2>3 DEF LookUpOwner, Ends, sessionVars, Save, Account, DmChannel
<1>5. ASSUME NEW s \in Sessions, KeepOwner(s)
      PROVE  SlackTypeOK'
  <2>1. save[s] \in Save /\ GoodSave(save[s]) /\ save[s].stage = "owner"
    BY <1>5 DEF KeepOwner
  <2>2. save[s].form.bot = None => save[s].found \in Row
    BY <2>1 DEF GoodSave, Allowed, BotToken, Save
  <2> QED BY <1>5, <2>1, <2>2 DEF KeepOwner, Ends, sessionVars, Save, Row
<1>6. ASSUME NEW s \in Sessions, Write(s)
      PROVE  SlackTypeOK'
  BY <1>6 DEF Write, Ends, GoodSave, GoodRow, Save
<1> QED BY <1>1, <1>2, <1>3, <1>4, <1>5, <1>6 DEF SlackNext

\* A step of the save of s that leaves the rows alone.
LEMMA OneSave ==
    ASSUME SlackIInv, NEW s \in Sessions, save'[s] # None => GoodSave(save[s])',
           \A x \in Sessions \ {s} : save'[x] = save[x],
           pasted \subseteq pasted', UNCHANGED credential
    PROVE  /\ \A u \in Users : GoodRowOrNone(credential[u], u)'
           /\ \A x \in Sessions : save'[x] # None => GoodSave(save[x])'
<1>1. \A u \in Users : GoodRowOrNone(credential[u], u)'
  BY GoodRowStays DEF SlackIInv, GoodRowOrNone
<1>2. ASSUME NEW x \in Sessions, save'[x] # None
      PROVE  GoodSave(save[x])'
  <2>1. CASE x = s
    BY <1>2, <2>1
  <2>2. CASE x # s
    <3>1. save'[x] = save[x] /\ GoodSave(save[x])
      BY <1>2, <2>2 DEF SlackIInv
    <3> QED BY <3>1, GoodSaveStays
  <2> QED BY <2>1, <2>2
<1> QED BY <1>1, <1>2

\* A save that ends without a row.
LEMMA Ending ==
    ASSUME SlackIInv, NEW s \in Sessions, Ends(s), UNCHANGED <<credential, pasted>>
    PROVE  /\ \A u \in Users : GoodRowOrNone(credential[u], u)'
           /\ \A x \in Sessions : save'[x] # None => GoodSave(save[x])'
<1>1. save'[s] = None /\ \A x \in Sessions \ {s} : save'[x] = save[x]
  BY DEF Ends, SlackIInv, SlackTypeOK
<1> QED BY <1>1, OneSave

\* A save that goes on with the same form, for the same user.
LEMMA SameForm ==
    ASSUME NEW r, GoodSave(r), NEW q, q.form = r.form, q.user = r.user,
           q.stage # "read" => Allowed(q.form, q.found) /\ GoodRowOrNone(q.found, q.user),
           q.stage = "write" => GoodRow(NewRow(q), q.user)
    PROVE  GoodSave(q)
BY DEF GoodSave

LEMMA GoingOn ==
    ASSUME SlackIInv, NEW s \in Sessions, UNCHANGED <<credential, pasted>>,
           \A x \in Sessions \ {s} : save'[x] = save[x], GoodSave(save'[s])
    PROVE  /\ \A u \in Users : GoodRowOrNone(credential[u], u)'
           /\ \A x \in Sessions : save'[x] # None => GoodSave(save[x])'
<1>1. GoodSave(save[s])'
  BY GoodSaveStays
<1> QED BY <1>1, OneSave

\* The reading of the row, and the checks of the tokens.
LEMMA ReadingStays ==
    ASSUME SlackIInv, NEW s \in Sessions, ReadRow(s) \/ CheckTokens(s)
    PROVE  /\ \A u \in Users : GoodRowOrNone(credential[u], u)'
           /\ \A x \in Sessions : save'[x] # None => GoodSave(save[x])'
<1>1. save[s] \in Save /\ GoodSave(save[s]) /\ save[s].user \in Users
  BY DEF SlackIInv, SlackTypeOK, ReadRow, CheckTokens, Save
<1>2. CASE ReadRow(s)
  <2> DEFINE found == credential[save[s].user]
  <2>1. GoodRowOrNone(found, save[s].user)
    BY <1>1 DEF SlackIInv
  <2>2. CASE Allowed(save[s].form, found)
                /\ save' = [save EXCEPT ![s].stage = "tokens", ![s].found = found]
    <3>1. /\ save'[s] = [save[s] EXCEPT !.stage = "tokens", !.found = found]
          /\ \A x \in Sessions \ {s} : save'[x] = save[x]
      BY <2>2 DEF SlackIInv, SlackTypeOK
    <3>2. /\ save'[s].form = save[s].form /\ save'[s].user = save[s].user
          /\ save'[s].found = found /\ save'[s].stage = "tokens"
      BY <1>1, <3>1 DEF Save
    <3>3. GoodSave(save'[s])
      BY <1>1, <2>1, <2>2, <3>2, SameForm
    <3> QED BY <1>2, <3>1, <3>3, GoingOn DEF ReadRow, sessionVars
  <2>3. CASE Ends(s)
    BY <1>2, <2>3, Ending DEF ReadRow, sessionVars
  <2> QED BY <1>2, <2>2, <2>3 DEF ReadRow
<1>3. CASE CheckTokens(s)
  <2>1. /\ save'[s] = [save[s] EXCEPT !.stage = "owner"]
        /\ \A x \in Sessions \ {s} : save'[x] = save[x]
    BY <1>3 DEF CheckTokens, Goes, SlackIInv, SlackTypeOK
  <2>2. /\ save'[s].form = save[s].form /\ save'[s].user = save[s].user
        /\ save'[s].found = save[s].found /\ save'[s].stage = "owner"
    BY <1>1, <2>1 DEF Save
  <2>3. Allowed(save[s].form, save[s].found) /\ GoodRowOrNone(save[s].found, save[s].user)
    BY <1>1, <1>3 DEF CheckTokens, GoodSave
  <2>4. GoodSave(save'[s])
    BY <1>1, <2>2, <2>3, SameForm
  <2> QED BY <1>3, <2>1, <2>4, GoingOn DEF CheckTokens, sessionVars
<1> QED BY <1>2, <1>3

\* The row that a save makes with this owner and this channel.
RowWith(r, owner, home) ==
    [bot |-> BotToken(r.form, r.found), socket |-> SocketToken(r.form, r.found),
     mode |-> r.form.mode, owner |-> owner, home |-> home]

\* The owner is found, kept or dropped: a step to "write" with some owner and channel.
LEMMA ToWrite ==
    ASSUME SlackIInv, NEW s \in Sessions, save[s] # None, save[s].stage = "owner",
           NEW acct \in Account \cup {None}, NEW chan \in DmChannel \cup {None},
           save' = [save EXCEPT ![s].stage = "write", ![s].owner = acct, ![s].home = chan],
           OwnerOfBot(RowWith(save[s], acct, chan)),
           UNCHANGED <<credential, pasted>>
    PROVE  /\ \A u \in Users : GoodRowOrNone(credential[u], u)'
           /\ \A x \in Sessions : save'[x] # None => GoodSave(save[x])'
<1>1. save[s] \in Save /\ GoodSave(save[s])
  BY DEF SlackIInv, SlackTypeOK
<1>2. /\ save'[s] = [save[s] EXCEPT !.stage = "write", !.owner = acct, !.home = chan]
      /\ \A x \in Sessions \ {s} : save'[x] = save[x]
  BY DEF SlackIInv, SlackTypeOK
<1>3. /\ save'[s].form = save[s].form /\ save'[s].user = save[s].user
      /\ save'[s].found = save[s].found /\ save'[s].stage = "write"
      /\ save'[s].owner = acct /\ save'[s].home = chan /\ save'[s] \in Save
  <2>1. save'[s] = [stage |-> "write", user |-> save[s].user, form |-> save[s].form,
                    found |-> save[s].found, owner |-> acct, home |-> chan]
    BY ONLY <1>1, <1>2 DEF Save
  <2>2. /\ save[s].user \in Users /\ save[s].form \in Form
        /\ save[s].found \in Row \cup {None}
        /\ acct \in Account \cup {None} /\ chan \in DmChannel \cup {None}
    BY <1>1 DEF Save
  <2>3. save'[s] \in Save
    BY ONLY <2>1, <2>2 DEF Save
  <2> QED BY ONLY <2>1, <2>3
<1>4. NewRow(save'[s]) = RowWith(save[s], acct, chan)
  BY <1>3 DEF NewRow, RowWith
<1>5. GoodRow(NewRow(save'[s]), save'[s].user)
  <2>1. OwnerOfBot(NewRow(save'[s])) /\ save[s].stage # "read"
    BY <1>4
  <2> QED BY ONLY <1>1, <1>3, <2>1, NewRowIsGood
<1>6. Allowed(save[s].form, save[s].found) /\ GoodRowOrNone(save[s].found, save[s].user)
  BY <1>1 DEF GoodSave
<1>7. GoodSave(save'[s])
  BY <1>1, <1>3, <1>5, <1>6, SameForm
<1> QED BY <1>2, <1>7, GoingOn

LEMMA ToWriteStays ==
    ASSUME SlackIInv, NEW s \in Sessions, CompanyWide(s) \/ LookUpOwner(s) \/ KeepOwner(s)
    PROVE  /\ \A u \in Users : GoodRowOrNone(credential[u], u)'
           /\ \A x \in Sessions : save'[x] # None => GoodSave(save[x])'
<1> DEFINE r == save[s]  bot == BotToken(r.form, r.found)
<1>1. r \in Save /\ GoodSave(r) /\ r # None /\ r.stage = "owner"
  BY DEF SlackIInv, SlackTypeOK, CompanyWide, LookUpOwner, KeepOwner
<1>2. bot \in SlackApps /\ UNCHANGED <<credential, pasted>>
  BY <1>1, TokensOfSave DEF CompanyWide, LookUpOwner, KeepOwner, sessionVars
<1>3. CASE CompanyWide(s)
  <2>1. OwnerOfBot(RowWith(r, None, None))
    BY <1>3 DEF CompanyWide, OwnerOfBot, RowWith
  <2> QED BY <1>1, <1>2, <1>3, <2>1, ToWrite DEF CompanyWide
<1>4. CASE LookUpOwner(s)
  <2> DEFINE owner == [who |-> r.form.email, ws |-> bot.ws]  home == [bot |-> bot, with |-> owner]
  <2>1. CASE /\ bot.mode = "personal"
             /\ save' = [save EXCEPT ![s].stage = "write", ![s].owner = owner, ![s].home = home]
    <3>1. owner \in Account /\ home \in DmChannel
      BY <1>1, <1>2, <1>4 DEF Save, Form, Account, DmChannel, LookUpOwner
    <3>2. OwnerOfBot(RowWith(r, owner, home))
      BY <1>4, <2>1, <3>1, NoneAssumption DEF LookUpOwner, OwnerOfBot, RowWith
    <3> HIDE DEF owner, home
    <3> QED BY <1>1, <1>2, <2>1, <3>1, <3>2, ToWrite
  <2>2. CASE Ends(s)
    BY <1>2, <2>2, Ending
  <2> QED BY <1>4, <2>1, <2>2 DEF LookUpOwner
<1>5. CASE KeepOwner(s)
  <2>1. CASE /\ r.form.bot = None /\ r.found.owner # None
             /\ save' = [save EXCEPT ![s].stage = "write", ![s].owner = r.found.owner,
                                     ![s].home = r.found.home]
    <3>1. Allowed(r.form, r.found) /\ GoodRowOrNone(r.found, r.user) /\ r.found # None
      BY <1>1, <2>1 DEF GoodSave, Allowed, BotToken
    <3>2. bot = r.found.bot /\ r.found \in Row /\ OwnerOfBot(r.found)
      BY <2>1, <3>1 DEF GoodRowOrNone, GoodRow, BotToken
    <3>3. OwnerOfBot(RowWith(r, r.found.owner, r.found.home))
      BY <1>5, <2>1, <3>2 DEF KeepOwner, OwnerOfBot, RowWith
    <3>4. r.found.owner \in Account \cup {None} /\ r.found.home \in DmChannel \cup {None}
      BY <3>2 DEF Row
    <3> QED BY <1>1, <1>2, <2>1, <3>3, <3>4, ToWrite
  <2>2. CASE Ends(s)
    BY <1>2, <2>2, Ending
  <2> QED BY <1>5, <2>1, <2>2 DEF KeepOwner
<1> QED BY <1>3, <1>4, <1>5

\* What is submitted is pasted, for the form's mode and the session's user.
LEMMA SubmitStays ==
    ASSUME SlackIInv, NEW s \in Sessions, Submit(s)
    PROVE  /\ \A u \in Users : GoodRowOrNone(credential[u], u)'
           /\ \A x \in Sessions : save'[x] # None => GoodSave(save[x])'
<1>1. PICK form \in Form :
        /\ save' = [save EXCEPT ![s] = [stage |-> "read", user |-> app.owner, form |-> form,
                                        found |-> None, owner |-> None, home |-> None]]
        /\ pasted' = pasted \cup
                {[token |-> t, mode |-> form.mode, user |-> session[s].user] :
                    t \in {form.bot, form.socket} \ {None}}
  BY DEF Submit
<1>2. /\ save'[s] = [stage |-> "read", user |-> app.owner, form |-> form,
                     found |-> None, owner |-> None, home |-> None]
      /\ \A x \in Sessions \ {s} : save'[x] = save[x]
  BY <1>1 DEF SlackIInv, SlackTypeOK
<1>3. ASSUME NEW t \in {form.bot, form.socket} \ {None}
      PROVE  Pasted(t, form.mode, app.owner)'
  <2>1. [token |-> t, mode |-> form.mode, user |-> session[s].user] \in pasted'
    BY <1>1, <1>3
  <2>2. session[s].user = app.owner /\ app' = app
    BY DEF Submit, Resolves, sessionVars
  <2> QED BY <2>1, <2>2 DEF Pasted
<1>4. GoodSave(save[s])'
  BY <1>2, <1>3 DEF GoodSave, Submit, sessionVars
<1> QED BY <1>1, <1>2, <1>4, OneSave DEF Submit, sessionVars

\* The row that is written was good before it was.
LEMMA WriteStays ==
    ASSUME SlackIInv, NEW s \in Sessions, Write(s)
    PROVE  /\ \A u \in Users : GoodRowOrNone(credential[u], u)'
           /\ \A x \in Sessions : save'[x] # None => GoodSave(save[x])'
<1>1. save[s] \in Save /\ GoodRow(NewRow(save[s]), save[s].user) /\ pasted' = pasted
  BY DEF SlackIInv, SlackTypeOK, Write, GoodSave
<1>2. ASSUME NEW u \in Users
      PROVE  GoodRowOrNone(credential[u], u)'
  <2>1. CASE u = save[s].user
    <3>1. credential'[u] = NewRow(save[s])
      BY <2>1 DEF Write, SlackIInv, SlackTypeOK
    <3> QED BY <1>1, <2>1, <3>1, GoodRowStays DEF GoodRowOrNone
  <2>2. CASE u # save[s].user
    <3>1. credential'[u] = credential[u] /\ GoodRowOrNone(credential[u], u)
      BY <2>2 DEF Write, SlackIInv, SlackTypeOK
    <3> QED BY <1>1, <3>1, GoodRowStays DEF GoodRowOrNone
  <2> QED BY <2>1, <2>2
<1>3. ASSUME NEW x \in Sessions, save'[x] # None
      PROVE  GoodSave(save[x])'
  <2>1. save'[x] = save[x] /\ GoodSave(save[x])
    BY <1>3 DEF Write, Ends, SlackIInv, SlackTypeOK
  <2> QED BY <1>1, <2>1, GoodSaveStays
<1> QED BY <1>2, <1>3

-----------------------------------------------------------------------------
LEMMA SlackStep == SlackIInv /\ [SlackNext]_slackVars => SlackIInv'
<1> SUFFICES ASSUME SlackIInv, [SlackNext]_slackVars PROVE SlackIInv'
  OBVIOUS
<1>1. CASE SlackNext
  <2>1. SlackTypeOK'
    BY <1>1, SlackTypesStay
  <2>2. /\ \A u \in Users : GoodRowOrNone(credential[u], u)'
        /\ \A x \in Sessions : save'[x] # None => GoodSave(save[x])'
    <3>1. CASE (SessionNext \/ Disconnect \/ \E s \in Sessions : Mint(s)) /\ UNCHANGED <<save, pasted, saves>>
      <4>1. ASSUME NEW u \in Users
            PROVE  credential'[u] \in {credential[u], None}
        BY <3>1 DEF SessionNext, DeleteTags, CreateTags, RemoveApp, CreateApp, Expire, Disconnect,
                    Mint, SlackIInv, SlackTypeOK
      <4>2. ASSUME NEW u \in Users
            PROVE  GoodRowOrNone(credential[u], u)'
        BY <3>1, <4>1, GoodRowStays DEF SlackIInv, GoodRowOrNone
      <4>3. \A x \in Sessions : save'[x] # None => GoodSave(save[x])'
        BY <3>1, GoodSaveStays DEF SlackIInv
      <4> QED BY <4>2, <4>3
    <3>2. ASSUME NEW s \in Sessions, SlackFails(s)
          PROVE  /\ \A u \in Users : GoodRowOrNone(credential[u], u)'
                 /\ \A x \in Sessions : save'[x] # None => GoodSave(save[x])'
      BY <3>2, Ending DEF SlackFails, sessionVars
    <3> QED BY <1>1, <3>1, <3>2, SubmitStays, ReadingStays, ToWriteStays, WriteStays DEF SlackNext
  <2> QED BY <2>1, <2>2 DEF SlackIInv
<1>2. CASE UNCHANGED slackVars
  <2>1. SlackTypeOK'
    BY <1>2 DEF SlackIInv, SlackTypeOK, SessionTypeOK, slackVars, sessionVars
  <2>2. \A u \in Users : GoodRowOrNone(credential[u], u)'
    BY <1>2, GoodRowStays DEF SlackIInv, GoodRowOrNone, slackVars, sessionVars
  <2>3. \A x \in Sessions : save'[x] # None => GoodSave(save[x])'
    BY <1>2, GoodSaveStays DEF SlackIInv, slackVars, sessionVars
  <2> QED BY <2>1, <2>2, <2>3 DEF SlackIInv
<1> QED BY <1>1, <1>2

LEMMA SlackInvariant == SlackSpec => []SlackIInv
BY SlackStarts, SlackStep, PTL DEF SlackSpec

\* The variables always have their types and bounds.
THEOREM SlackTypes == SlackSpec => []SlackTypeOK
<1>1. SlackIInv => SlackTypeOK
  BY DEF SlackIInv
<1> QED BY <1>1, SlackInvariant, PTL

\* A personal bot answers an account of its own workspace, in its own channel
\* with that account, however the saves of its owner overlap.
THEOREM OwnersAreOfTheirBotsWorkspace == SlackSpec => []OwnerIsOfTheBotsWorkspace
<1>1. SlackIInv => OwnerIsOfTheBotsWorkspace
  BY DEF SlackIInv, OwnerIsOfTheBotsWorkspace, GoodRowOrNone, GoodRow, Connected
<1> QED BY <1>1, SlackInvariant, PTL

\* Both tokens of a row were once pasted with the mode of the row.
THEOREM TokensServeTheirMode == SlackSpec => []TokensWerePastedForTheMode
<1>1. SlackIInv => TokensWerePastedForTheMode
  BY DEF SlackIInv, TokensWerePastedForTheMode, GoodRowOrNone, GoodRow, Connected, Pasted
<1> QED BY <1>1, SlackInvariant, PTL

\* Both tokens of a row were pasted in a dialog of the row's owner.
THEOREM TokensStayHome == SlackSpec => []TokensStayWithTheirOwner
<1>1. SlackIInv => TokensStayWithTheirOwner
  BY DEF SlackIInv, TokensStayWithTheirOwner, GoodRowOrNone, GoodRow, Connected, Pasted
<1> QED BY <1>1, SlackInvariant, PTL

\* A Slack row keeps its type, its workspace, its mode and its owner, whatever
\* dialogs, saves, disconnects and removals overlap.
THEOREM SlackRowsStaySound == SlackSpec => []SlackRowsAreSound
BY SlackTypes, OwnersAreOfTheirBotsWorkspace, TokensServeTheirMode, TokensStayHome, PTL
   DEF SlackRowsAreSound

-----------------------------------------------------------------------------
\* TelegramSetup.

\* The n-th bot was created from the link of s, a dialog that was opened.
OfDialog(n, s) == n \in DOMAIN bots /\ s \in Dialogs /\ bots[n].name = s /\ ticket[s] # Nobody

\* The bot of a row of u's, stored or about to be.
OwnBot(n, u) ==
    OfDialog(n, bots[n].name) /\ ticket[bots[n].name].user = u /\ <<u, n>> \notin left

GoodPoll(p, s) ==
    p # Nobody =>
        /\ ticket[s] # Nobody /\ ticket[s].user = p.user
        /\ p.stage # "find" => OfDialog(p.bot, s)

GoodDialog(d, s) ==
    /\ d # "none" => ticket[s] # Nobody
    /\ d = "form" => ticket[s].seen # Nobody

\* A bot that was let go is of a dialog that is over.
LetGo(n) == OfDialog(n, bots[n].name) /\ ~Pending(bots[n].name)

TelegramIInv ==
    /\ TelegramTypeOK
    /\ \A n \in DOMAIN bots : bots[n].name # Nobody => OfDialog(n, bots[n].name)
    /\ \A u \in Owners : connected[u] # Nobody => OwnBot(connected[u].bot, u)
    /\ \A s \in Dialogs : GoodPoll(poll[s], s) /\ GoodDialog(dialog[s], s)
    /\ \A pair \in left : LetGo(pair[2])

-----------------------------------------------------------------------------
LEMMA TelegramTypes ==
    ASSUME TelegramTypeOK
    PROVE  /\ owned \in [id : 0 .. MaxOwned, created : 0 .. MaxOwned, owner : Owners \cup {Nobody}]
           /\ owned.owner # Nobody => owned.owner \in Owners /\ owned.id \in 1 .. MaxOwned
           /\ connected \in [Owners -> BotRow \cup {Nobody}]
           /\ ticket \in [Dialogs -> Ticket \cup {Nobody}]
           /\ bots \in Seq([name : Dialogs \cup {Nobody}, creator : Creators])
           /\ DOMAIN bots = 1 .. Len(bots) /\ Len(bots) \in Nat
           /\ DOMAIN bots \subseteq Bot
           /\ \A n \in DOMAIN bots : bots[n] \in [name : Dialogs \cup {Nobody}, creator : Creators]
           /\ dialog \in [Dialogs -> {"none", "polling", "connected", "failed", "closed", "form"}]
           /\ poll \in [Dialogs -> Poll \cup {Nobody}]
           /\ edit \in [Dialogs -> Edit \cup {Nobody}]
<1> USE TelegramAssumption
<1>1. /\ owned \in [id : 0 .. MaxOwned, created : 0 .. MaxOwned, owner : Owners \cup {Nobody}]
      /\ owned.id = 0 => owned.owner = Nobody
  BY DEF TelegramTypeOK, Setup!SessionTypeOK
<1>2. owned.owner # Nobody => owned.owner \in Owners /\ owned.id \in 1 .. MaxOwned
  BY <1>1
<1>3. /\ bots \in Seq([name : Dialogs \cup {Nobody}, creator : Creators]) /\ Len(bots) <= MaxBots
      /\ connected \in [Owners -> BotRow \cup {Nobody}] /\ ticket \in [Dialogs -> Ticket \cup {Nobody}]
      /\ dialog \in [Dialogs -> {"none", "polling", "connected", "failed", "closed", "form"}]
      /\ poll \in [Dialogs -> Poll \cup {Nobody}] /\ edit \in [Dialogs -> Edit \cup {Nobody}]
  BY DEF TelegramTypeOK
<1>4. /\ DOMAIN bots = 1 .. Len(bots) /\ Len(bots) \in Nat
      /\ \A n \in DOMAIN bots : bots[n] \in [name : Dialogs \cup {Nobody}, creator : Creators]
  <2>1. PICK E : E = [name : Dialogs \cup {Nobody}, creator : Creators]
    OBVIOUS
  <2>2. bots \in Seq(E)
    BY <1>3, <2>1
  <2>3. DOMAIN bots = 1 .. Len(bots) /\ Len(bots) \in Nat /\ \A n \in 1 .. Len(bots) : bots[n] \in E
    BY ONLY <2>2
  <2> QED BY <2>1, <2>3
<1>5. DOMAIN bots \subseteq Bot
  BY <1>3, <1>4 DEF Bot
<1> QED BY <1>1, <1>2, <1>3, <1>4, <1>5

\* What a step leaves to show when bots and tickets only grow, and each thing is on its own.
LEMMA TelegramMoves ==
    ASSUME TelegramIInv, TelegramTypeOK',
           DOMAIN bots \subseteq DOMAIN bots', \A n \in DOMAIN bots : bots'[n] = bots[n],
           \A s \in Dialogs : ticket[s] # Nobody => ticket'[s] = ticket[s],
           \A n \in DOMAIN bots' \ DOMAIN bots : bots'[n].name # Nobody => OfDialog(n, bots[n].name)',
           \A u \in Owners : connected'[u] # Nobody =>
               \/ connected[u] # Nobody /\ connected'[u].bot = connected[u].bot /\ (left' = left)
               \/ OwnBot(connected[u].bot, u)',
           \A s \in Dialogs : poll'[s] = poll[s] \/ GoodPoll(poll[s], s)',
           \A s \in Dialogs : dialog'[s] = dialog[s] \/ GoodDialog(dialog[s], s)',
           \A s \in Dialogs : ticket[s] # Nobody /\ ~Pending(s) => ~Pending(s)',
           \A pair \in left' \ left : LetGo(pair[2])'
    PROVE  TelegramIInv'
<1>1. ASSUME NEW n, NEW s, OfDialog(n, s) PROVE OfDialog(n, s)'
  BY <1>1 DEF OfDialog
<1>2. ASSUME NEW n \in DOMAIN bots', bots'[n].name # Nobody PROVE OfDialog(n, bots[n].name)'
  <2>1. CASE n \in DOMAIN bots
    <3>1. OfDialog(n, bots[n].name)
      BY <1>2, <2>1 DEF TelegramIInv
    <3> QED BY <2>1, <3>1 DEF OfDialog
  <2> QED BY <1>2, <2>1
<1>3. ASSUME NEW u \in Owners, connected'[u] # Nobody PROVE OwnBot(connected[u].bot, u)'
  <2>1. CASE connected[u] # Nobody /\ connected'[u].bot = connected[u].bot /\ left' = left
    <3>1. OwnBot(connected[u].bot, u)
      BY <2>1 DEF TelegramIInv
    <3> QED BY <2>1, <3>1 DEF OwnBot, OfDialog
  <2> QED BY <1>3, <2>1 DEF OwnBot, OfDialog
<1>4. ASSUME NEW s \in Dialogs PROVE GoodPoll(poll[s], s)' /\ GoodDialog(dialog[s], s)'
  <2>1. GoodPoll(poll[s], s) /\ GoodDialog(dialog[s], s)
    BY DEF TelegramIInv
  <2>2. GoodPoll(poll[s], s)'
    <3>1. CASE poll'[s] = poll[s]
      BY <1>1, <2>1, <3>1 DEF GoodPoll
    <3> QED BY <3>1
  <2>3. GoodDialog(dialog[s], s)'
    <3>1. CASE dialog'[s] = dialog[s]
      BY <2>1, <3>1 DEF GoodDialog
    <3> QED BY <3>1
  <2> QED BY <2>2, <2>3
<1>5. ASSUME NEW pair \in left' PROVE LetGo(pair[2])'
  <2>1. CASE pair \in left
    <3>1. LetGo(pair[2])
      BY <2>1 DEF TelegramIInv
    <3> QED BY <3>1 DEF LetGo, OfDialog
  <2> QED BY <1>5, <2>1
<1> QED BY <1>2, <1>3, <1>4, <1>5 DEF TelegramIInv

LEMMA TelegramStarts == TelegramInit => TelegramIInv
BY TelegramAssumption
DEF TelegramInit, Setup!SessionInit, TelegramIInv, TelegramTypeOK, Setup!SessionTypeOK, Bot,
    GoodPoll, GoodDialog

\* What the browser makes of an answer.
LEMMA Answers ==
    ASSUME TelegramIInv, NEW s \in Dialogs,
           NEW state \in {"polling", "connected", "failed"}, Answer(s, state)
    PROVE  /\ poll' \in [Dialogs -> Poll \cup {Nobody}]
           /\ dialog' \in [Dialogs -> {"none", "polling", "connected", "failed", "closed", "form"}]
           /\ \A q \in Dialogs : poll'[q] = poll[q] \/ poll'[q] = Nobody
           /\ \A q \in Dialogs : dialog'[q] = dialog[q] \/
                 (dialog[q] = "polling" /\ dialog'[q] \in {"polling", "connected", "failed"})
BY TelegramTypes DEF TelegramIInv, Answer

\* A poll that moves on, or ends.
LEMMA OnePollMoves ==
    ASSUME TelegramIInv, UNCHANGED <<setupVars, bots, gone, edit, edits, rows, historyVars>>,
           poll' \in [Dialogs -> Poll \cup {Nobody}],
           dialog' \in [Dialogs -> {"none", "polling", "connected", "failed", "closed", "form"}],
           \A q \in Dialogs : poll'[q] = poll[q] \/ poll'[q] = Nobody \/ (GoodPoll(poll[q], q)' /\ Pending(q)),
           \A q \in Dialogs : dialog'[q] = dialog[q] \/
                 (dialog[q] = "polling" /\ dialog'[q] \in {"polling", "connected", "failed", "closed"})
    PROVE  TelegramIInv'
<1>1. TelegramTypeOK'
  BY DEF TelegramIInv, TelegramTypeOK, Setup!SessionTypeOK, setupVars, historyVars
<1>2. \A q \in Dialogs : GoodDialog(dialog[q], q)
  BY DEF TelegramIInv
<1>3. \A q \in Dialogs : dialog'[q] = dialog[q] \/ GoodDialog(dialog[q], q)'
  BY <1>2 DEF GoodDialog, setupVars
<1>4. \A q \in Dialogs : poll'[q] = poll[q] \/ GoodPoll(poll[q], q)'
  BY DEF GoodPoll
<1>5. \A q \in Dialogs : ~Pending(q) => ~Pending(q)'
  BY DEF Pending
<1> QED BY <1>1, <1>3, <1>4, <1>5, TelegramMoves DEF setupVars, historyVars

LEMMA TelegramSteps ==
    ASSUME TelegramIInv, [TelegramNext]_telegramVars
    PROVE  TelegramIInv'
<1> USE TelegramAssumption, NobodyAssumption
<1>0. /\ TelegramTypeOK
      /\ owned.owner # Nobody => owned.owner \in Owners /\ owned.id \in 1 .. MaxOwned
      /\ connected \in [Owners -> BotRow \cup {Nobody}]
      /\ ticket \in [Dialogs -> Ticket \cup {Nobody}]
      /\ DOMAIN bots \subseteq Bot
      /\ dialog \in [Dialogs -> {"none", "polling", "connected", "failed", "closed", "form"}]
      /\ poll \in [Dialogs -> Poll \cup {Nobody}]
      /\ edit \in [Dialogs -> Edit \cup {Nobody}]
  BY TelegramTypes DEF TelegramIInv
<1>01. /\ \A u \in Owners : connected[u] # Nobody => OwnBot(connected[u].bot, u)
       /\ \A s \in Dialogs : GoodPoll(poll[s], s) /\ GoodDialog(dialog[s], s)
       /\ \A pair \in left : LetGo(pair[2])
  BY DEF TelegramIInv
<1>1. CASE Setup!SessionNext /\ UNCHANGED <<bots, gone, browserVars, rows, historyVars>>
  <2>1. ticket' = ticket /\ connected' = connected
    BY <1>1 DEF Setup!SessionNext, Setup!DeleteTags, Setup!CreateTags, Setup!RemoveApp, Setup!CreateApp, Setup!Expire
  <2>2. Setup!SessionTypeOK'
    <3>0. /\ owned \in [id : 0 .. MaxOwned, created : 0 .. MaxOwned, owner : Owners \cup {Nobody}]
          /\ owned.id \in {0, owned.created} /\ (owned.id = 0 => owned.owner = Nobody)
          /\ lapsed \subseteq Dialogs /\ DOMAIN ticket = Dialogs /\ DOMAIN connected = Owners
          /\ used \in [moves : 0 .. MaxTransfers, disconnects : 0 .. MaxPartings]
      BY <1>0 DEF TelegramTypeOK, Setup!SessionTypeOK
    <3>1. CASE Setup!DeleteTags \/ Setup!CreateTags
      <4>1. PICK w \in Owners \cup {Nobody} : owned' = [owned EXCEPT !.owner = w]
        BY <3>1 DEF Setup!DeleteTags, Setup!CreateTags
      <4>2. /\ owned' \in [id : 0 .. MaxOwned, created : 0 .. MaxOwned, owner : Owners \cup {Nobody}]
            /\ owned'.id = owned.id /\ owned'.created = owned.created
        BY <3>0, <4>1
      <4>3. owned.id # 0 /\ lapsed' = lapsed
        BY <3>1 DEF Setup!DeleteTags, Setup!CreateTags
      <4>4. used' \in [moves : 0 .. MaxTransfers, disconnects : 0 .. MaxPartings]
        BY <3>0, <3>1 DEF Setup!DeleteTags, Setup!CreateTags
      <4> QED BY <2>1, <3>0, <4>2, <4>3, <4>4 DEF Setup!SessionTypeOK
    <3>2. CASE Setup!RemoveApp
      <4>1. PICK o : o = [owned EXCEPT !.id = 0, !.owner = Nobody]
        OBVIOUS
      <4>2. /\ o \in [id : 0 .. MaxOwned, created : 0 .. MaxOwned, owner : Owners \cup {Nobody}]
            /\ o.id = 0 /\ o.owner = Nobody
        <5>1. 0 \in 0 .. MaxOwned
          OBVIOUS
        <5>2. o = [id |-> 0, created |-> owned.created, owner |-> Nobody]
          BY <3>0, <4>1
        <5> QED BY <3>0, <5>1, <5>2
      <4>3. owned' = o /\ lapsed' = lapsed /\ used' = used
        BY <3>2, <4>1 DEF Setup!RemoveApp
      <4> QED BY <2>1, <3>0, <4>2, <4>3 DEF Setup!SessionTypeOK
    <3>3. CASE Setup!CreateApp
      BY <1>0, <3>3 DEF Setup!CreateApp, TelegramTypeOK, Setup!SessionTypeOK
    <3>4. CASE \E s \in Dialogs : Setup!Expire(s)
      BY <1>0, <3>4 DEF Setup!Expire, TelegramTypeOK, Setup!SessionTypeOK
    <3> QED BY <1>1, <3>1, <3>2, <3>3, <3>4 DEF Setup!SessionNext
  <2>3. TelegramTypeOK'
    BY <1>0, <1>1, <2>1, <2>2 DEF TelegramTypeOK, browserVars, historyVars
  <2>4. \A s \in Dialogs : ~Pending(s) => ~Pending(s)'
    BY <1>1 DEF Pending, browserVars
  <2> QED BY <1>1, <2>1, <2>3, <2>4, TelegramMoves DEF browserVars, historyVars
<1>2. CASE LeaveBot
  <2>0. PICK u : u = owned.owner
    OBVIOUS
  <2>1. u \in Owners /\ connected' = [connected EXCEPT ![u] = Nobody]
        /\ UNCHANGED <<owned, ticket, lapsed, bots, gone, browserVars, rows, edited>>
    BY <1>0, <1>2, <2>0 DEF LeaveBot, Setup!Disconnect
  <2>2. \/ left' = left
        \/ /\ connected[u] # Nobody
           /\ ~ \E s \in Dialogs : s = bots[connected[u].bot].name /\ Pending(s)
           /\ left' = left \cup {<<u, connected[u].bot>>}
    BY <1>2, <2>0 DEF LeaveBot
  <2>3. /\ left' \subseteq left \cup {<<u, connected[u].bot>>}
        /\ \A pair \in left' \ left : LetGo(pair[2]) /\ connected[u] # Nobody
    <3>1. ASSUME connected[u] # Nobody, ~ \E s \in Dialogs : s = bots[connected[u].bot].name /\ Pending(s)
          PROVE  LetGo(connected[u].bot)
      BY <1>01, <2>1, <3>1 DEF LetGo, OwnBot, OfDialog
    <3>2. CASE left' = left
      BY <3>2
    <3>3. CASE left' # left
      BY <2>2, <3>1, <3>3
    <3> QED BY <3>2, <3>3
  <2>4. left' \subseteq Owners \X Bot
    <3>1. connected[u] # Nobody => connected[u].bot \in Bot
      BY <1>0, <2>1 DEF BotRow
    <3> QED BY <1>0, <2>1, <2>2, <3>1 DEF TelegramTypeOK
  <2>5. connected' \in [Owners -> BotRow \cup {Nobody}]
    BY <1>0, <2>1
  <2>6. used' \in [moves : 0 .. MaxTransfers, disconnects : 0 .. MaxPartings]
    BY <1>0, <1>2 DEF LeaveBot, Setup!Disconnect, TelegramTypeOK, Setup!SessionTypeOK
  <2>7. TelegramTypeOK'
    BY <1>0, <2>1, <2>4, <2>5, <2>6 DEF TelegramTypeOK, Setup!SessionTypeOK, browserVars
  <2>8. \A s \in Dialogs : ~Pending(s) => ~Pending(s)'
    BY <2>1 DEF Pending, browserVars
  <2>9. \A pair \in left' \ left : LetGo(pair[2])'
    BY <2>1, <2>3 DEF LetGo, OfDialog, Pending, browserVars
  <2>10. ASSUME NEW v \in Owners, connected'[v] # Nobody PROVE OwnBot(connected[v].bot, v)'
    <3>1. v # u /\ connected'[v] = connected[v] /\ OwnBot(connected[v].bot, v)
      BY <1>0, <1>01, <2>1, <2>10
    <3>2. <<v, connected[v].bot>> \notin left'
      BY <2>3, <3>1 DEF OwnBot
    <3> QED BY <2>1, <3>1, <3>2 DEF OwnBot, OfDialog
  <2> QED BY <2>1, <2>7, <2>8, <2>9, <2>10, TelegramMoves DEF browserVars
<1>3. ASSUME NEW name \in Dialogs \cup {Nobody}, NEW p \in Creators, Len(bots) < MaxBots,
             name # Nobody => ticket[name] # Nobody,
             bots' = Append(bots, [name |-> name, creator |-> p]),
             UNCHANGED <<setupVars, gone, browserVars, rows, historyVars>>
      PROVE  TelegramIInv'
  <2>1. PICK b : b = [name |-> name, creator |-> p]
    OBVIOUS
  <2>2. PICK E : E = [name : Dialogs \cup {Nobody}, creator : Creators]
    OBVIOUS
  <2>3. b \in E /\ bots \in Seq(E) /\ bots' = Append(bots, b) /\ b.name = name
    BY <1>0, <1>3, <2>1, <2>2, TelegramTypes
  <2>4. /\ bots' \in Seq(E) /\ Len(bots') = Len(bots) + 1 /\ Len(bots) \in Nat
        /\ DOMAIN bots = 1 .. Len(bots) /\ DOMAIN bots' = 1 .. Len(bots) + 1
        /\ \A n \in 1 .. Len(bots) : bots'[n] = bots[n]
        /\ bots'[Len(bots) + 1] = b
    BY ONLY <2>3
  <2>5. TelegramTypeOK'
    BY <1>0, <1>3, <2>2, <2>4 DEF TelegramTypeOK, Setup!SessionTypeOK, setupVars, browserVars, historyVars
  <2>6. ASSUME NEW n \in DOMAIN bots' \ DOMAIN bots, bots'[n].name # Nobody
        PROVE  OfDialog(n, bots[n].name)'
    <3>1. n = Len(bots) + 1
      BY <2>4
    <3>2. bots'[n].name = name
      BY <2>3, <2>4, <3>1
    <3> QED BY <1>3, <2>6, <3>2 DEF OfDialog, setupVars
  <2>7. \A s \in Dialogs : ~Pending(s) => ~Pending(s)'
    BY <1>3 DEF Pending, browserVars
  <2>8. DOMAIN bots \subseteq DOMAIN bots' /\ \A n \in DOMAIN bots : bots'[n] = bots[n]
    BY <2>4
  <2> QED BY <1>3, <2>5, <2>6, <2>7, <2>8, TelegramMoves DEF setupVars, browserVars, historyVars
<1>4. ASSUME NEW s \in Dialogs, CreateBot(s) PROVE TelegramIInv'
  <2>1. ticket[s] # Nobody
    BY <1>4 DEF CreateBot
  <2> QED BY <1>3, <1>4, <2>1 DEF CreateBot
<1>5. CASE CreateOtherBot
  BY <1>3, <1>5 DEF CreateOtherBot
<1>6. CASE DropUpdate
  <2>1. TelegramTypeOK'
    BY <1>0, <1>6, TelegramTypes DEF DropUpdate, TelegramTypeOK, Setup!SessionTypeOK, setupVars, browserVars, historyVars
  <2>2. \A s \in Dialogs : ~Pending(s) => ~Pending(s)'
    BY <1>6 DEF DropUpdate, Pending, browserVars
  <2> QED BY <1>6, <2>1, <2>2, TelegramMoves DEF DropUpdate, setupVars, browserVars, historyVars
<1>7. ASSUME NEW s \in Dialogs, Open(s) PROVE TelegramIInv'
  <2>1. PICK t : t = [user |-> owned.owner, app |-> owned.id, seen |-> connected[owned.owner]]
    OBVIOUS
  <2>2. /\ ticket[s] = Nobody /\ owned.owner # Nobody /\ ticket' = [ticket EXCEPT ![s] = t]
        /\ UNCHANGED <<owned, lapsed, connected, used, bots, gone, poll, edit, edits, rows, historyVars>>
    BY <1>7, <2>1 DEF Open, Setup!Mint
  <2>3. t \in Ticket
    BY <1>0, <2>1, <2>2 DEF Ticket
  <2>4. ticket' \in [Dialogs -> Ticket \cup {Nobody}] /\ ticket'[s] = t /\ t # Nobody
        /\ \A q \in Dialogs : q # s => ticket'[q] = ticket[q]
    BY <1>0, <2>2, <2>3
  <2>5. /\ dialog' \in [Dialogs -> {"none", "polling", "connected", "failed", "closed", "form"}]
        /\ \A q \in Dialogs : q # s => dialog'[q] = dialog[q]
        /\ dialog'[s] = IF t.seen = Nobody THEN "polling" ELSE "form"
    BY <1>0, <1>7, <2>4 DEF Open
  <2>6. TelegramTypeOK'
    BY <1>0, <2>2, <2>4, <2>5 DEF TelegramTypeOK, Setup!SessionTypeOK, historyVars
  <2>7. GoodDialog(dialog[s], s)'
    BY <2>4, <2>5 DEF GoodDialog
  <2>8. \A q \in Dialogs : ticket[q] # Nobody /\ ~Pending(q) => ~Pending(q)'
    BY <2>2, <2>5 DEF Pending
  <2> QED BY <2>2, <2>4, <2>5, <2>6, <2>7, <2>8, TelegramMoves DEF historyVars
<1>8. ASSUME NEW s \in Dialogs, NEW state \in {"polling", "connected", "failed"}, Answer(s, state),
             UNCHANGED <<setupVars, bots, gone, edit, edits, rows, historyVars>>
      PROVE  TelegramIInv'
  BY <1>8, Answers, OnePollMoves
<1>9. ASSUME NEW s \in Dialogs, Close(s) PROVE TelegramIInv'
  <2>1. dialog' \in [Dialogs -> {"none", "polling", "connected", "failed", "closed", "form"}]
        /\ \A q \in Dialogs : dialog'[q] = dialog[q] \/ (dialog[q] = "polling" /\ dialog'[q] = "closed")
    BY <1>0, <1>9 DEF Close
  <2> QED BY <1>0, <1>9, <2>1, OnePollMoves DEF Close
<1>10. ASSUME NEW s \in Dialogs, NEW p \in Poll, poll' = [poll EXCEPT ![s] = p], Pending(s),
              GoodPoll(p, s), UNCHANGED <<setupVars, bots, gone, dialog, edit, edits, rows, historyVars>>
       PROVE  TelegramIInv'
  <2>1. poll' \in [Dialogs -> Poll \cup {Nobody}] /\ \A q \in Dialogs : poll'[q] = IF q = s THEN p ELSE poll[q]
    BY <1>0, <1>10
  <2>2. GoodPoll(poll[s], s)'
    BY <1>10, <2>1 DEF GoodPoll, OfDialog, setupVars
  <2> QED BY <1>0, <1>10, <2>1, <2>2, OnePollMoves
<1>11. ASSUME NEW s \in Dialogs, AskPoll(s) PROVE TelegramIInv'
  <2>1. CASE Setup!Resolves(s)
    <3>1. PICK p : p = [stage |-> "find", user |-> owned.owner, bot |-> 0]
      OBVIOUS
    <3>2. /\ ticket[s] # Nobody /\ ticket[s].user = owned.owner
      BY <2>1 DEF Setup!Resolves
    <3>3. owned.owner \in Owners
      BY <1>0, <3>2 DEF Ticket
    <3>4. p \in Poll /\ GoodPoll(p, s)
      BY <3>1, <3>2, <3>3 DEF Poll, GoodPoll
    <3>5. Pending(s) /\ poll' = [poll EXCEPT ![s] = p]
          /\ UNCHANGED <<setupVars, bots, gone, dialog, edit, edits, rows, historyVars>>
      BY <1>11, <2>1, <3>1 DEF AskPoll, Pending
    <3> QED BY <1>10, <3>4, <3>5
  <2>2. CASE ~Setup!Resolves(s)
    BY <1>8, <1>11, <2>2 DEF AskPoll
  <2> QED BY <2>1, <2>2
<1>12. ASSUME NEW s \in Dialogs, FindCreation(s) PROVE TelegramIInv'
  <2>1. CASE Matches(s) = {}
    BY <1>8, <1>12, <2>1 DEF FindCreation
  <2>2. CASE Matches(s) # {}
    <3>1. PICK n \in Matches(s) : poll' = [poll EXCEPT ![s].stage = "token", ![s].bot = n]
      BY <1>12, <2>2 DEF FindCreation
    <3>2. PICK p : p = [poll[s] EXCEPT !.stage = "token", !.bot = n]
      OBVIOUS
    <3>3. poll[s] # Nobody /\ poll[s] \in Poll
      BY <1>0, <1>12 DEF FindCreation
    <3>4. n \in DOMAIN bots /\ bots[n].name = s /\ n \in 0 .. MaxBots
      BY <1>0, <3>1 DEF Matches, Named, Bot
    <3>5. p \in Poll /\ p.user = poll[s].user /\ p.bot = n /\ poll' = [poll EXCEPT ![s] = p]
      BY <1>0, <3>1, <3>2, <3>3, <3>4 DEF Poll
    <3>6. GoodPoll(p, s)
      BY <1>01, <3>3, <3>4, <3>5 DEF GoodPoll, OfDialog
    <3>7. UNCHANGED <<setupVars, bots, gone, dialog, edit, edits, rows, historyVars>>
      BY <1>12, <2>2 DEF FindCreation
    <3> QED BY <1>10, <3>3, <3>5, <3>6, <3>7 DEF Pending
  <2> QED BY <2>1, <2>2
<1>13. ASSUME NEW s \in Dialogs, UpdatesFail(s) \/ TokenFails(s) PROVE TelegramIInv'
  BY <1>8, <1>13 DEF UpdatesFail, TokenFails
<1>14. ASSUME NEW s \in Dialogs, FetchToken(s) PROVE TelegramIInv'
  <2>1. PICK p : p = [poll[s] EXCEPT !.stage = "store"]
    OBVIOUS
  <2>2. poll[s] # Nobody /\ poll[s] \in Poll /\ poll[s].stage = "token"
    BY <1>0, <1>14 DEF FetchToken
  <2>3. p \in Poll /\ p.user = poll[s].user /\ p.bot = poll[s].bot /\ poll' = [poll EXCEPT ![s] = p]
    BY <1>0, <1>14, <2>1, <2>2 DEF FetchToken, Poll
  <2>4. GoodPoll(p, s)
    BY <1>01, <2>2, <2>3 DEF GoodPoll
  <2> QED BY <1>10, <1>14, <2>2, <2>3, <2>4 DEF FetchToken, Pending
<1>15. ASSUME NEW s \in Dialogs, StoreBot(s) PROVE TelegramIInv'
  <2>0. PICK r, u, n : r = poll[s] /\ u = r.user /\ n = r.bot
    OBVIOUS
  <2>1. /\ r # Nobody /\ r.stage = "store" /\ r \in Poll /\ u \in Owners
        /\ OfDialog(n, s) /\ ticket[s].user = u /\ Pending(s)
    BY <1>0, <1>01, <1>15, <2>0 DEF StoreBot, Poll, GoodPoll, Pending
  <2>2. PICK key : key = IF connected[u] = Nobody THEN rows + 1 ELSE connected[u].pk
    OBVIOUS
  <2>3. PICK row : row = [pk |-> key, bot |-> n, allowed |-> {bots[n].creator}]
    OBVIOUS
  <2>4. /\ connected' = [connected EXCEPT ![u] = row]
        /\ rows' \in {rows, rows + 1}
        /\ UNCHANGED <<owned, ticket, lapsed, used, bots, gone, edit, edits, historyVars>>
    BY <1>15, <2>0, <2>2, <2>3 DEF StoreBot
  <2>5. rows \in Nat /\ key \in Nat \ {0}
    BY <1>0, <2>1, <2>2 DEF TelegramTypeOK, BotRow
  <2>6. n \in Bot /\ bots[n].creator \in Creators
    BY <1>0, <2>1, TelegramTypes DEF OfDialog
  <2>7. row \in BotRow /\ row.bot = n
    BY <2>3, <2>5, <2>6 DEF BotRow
  <2>8. connected' \in [Owners -> BotRow \cup {Nobody}] /\ \A v \in Owners : connected'[v] = IF v = u THEN row ELSE connected[v]
    BY <1>0, <2>1, <2>4, <2>7
  <2>9. PICK state \in {"polling", "connected", "failed"} : Answer(s, state)
    BY <1>15 DEF StoreBot
  <2>10. /\ poll' \in [Dialogs -> Poll \cup {Nobody}]
         /\ dialog' \in [Dialogs -> {"none", "polling", "connected", "failed", "closed", "form"}]
         /\ \A q \in Dialogs : poll'[q] = poll[q] \/ poll'[q] = Nobody
         /\ \A q \in Dialogs : dialog'[q] = dialog[q] \/
               (dialog[q] = "polling" /\ dialog'[q] \in {"polling", "connected", "failed"})
    BY <2>9, Answers
  <2>11. TelegramTypeOK'
    BY <1>0, <2>4, <2>5, <2>8, <2>10 DEF TelegramTypeOK, Setup!SessionTypeOK, historyVars
  <2>12. \A q \in Dialogs : poll'[q] = poll[q] \/ GoodPoll(poll[q], q)'
    BY <2>10 DEF GoodPoll
  <2>13. \A q \in Dialogs : dialog'[q] = dialog[q] \/ GoodDialog(dialog[q], q)'
    BY <1>01, <2>4, <2>10 DEF GoodDialog
  <2>14. \A q \in Dialogs : ~Pending(q) => ~Pending(q)'
    BY <2>10 DEF Pending
  <2>15. <<u, n>> \notin left
    BY <1>01, <2>1 DEF LetGo, OfDialog
  <2>16. ASSUME NEW v \in Owners, connected'[v] # Nobody
         PROVE  \/ connected[v] # Nobody /\ connected'[v].bot = connected[v].bot /\ left' = left
                \/ OwnBot(connected[v].bot, v)'
    <3>1. CASE v = u
      BY <2>1, <2>4, <2>7, <2>8, <2>15, <3>1 DEF OwnBot, OfDialog, historyVars
    <3>2. CASE v # u
      BY <2>4, <2>8, <2>16, <3>2 DEF historyVars
    <3> QED BY <3>1, <3>2
  <2> QED BY <2>4, <2>11, <2>12, <2>13, <2>14, <2>16, TelegramMoves DEF historyVars
<1>16. ASSUME NEW s \in Dialogs, SendList(s) PROVE TelegramIInv'
  <2>1. ticket[s] # Nobody /\ ticket[s].seen # Nobody /\ ticket[s].user = owned.owner
    BY <1>01, <1>16 DEF SendList, Setup!Resolves, GoodDialog
  <2>2. ticket[s].seen.bot \in Bot /\ owned.owner \in Owners
    BY <1>0, <2>1 DEF Ticket, BotRow
  <2>3. edit' \in [Dialogs -> Edit \cup {Nobody}]
    <3>1. PICK list \in SUBSET Creators : edit' = [edit EXCEPT ![s] =
            [stage |-> "read", user |-> owned.owner, list |-> list, found |-> Nobody]]
      BY <1>16 DEF SendList
    <3>2. [stage |-> "read", user |-> owned.owner, list |-> list, found |-> Nobody] \in Edit
      BY <2>2 DEF Edit
    <3> QED BY <1>0, <3>1, <3>2
  <2>4. edits' \in 0 .. MaxEdits /\ edited' \subseteq Bot
    BY <1>0, <1>16, <2>2 DEF SendList, TelegramTypeOK
  <2>5. UNCHANGED <<setupVars, bots, gone, dialog, poll, rows, left>>
    BY <1>16 DEF SendList
  <2>6. TelegramTypeOK'
    BY <1>0, <2>3, <2>4, <2>5 DEF TelegramTypeOK, Setup!SessionTypeOK, setupVars
  <2>7. \A q \in Dialogs : ~Pending(q) => ~Pending(q)'
    BY <2>5 DEF Pending
  <2> QED BY <2>5, <2>6, <2>7, TelegramMoves DEF setupVars
<1>17. ASSUME NEW s \in Dialogs, ReadConfig(s) PROVE TelegramIInv'
  <2>1. edit[s] # Nobody /\ edit[s] \in Edit /\ edit[s].user \in Owners
    BY <1>0, <1>17 DEF ReadConfig, Edit
  <2>2. edit' \in [Dialogs -> Edit \cup {Nobody}]
    <3>1. CASE connected[edit[s].user] = Nobody
      BY <1>0, <1>17, <3>1 DEF ReadConfig
    <3>2. CASE connected[edit[s].user] # Nobody
      <4>1. PICK found \in BotRow : found = connected[edit[s].user]
        BY <1>0, <2>1, <3>2
      <4>2. PICK e : e = [edit[s] EXCEPT !.stage = "save", !.found = found]
        OBVIOUS
      <4>3. e \in Edit
        BY <2>1, <4>1, <4>2 DEF Edit
      <4>4. edit' = [edit EXCEPT ![s] = e]
        BY <1>0, <1>17, <3>2, <4>1, <4>2 DEF ReadConfig
      <4> QED BY <1>0, <4>3, <4>4
    <3> QED BY <3>1, <3>2
  <2>3. UNCHANGED <<setupVars, bots, gone, dialog, poll, edits, rows, historyVars>>
    BY <1>17 DEF ReadConfig
  <2>4. TelegramTypeOK'
    BY <1>0, <2>2, <2>3 DEF TelegramTypeOK, Setup!SessionTypeOK, setupVars, historyVars
  <2>5. \A q \in Dialogs : ~Pending(q) => ~Pending(q)'
    BY <2>3 DEF Pending
  <2> QED BY <2>3, <2>4, <2>5, TelegramMoves DEF setupVars, historyVars
<1>18. ASSUME NEW s \in Dialogs, SaveConfig(s) PROVE TelegramIInv'
  <2>0. PICK u : u = edit[s].user
    OBVIOUS
  <2>1. edit[s] # Nobody /\ edit[s] \in Edit /\ u \in Owners /\ edit[s].list \in SUBSET Creators
    BY <1>0, <1>18, <2>0 DEF SaveConfig, Edit
  <2>2. /\ edit' \in [Dialogs -> Edit \cup {Nobody}]
        /\ UNCHANGED <<owned, ticket, lapsed, used, bots, gone, dialog, poll, edits, rows, historyVars>>
    BY <1>0, <1>18 DEF SaveConfig
  <2>3. /\ connected' \in [Owners -> BotRow \cup {Nobody}]
        /\ \A v \in Owners : \/ connected'[v] = connected[v]
                             \/ connected[v] # Nobody /\ connected'[v].bot = connected[v].bot
    <3>1. CASE connected' = connected
      BY <1>0, <3>1
    <3>2. CASE connected' # connected
      <4>1. PICK row \in BotRow : row = connected[u] /\ row # Nobody
        BY <1>0, <1>18, <2>0, <2>1, <3>2 DEF SaveConfig
      <4>2. PICK saved : saved = [row EXCEPT !.allowed = edit[s].list]
        OBVIOUS
      <4>3. saved \in BotRow /\ saved.bot = row.bot
        BY <2>1, <4>1, <4>2 DEF BotRow
      <4>4. connected' = [connected EXCEPT ![u] = saved]
        BY <1>0, <1>18, <2>0, <2>1, <3>2, <4>1, <4>2 DEF SaveConfig
      <4> QED BY <1>0, <2>1, <4>1, <4>3, <4>4
    <3> QED BY <3>1, <3>2
  <2>4. TelegramTypeOK'
    BY <1>0, <2>2, <2>3 DEF TelegramTypeOK, Setup!SessionTypeOK, historyVars
  <2>5. \A q \in Dialogs : ~Pending(q) => ~Pending(q)'
    BY <2>2 DEF Pending
  <2>6. \A v \in Owners : connected'[v] # Nobody =>
            connected[v] # Nobody /\ connected'[v].bot = connected[v].bot /\ left' = left
    BY <2>2, <2>3 DEF historyVars
  <2> QED BY <2>2, <2>4, <2>5, <2>6, TelegramMoves DEF historyVars
<1>19. CASE UNCHANGED telegramVars
  <2>1. TelegramTypeOK'
    BY <1>0, <1>19 DEF telegramVars, setupVars, browserVars, historyVars, TelegramTypeOK, Setup!SessionTypeOK
  <2>2. \A q \in Dialogs : ~Pending(q) => ~Pending(q)'
    BY <1>19 DEF Pending, telegramVars, browserVars
  <2> QED BY <1>19, <2>1, <2>2, TelegramMoves DEF telegramVars, setupVars, browserVars, historyVars
<1> QED BY <1>1, <1>2, <1>4, <1>5, <1>6, <1>7, <1>9, <1>11, <1>12, <1>13, <1>14, <1>15, <1>16, <1>17,
           <1>18, <1>19 DEF TelegramNext

\* A connected Telegram bot was created from a link shown in a dialog of its owner's own,
\* and one that was let go stays away, for any number of owners, dialogs, bots and pages.
THEOREM BotsStayTheirOwners == TelegramSpec => []BotsAreTheirOwners
<1>1. TelegramIInv => BotsAreTheirOwners
  <2>1. ASSUME TelegramIInv, NEW u \in Owners, connected[u] # Nobody
        PROVE  /\ bots[connected[u].bot].name # Nobody /\ ticket[bots[connected[u].bot].name].user = u
               /\ <<u, connected[u].bot>> \notin left
    <3>1. OwnBot(connected[u].bot, u)
      BY <2>1 DEF TelegramIInv
    <3> QED BY <3>1, TelegramAssumption DEF OwnBot, OfDialog
  <2> QED BY <2>1 DEF TelegramIInv, BotsAreTheirOwners, BotIsFromOwnDialog, DisconnectSticks
<1> QED BY <1>1, TelegramStarts, TelegramSteps, PTL DEF TelegramSpec

-----------------------------------------------------------------------------
\* UserOAuth.

\* The provider knows this rotation or a later one.
Issued(t) == t # NoToken => t.rotation <= newest[t.grant]

GoodRefresh(j) ==
    /\ j.stage \in {"sent", "answered"} => j.token # NoToken
    /\ Issued(j.token)
    /\ j.stage = "answered" /\ j.verdict = "response" =>
          /\ j.next # NoToken /\ Issued(j.next)
          /\ j.next.grant = j.token.grant /\ j.next.rotation > j.token.rotation
    /\ j.stage = "answered" /\ j.verdict = "revoked" => ~Valid(j.token)

OAuthIInv ==
    /\ OAuthTypeOK
    /\ \A g \in storing : newest[g] > 0
    /\ \A r \in Refresher : GoodRefresh(job[r])

\* The refresh that has rotated the token in the row.
Rotated(j) == j.stage = "answered" /\ j.verdict = "response" /\ j.token = held

LosslessIInv ==
    /\ \A g \in storing :
          /\ newest[g] = 1
          /\ held.grant # g
          /\ \A r \in Refresher : job[r].token.grant # g
    /\ held # NoToken =>
          /\ \A r \in Refresher :
                job[r].token.grant = held.grant => job[r].token.rotation <= held.rotation
          /\ held.rotation = newest[held.grant] \/ \E r \in Refresher : Rotated(job[r])
          /\ \A r \in Refresher : Rotated(job[r]) => job[r].next.rotation = newest[held.grant]

\* A grant is stored once, so a grant that was disconnected does not come back.
GrantsApart ==
    /\ \A g \in storing : held.grant # g /\ g \notin ended
    /\ held.grant \notin ended
    /\ \A g \in ended : newest[g] > 0

OAuthBothIInv == OAuthIInv /\ GrantsApart /\ (~Lossy => LosslessIInv)

-----------------------------------------------------------------------------
LEMMA VerdictOfFailure ==
    ASSUME NEW answer \in Failures
    PROVE  Verdict(answer) = "error"
<1>1. /\ answer[1] \in {500, 429, 403, 200} /\ answer[2] \in {"", "slow_down"}
      /\ answer[1] = 200 => answer[2] = ""
  <2>1. CASE answer = <<500, "">>
    BY <2>1
  <2>2. CASE answer = <<429, "slow_down">>
    BY <2>2
  <2>3. CASE answer = <<403, "">>
    BY <2>3
  <2>4. CASE answer = <<200, "">>
    BY <2>4
  <2> QED BY <2>1, <2>2, <2>3, <2>4 DEF Failures
<1>2. CASE Provider = "github"
  BY <1>1, <1>2 DEF Verdict, GithubVerdict
<1>3. CASE Provider = "x"
  BY <1>1, <1>3 DEF Verdict, SharedVerdict
<1>4. CASE Provider = "openai-codex"
  BY <1>1, <1>4 DEF Verdict, SharedVerdict
<1>5. CASE Provider = "nous"
  BY <1>1, <1>5 DEF Verdict, SharedVerdict
<1> QED BY <1>2, <1>3, <1>4, <1>5, OAuthAssumption

LEMMA VerdictType ==
    ASSUME NEW answer \in Failures \cup Rejections
    PROVE  Verdict(answer) \in {"error", "revoked"}
BY OAuthAssumption DEF Failures, Rejections, Verdict, GithubVerdict, SharedVerdict

\* What the provider has issued stays issued, and what it refuses it goes on refusing.
LEMMA IssuedStays ==
    ASSUME OAuthTypeOK, newest' \in [Grant -> 0 .. MaxRotations],
           \A g \in Grant : newest'[g] >= newest[g],
           NEW t \in OAuthToken \cup {NoToken}, Issued(t)
    PROVE  Issued(t)'
BY OAuthAssumption DEF Issued, OAuthTypeOK, OAuthToken, NoToken, Grant

LEMMA InvalidStays ==
    ASSUME OAuthTypeOK, newest' \in [Grant -> 0 .. MaxRotations],
           \A g \in Grant : newest'[g] >= newest[g], revoked \subseteq revoked',
           NEW t \in OAuthToken \cup {NoToken}, Issued(t), ~Valid(t)
    PROVE  ~Valid(t)'
BY OAuthAssumption DEF Issued, Valid, OAuthTypeOK, OAuthToken, NoToken, Grant

\* A refresh that did not move is as good as before.
LEMMA RefreshStays ==
    ASSUME OAuthIInv, newest' \in [Grant -> 0 .. MaxRotations],
           \A g \in Grant : newest'[g] >= newest[g], revoked \subseteq revoked',
           NEW r \in Refresher, job'[r] = job[r]
    PROVE  GoodRefresh(job[r])'
<1>1. GoodRefresh(job[r]) /\ job[r].token \in OAuthToken \cup {NoToken} /\ job[r].next \in OAuthToken \cup {NoToken}
  BY DEF OAuthIInv, OAuthTypeOK
<1>2. Issued(job[r].token) /\ OAuthTypeOK
  BY <1>1 DEF GoodRefresh, OAuthIInv
<1>3. Issued(job[r].token)'
  <2> DEFINE t == job[r].token
  <2>1. Issued(t)'
    BY <1>1, <1>2, IssuedStays
  <2> QED BY <2>1 DEF Issued
<1>4. ASSUME Issued(job[r].next) PROVE Issued(job[r].next)'
  BY <1>1, <1>2, <1>4, IssuedStays DEF Issued
<1>5. ASSUME ~Valid(job[r].token) PROVE ~Valid(job[r].token)'
  BY <1>1, <1>2, <1>5, InvalidStays DEF Valid
<1> QED BY <1>1, <1>3, <1>4, <1>5 DEF GoodRefresh

\* The state of a refresh.
Refresh == [stage : {"idle", "sent", "answered"} \cup Outcome,
            token : OAuthToken \cup {NoToken}, next : OAuthToken \cup {NoToken},
            verdict : {"none", "response", "unusable", "revoked", "error"}]

\* What a step of one refresh leaves to show.
LEMMA OneRefreshMoves ==
    ASSUME OAuthIInv, newest' \in [Grant -> 0 .. MaxRotations],
           \A g \in Grant : newest'[g] >= newest[g], revoked' = revoked,
           NEW r \in Refresher, NEW j \in Refresh, job' = [job EXCEPT ![r] = j],
           GoodRefresh(j)',
           storing' = storing, ended' = ended,
           held' \in OAuthToken \cup {NoToken}, Issued(held)'
    PROVE  OAuthIInv'
<1>1. job' \in [Refresher -> Refresh]
  BY DEF OAuthIInv, OAuthTypeOK, Refresh
<1>2. OAuthTypeOK'
  BY <1>1, OAuthAssumption DEF OAuthIInv, OAuthTypeOK, Refresh, Issued, Grant
<1>3. \A g \in storing' : newest'[g] > 0
  BY OAuthAssumption DEF OAuthIInv, OAuthTypeOK, Grant
<1>4. ASSUME NEW q \in Refresher PROVE GoodRefresh(job[q])'
  <2>1. CASE q = r
    <3>1. job'[q] = j
      BY <2>1 DEF OAuthIInv, OAuthTypeOK
    <3> QED BY <3>1 DEF GoodRefresh, Issued, Valid
  <2>2. CASE q # r
    BY <2>2, RefreshStays DEF OAuthIInv, OAuthTypeOK
  <2> QED BY <2>1, <2>2
<1> QED BY <1>2, <1>3, <1>4 DEF OAuthIInv

LEMMA OneRefreshEnds ==
    ASSUME OAuthIInv, newest' = newest, revoked' = revoked, storing' = storing, ended' = ended,
           NEW r \in Refresher, NEW j \in Refresh, job' = [job EXCEPT ![r] = j], GoodRefresh(j)',
           held' \in OAuthToken \cup {NoToken}, held' # held => Issued(held')
    PROVE  OAuthIInv'
<1>1. newest' \in [Grant -> 0 .. MaxRotations] /\ \A g \in Grant : newest'[g] >= newest[g]
  BY OAuthAssumption DEF OAuthIInv, OAuthTypeOK, Grant
<1>2. Issued(held)'
  BY DEF OAuthIInv, OAuthTypeOK, Issued
<1> QED BY <1>1, <1>2, OneRefreshMoves

LEMMA OverIsGood ==
    ASSUME NEW outcome \in Outcome
    PROVE  [Idle EXCEPT !.stage = outcome] \in Refresh /\ GoodRefresh([Idle EXCEPT !.stage = outcome])'
BY DEF Outcome, Refresh, Idle, GoodRefresh, Issued, NoToken

LEMMA IdleIsGood == Idle \in Refresh /\ GoodRefresh(Idle)'
BY DEF Refresh, Idle, GoodRefresh, Issued, NoToken

LEMMA OAuthStarts == OAuthInit => OAuthIInv
BY OAuthAssumption
DEF OAuthInit, OAuthIInv, OAuthTypeOK, GoodRefresh, Issued, Idle, NoToken, Outcome, Grant

LEMMA OAuthSteps ==
    ASSUME OAuthIInv, [OAuthNext]_oauthVars
    PROVE  OAuthIInv'
<1> USE OAuthAssumption
<1>0. /\ OAuthTypeOK
      /\ held \in OAuthToken \cup {NoToken} /\ Issued(held)
      /\ job \in [Refresher -> Refresh]
      /\ newest \in [Grant -> 0 .. MaxRotations]
      /\ \A r \in Refresher : GoodRefresh(job[r])
  BY DEF OAuthIInv, OAuthTypeOK, Issued, Refresh
<1>1. ASSUME NEW g \in Grant, Consent(g) \/ Store(g) \/ StoreLost(g) \/ RevokedAtProvider(g)
      PROVE  OAuthIInv'
  <2>1. /\ newest' \in [Grant -> 0 .. MaxRotations] /\ \A h \in Grant : newest'[h] >= newest[h]
        /\ revoked \subseteq revoked' /\ job' = job
    BY <1>0, <1>1 DEF Consent, Store, StoreLost, RevokedAtProvider, Grant
  <2>2. \A r \in Refresher : GoodRefresh(job[r])'
    BY <2>1, RefreshStays
  <2>3. held' \in OAuthToken \cup {NoToken} /\ (held' # NoToken => held'.rotation <= newest'[held'.grant])
    <3>1. CASE Store(g)
      <4>1. newest[g] > 0 /\ newest' = newest
        BY <3>1 DEF OAuthIInv, Store
      <4> QED BY <3>1, <4>1, <1>0 DEF Store, OAuthToken, Grant
    <3>2. CASE held' = held
      BY <3>2, <1>0, <2>1, IssuedStays DEF Issued
    <3> QED BY <3>1, <3>2, <1>1 DEF Consent, StoreLost, RevokedAtProvider
  <2>4. /\ storing' \subseteq Grant /\ \A h \in storing' : newest'[h] > 0
    <3>1. CASE Consent(g)
      <4>1. \A h \in Grant : newest'[h] = IF h = g THEN 1 ELSE newest[h]
        BY <1>0, <3>1 DEF Consent
      <4> QED BY <4>1, <3>1 DEF OAuthIInv, OAuthTypeOK, Consent
    <3>2. CASE ~Consent(g)
      BY <3>2, <1>1 DEF OAuthIInv, OAuthTypeOK, Store, StoreLost, RevokedAtProvider
    <3> QED BY <3>1, <3>2
  <2>5. revoked' \subseteq {h \in Grant : newest'[h] > 0}
    BY <1>0, <1>1, <2>1 DEF OAuthTypeOK, Consent, Store, StoreLost, RevokedAtProvider, Grant
  <2>6. ended' = ended
    BY <1>1 DEF Consent, Store, StoreLost, RevokedAtProvider
  <2> QED BY <1>0, <2>1, <2>2, <2>3, <2>4, <2>5, <2>6 DEF OAuthIInv, OAuthTypeOK
<1>2. CASE DisconnectLogin
  <2>1. newest' = newest /\ revoked \subseteq revoked' /\ job' = job /\ storing' = storing /\ held' = NoToken
    BY <1>2 DEF DisconnectLogin
  <2>2. \A r \in Refresher : GoodRefresh(job[r])'
    BY <1>0, <2>1, RefreshStays DEF Grant
  <2>3. held.grant \in Grant /\ newest[held.grant] > 0
    BY <1>0, <1>2 DEF DisconnectLogin, Issued, OAuthToken, Grant
  <2>4. ended' \subseteq Grant /\ revoked' \subseteq {h \in Grant : newest'[h] > 0}
    BY <1>0, <1>2, <2>3 DEF DisconnectLogin, OAuthTypeOK
  <2> QED BY <1>0, <2>1, <2>2, <2>4 DEF OAuthIInv, OAuthTypeOK
<1>3. ASSUME NEW r \in Refresher,
             Read(r) \/ Rotate(r) \/ Refuse(r) \/ Die(r) \/ DeleteRevoked(r) \/ StoreRotated(r) \/ GiveUp(r)
      PROVE  OAuthIInv'
  <2>0. GoodRefresh(job[r]) /\ job[r] \in Refresh
    BY <1>0
  <2>1. CASE Read(r)
    <3>1. newest' = newest /\ revoked' = revoked /\ storing' = storing /\ ended' = ended /\ held' = held
      BY <2>1 DEF Read
    <3>2. CASE held = NoToken
      <4>1. job' = [job EXCEPT ![r] = [Idle EXCEPT !.stage = "absent"]]
        BY <2>1, <3>2 DEF Read, Finish
      <4> QED BY <1>0, <3>1, <4>1, OverIsGood, OneRefreshEnds DEF Outcome
    <3>3. CASE held # NoToken
      <4>0. PICK j : j = [Idle EXCEPT !.stage = "sent", !.token = held]
        OBVIOUS
      <4>1. job' = [job EXCEPT ![r] = j]
        BY <2>1, <3>3, <4>0 DEF Read
      <4>2. j \in Refresh
        BY <1>0, <4>0 DEF Idle, Refresh
      <4>3. GoodRefresh(j)'
        BY <1>0, <3>1, <3>3, <4>0 DEF Idle, GoodRefresh, Issued
      <4> QED BY <1>0, <3>1, <4>1, <4>2, <4>3, OneRefreshEnds
    <3> QED BY <3>2, <3>3
  <2>2. CASE Rotate(r)
    <3>0. PICK t, g : t = job[r].token /\ g = t.grant
      OBVIOUS
    <3>1. t \in OAuthToken /\ g \in Grant /\ newest[g] < MaxRotations /\ t.rotation = newest[g]
      BY <2>0, <2>2, <3>0 DEF Rotate, Valid, Refresh, OAuthToken, NoToken
    <3>2. newest' = [newest EXCEPT ![g] = @ + 1]
      BY <2>2, <3>0 DEF Rotate
    <3>3. newest' \in [Grant -> 0 .. MaxRotations] /\ \A h \in Grant : newest'[h] >= newest[h]
      BY <1>0, <3>1, <3>2 DEF Grant
    <3>01. PICK next : next = [grant |-> g, rotation |-> newest[g] + 1]
      OBVIOUS
    <3>4. PICK verdict \in {"response", "unusable", "error"} :
             job' = [job EXCEPT ![r].stage = "answered", ![r].verdict = verdict, ![r].next = next]
      BY <2>2, <3>0, <3>01 DEF Rotate
    <3>02. PICK j : j = [job[r] EXCEPT !.stage = "answered", !.verdict = verdict, !.next = next]
      OBVIOUS
    <3>5. job' = [job EXCEPT ![r] = j]
      BY <3>4, <1>0, <3>02
    <3>6. next \in OAuthToken /\ next # NoToken
      BY <1>0, <3>1, <3>01 DEF OAuthToken, NoToken, Grant
    <3>7. j \in Refresh
      BY <2>0, <3>6, <3>02 DEF Refresh
    <3>8. /\ j.stage = "answered" /\ j.verdict = verdict /\ j.next = next /\ j.token = t
      BY <2>0, <3>0, <3>02 DEF Refresh
    <3>9. newest'[g] = newest[g] + 1 /\ newest[g] \in Nat
      BY <1>0, <3>1, <3>2 DEF Grant
    <3>10. GoodRefresh(j)'
      BY <3>0, <3>01, <3>1, <3>6, <3>8, <3>9 DEF GoodRefresh, Issued, NoToken, OAuthToken
    <3>11. Issued(held)' /\ held' = held /\ revoked' = revoked /\ storing' = storing /\ ended' = ended
      BY <1>0, <2>2, <3>3, IssuedStays DEF Rotate, Issued
    <3> QED BY <1>0, <3>3, <3>5, <3>7, <3>10, <3>11, OneRefreshMoves
  <2>3. CASE Refuse(r)
    <3>1. newest' = newest /\ revoked' = revoked /\ storing' = storing /\ ended' = ended /\ held' = held
      BY <2>3 DEF Refuse
    <3>2. PICK answer \in Failures \cup (IF Valid(job[r].token) THEN {} ELSE Rejections) :
             job' = [job EXCEPT ![r].stage = "answered", ![r].verdict = Verdict(answer)]
      BY <2>3 DEF Refuse
    <3>3. Verdict(answer) \in {"error", "revoked"} /\ (Verdict(answer) = "revoked" => ~Valid(job[r].token))
      BY VerdictOfFailure, VerdictType
    <3>0. PICK j : j = [job[r] EXCEPT !.stage = "answered", !.verdict = Verdict(answer)]
      OBVIOUS
    <3>4. job' = [job EXCEPT ![r] = j]
      BY <3>0, <3>2, <1>0
    <3>5. j \in Refresh /\ j.stage = "answered" /\ j.verdict = Verdict(answer) /\ j.token = job[r].token
      BY <2>0, <3>0, <3>3 DEF Refresh
    <3>6. job[r].stage = "sent"
      BY <2>3 DEF Refuse
    <3>7. GoodRefresh(j)'
      BY <2>0, <3>1, <3>3, <3>5, <3>6 DEF GoodRefresh, Issued, Valid
    <3> QED BY <1>0, <3>1, <3>4, <3>5, <3>7, OneRefreshEnds
  <2>4. CASE Die(r)
    BY <1>0, <2>4, IdleIsGood, OneRefreshEnds DEF Die
  <2>5. CASE DeleteRevoked(r)
    <3>1. /\ newest' = newest /\ revoked' = revoked /\ storing' = storing /\ ended' = ended
          /\ held' = NoToken \/ held' = held
      BY <2>5 DEF DeleteRevoked
    <3>2. PICK outcome \in Outcome : job' = [job EXCEPT ![r] = [Idle EXCEPT !.stage = outcome]]
      BY <2>5 DEF DeleteRevoked, Finish, Outcome
    <3>3. Issued(held') /\ held' \in OAuthToken \cup {NoToken}
      BY <1>0, <3>1 DEF Issued
    <3> QED BY <1>0, <3>1, <3>2, <3>3, OverIsGood, OneRefreshEnds
  <2>6. CASE StoreRotated(r)
    <3>1. newest' = newest /\ revoked' = revoked /\ storing' = storing /\ ended' = ended
      BY <2>6 DEF StoreRotated
    <3>2. job' = [job EXCEPT ![r] = [Idle EXCEPT !.stage = "has_token"]]
      BY <2>6 DEF StoreRotated, Finish
    <3>3. held' = held \/ held' = job[r].next
      BY <2>6 DEF StoreRotated
    <3>4. Issued(job[r].next)
      BY <2>0, <2>6 DEF StoreRotated, GoodRefresh
    <3>5. (held' # held => Issued(held')) /\ held' \in OAuthToken \cup {NoToken}
      BY <1>0, <2>0, <3>3, <3>4 DEF Refresh
    <3> QED BY <1>0, <3>1, <3>2, <3>5, OverIsGood, OneRefreshEnds DEF Outcome
  <2>7. CASE GiveUp(r)
    <3>1. job' = [job EXCEPT ![r] = [Idle EXCEPT !.stage = "transient"]]
      BY <2>7 DEF GiveUp, Finish
    <3> QED BY <1>0, <2>7, <3>1, OverIsGood, OneRefreshEnds DEF GiveUp, Outcome
  <2> QED BY <1>3, <2>1, <2>2, <2>3, <2>4, <2>5, <2>6, <2>7
<1>4. CASE UNCHANGED oauthVars
  BY <1>0, <1>4 DEF oauthVars, OAuthIInv, OAuthTypeOK, GoodRefresh, Issued, Valid
<1> QED BY <1>1, <1>2, <1>3, <1>4 DEF OAuthNext

-----------------------------------------------------------------------------
\* A refresh that is not the one that rotated the token in the row moves to another such.
LEMMA OtherRefreshMoves ==
    ASSUME OAuthIInv, LosslessIInv,
           UNCHANGED <<held, newest, storing>>,
           NEW r \in Refresher, NEW j, job' = [job EXCEPT ![r] = j], ~Rotated(job[r]),
           j.token \in {NoToken, held, job[r].token},
           ~(j.stage = "answered" /\ j.verdict = "response")
    PROVE  LosslessIInv'
<1>1. \A q \in Refresher : job'[q] = IF q = r THEN j ELSE job[q]
  BY DEF OAuthIInv, OAuthTypeOK
<1>2. \A q \in Refresher : job[q].token \in OAuthToken \cup {NoToken}
  BY DEF OAuthIInv, OAuthTypeOK
<1>3. held \in OAuthToken \cup {NoToken} /\ storing \subseteq Grant
  BY DEF OAuthIInv, OAuthTypeOK
<1>4. \A g \in storing' : \A q \in Refresher : job'[q].token.grant # g
  BY <1>1, <1>3 DEF LosslessIInv, NoToken, Grant
<1>5. ASSUME held' # NoToken, NEW q \in Refresher, job'[q].token.grant = held'.grant
      PROVE  job'[q].token.rotation <= held'.rotation
  <2>1. held \in OAuthToken
    BY <1>3, <1>5
  <2>2. CASE q = r
    <3>1. j.token.grant = held.grant
      BY <1>1, <1>5, <2>2
    <3>2. j.token # NoToken
      BY <2>1, <3>1 DEF OAuthToken, NoToken, Grant
    <3> QED BY <1>1, <1>5, <2>1, <2>2, <3>1, <3>2 DEF LosslessIInv, OAuthToken
  <2>3. CASE q # r
    BY <1>1, <1>5, <2>3 DEF LosslessIInv
  <2> QED BY <2>2, <2>3
<1>6. \A q \in Refresher : Rotated(job[q])' <=> Rotated(job[q])
  BY <1>1 DEF Rotated
<1> QED BY <1>4, <1>5, <1>6 DEF LosslessIInv

LEMMA LosslessStarts == OAuthInit => LosslessIInv
BY DEF OAuthInit, LosslessIInv

LEMMA LosslessSteps ==
    ASSUME OAuthIInv, OAuthIInv', ~Lossy, LosslessIInv, [OAuthNext]_oauthVars
    PROVE  LosslessIInv'
<1> USE OAuthAssumption
<1>0. /\ held \in OAuthToken \cup {NoToken} /\ Issued(held)
      /\ job \in [Refresher -> Refresh]
      /\ newest \in [Grant -> 0 .. MaxRotations]
      /\ storing \subseteq Grant
      /\ \A r \in Refresher : GoodRefresh(job[r]) /\ job[r].token \in OAuthToken \cup {NoToken}
  BY DEF OAuthIInv, OAuthTypeOK, Issued, Refresh
<1>1. ASSUME NEW g \in Grant, Consent(g) PROVE LosslessIInv'
  <2>1. /\ newest[g] = 0 /\ \A h \in Grant : newest'[h] = IF h = g THEN 1 ELSE newest[h]
        /\ storing' = storing \cup {g} /\ held' = held /\ job' = job
    BY <1>0, <1>1 DEF Consent
  <2>2. \A t \in OAuthToken \cup {NoToken} : Issued(t) => t.grant # g
    BY <2>1 DEF Issued, OAuthToken, NoToken, Grant
  <2>3. held.grant # g /\ \A r \in Refresher : job[r].token.grant # g
    BY <1>0, <2>2 DEF GoodRefresh
  <2>4. held # NoToken => held.grant \in Grant /\ newest'[held.grant] = newest[held.grant]
    BY <1>0, <2>1, <2>3 DEF OAuthToken
  <2>5. \A r \in Refresher : Rotated(job[r])' <=> Rotated(job[r])
    BY <2>1 DEF Rotated
  <2> QED BY <1>0, <2>1, <2>3, <2>4, <2>5 DEF LosslessIInv
<1>2. ASSUME NEW g \in Grant, Store(g) PROVE LosslessIInv'
  <2>1. /\ g \in storing /\ storing' = storing \ {g} /\ held' = [grant |-> g, rotation |-> 1]
        /\ newest' = newest /\ job' = job
    BY <1>2 DEF Store
  <2>2. newest[g] = 1 /\ \A r \in Refresher : job[r].token.grant # g
    BY <2>1 DEF LosslessIInv
  <2>3. \A r \in Refresher : ~Rotated(job[r])'
    BY <2>1, <2>2 DEF Rotated
  <2> QED BY <2>1, <2>2, <2>3 DEF LosslessIInv
<1>3. ASSUME NEW g \in Grant, RevokedAtProvider(g) PROVE LosslessIInv'
  BY <1>3 DEF RevokedAtProvider, LosslessIInv, Rotated
<1>4. CASE DisconnectLogin
  BY <1>0, <1>4 DEF DisconnectLogin, LosslessIInv, NoToken, Grant
<1>5. ASSUME NEW r \in Refresher, Read(r) PROVE LosslessIInv'
  <2>1. UNCHANGED <<held, newest, storing>> /\ ~Rotated(job[r])
    BY <1>5 DEF Read, Rotated
  <2>2. CASE held = NoToken
    <3>1. PICK j : j = [Idle EXCEPT !.stage = "absent"]
      OBVIOUS
    <3>2. job' = [job EXCEPT ![r] = j] /\ j.token = NoToken /\ j.stage = "absent"
      BY <1>5, <2>2, <3>1 DEF Read, Finish, Idle
    <3> QED BY <2>1, <3>2, OtherRefreshMoves
  <2>3. CASE held # NoToken
    <3>1. PICK j : j = [Idle EXCEPT !.stage = "sent", !.token = held]
      OBVIOUS
    <3>2. job' = [job EXCEPT ![r] = j] /\ j.token = held /\ j.stage = "sent"
      BY <1>5, <2>3, <3>1 DEF Read, Idle
    <3> QED BY <2>1, <3>2, OtherRefreshMoves
  <2> QED BY <2>2, <2>3
<1>6. ASSUME NEW r \in Refresher, Rotate(r) PROVE LosslessIInv'
  <2>0. PICK t, g : t = job[r].token /\ g = t.grant
    OBVIOUS
  <2>1. t \in OAuthToken /\ g \in Grant /\ t.rotation = newest[g] /\ ~Rotated(job[r])
    BY <1>0, <1>6, <2>0 DEF Rotate, Valid, OAuthToken, Rotated
  <2>2. newest' = [newest EXCEPT ![g] = @ + 1] /\ held' = held /\ storing' = storing
    BY <1>6, <2>0 DEF Rotate
  <2>3. PICK next : next = [grant |-> g, rotation |-> newest[g] + 1]
    OBVIOUS
  <2>4. job' = [job EXCEPT ![r].stage = "answered", ![r].verdict = "response", ![r].next = next]
    BY <1>6, <2>0, <2>3 DEF Rotate
  <2>5. PICK j : j = [job[r] EXCEPT !.stage = "answered", !.verdict = "response", !.next = next]
    OBVIOUS
  <2>6. \A q \in Refresher : job'[q] = IF q = r THEN j ELSE job[q]
    BY <1>0, <2>4, <2>5
  <2>7. /\ j.token = t /\ j.stage = "answered" /\ j.verdict = "response" /\ j.next = next
    BY <1>0, <2>0, <2>5 DEF Refresh
  <2>8. \A h \in Grant : newest'[h] = IF h = g THEN newest[g] + 1 ELSE newest[h]
    BY <1>0, <2>1, <2>2
  <2>9. \A q \in Refresher : job'[q].token = job[q].token
    BY <2>0, <2>6, <2>7
  <2>10. ASSUME NEW h \in storing' PROVE newest'[h] = 1 /\ held'.grant # h
    BY <1>0, <2>0, <2>2, <2>8, <2>10 DEF LosslessIInv
  <2>11. ASSUME held # NoToken, held.grant = g
         PROVE  /\ Rotated(job[r])'
                /\ \A q \in Refresher : q # r => ~Rotated(job[q])'
                /\ next.rotation = newest'[g]
    <3>1. held.rotation <= newest[g] /\ t.rotation <= held.rotation /\ held \in OAuthToken
      BY <1>0, <2>0, <2>11 DEF Issued, LosslessIInv
    <3>2. held = t
      BY <2>0, <2>1, <2>11, <3>1 DEF OAuthToken, Grant
    <3>3. Rotated(job[r])'
      BY <2>2, <2>6, <2>7, <3>2 DEF Rotated
    <3>4. ASSUME NEW q \in Refresher, q # r, Rotated(job[q]) PROVE FALSE
      <4>1. job[q].next.rotation = newest[g]
        BY <2>11, <3>4 DEF LosslessIInv
      <4>2. job[q].next.rotation > held.rotation
        BY <1>0, <3>4 DEF Rotated, GoodRefresh
      <4> QED BY <2>1, <3>2, <4>1, <4>2 DEF OAuthToken
    <3>5. \A q \in Refresher : q # r => ~Rotated(job[q])'
      BY <3>4, <2>2, <2>6 DEF Rotated
    <3> QED BY <2>3, <2>8, <2>1, <3>3, <3>5
  <2>12. ASSUME held # NoToken, held.grant # g
         PROVE  /\ newest'[held.grant] = newest[held.grant]
                /\ \A q \in Refresher : Rotated(job[q])' => Rotated(job[q])
                /\ \A q \in Refresher : Rotated(job[q]) => Rotated(job[q])' /\ job'[q].next = job[q].next
    <3>1. held.grant \in Grant
      BY <1>0, <2>12 DEF OAuthToken
    <3>2. ~Rotated(job[r])' /\ ~Rotated(job[r])
      BY <2>0, <2>1, <2>2, <2>6, <2>7, <2>12 DEF Rotated
    <3> QED BY <2>2, <2>6, <2>8, <2>12, <3>1, <3>2 DEF Rotated
  <2>13. held # NoToken => \A q \in Refresher :
             job'[q].token.grant = held.grant => job'[q].token.rotation <= held.rotation
    BY <2>9 DEF LosslessIInv
  <2>14. \A h \in storing : \A q \in Refresher : job'[q].token.grant # h
    BY <2>9 DEF LosslessIInv
  <2>15. CASE held = NoToken
    BY <2>2, <2>10, <2>14, <2>15 DEF LosslessIInv
  <2>16. CASE held # NoToken /\ held.grant = g
    BY <2>2, <2>6, <2>7, <2>10, <2>11, <2>13, <2>14, <2>16 DEF LosslessIInv
  <2>17. CASE held # NoToken /\ held.grant # g
    BY <2>2, <2>10, <2>12, <2>13, <2>14, <2>17 DEF LosslessIInv
  <2> QED BY <2>15, <2>16, <2>17
<1>7. ASSUME NEW r \in Refresher, Refuse(r) PROVE LosslessIInv'
  <2>1. UNCHANGED <<held, newest, storing>> /\ ~Rotated(job[r])
    BY <1>7 DEF Refuse, Rotated
  <2>2. PICK answer \in Failures \cup Rejections :
           job' = [job EXCEPT ![r].stage = "answered", ![r].verdict = Verdict(answer)]
    BY <1>7 DEF Refuse
  <2>3. PICK j : j = [job[r] EXCEPT !.stage = "answered", !.verdict = Verdict(answer)]
    OBVIOUS
  <2>4. job' = [job EXCEPT ![r] = j] /\ j.token = job[r].token /\ j.verdict = Verdict(answer)
    BY <1>0, <2>2, <2>3 DEF Refresh
  <2>5. j.verdict # "response"
    BY <2>2, <2>4, VerdictType
  <2> QED BY <2>1, <2>4, <2>5, OtherRefreshMoves
<1>8. ASSUME NEW r \in Refresher, DeleteRevoked(r) \/ GiveUp(r) PROVE LosslessIInv'
  <2>1. ~Rotated(job[r]) /\ newest' = newest /\ storing' = storing
    BY <1>8 DEF DeleteRevoked, GiveUp, Rotated
  <2>2. PICK outcome \in Outcome : job' = [job EXCEPT ![r] = [Idle EXCEPT !.stage = outcome]]
    BY <1>8 DEF DeleteRevoked, GiveUp, Finish, Outcome
  <2>3. PICK j : j = [Idle EXCEPT !.stage = outcome]
    OBVIOUS
  <2>4. job' = [job EXCEPT ![r] = j] /\ j.token = NoToken /\ j.verdict = "none"
    BY <2>2, <2>3 DEF Idle
  <2>5. CASE held' = held
    BY <2>1, <2>4, <2>5, OtherRefreshMoves
  <2>6. CASE held' = NoToken
    <3>1. \A q \in Refresher : job'[q].token \in {NoToken, job[q].token}
      BY <1>0, <2>4
    <3> QED BY <1>0, <2>1, <2>6, <3>1 DEF LosslessIInv, NoToken, Grant
  <2> QED BY <1>8, <2>5, <2>6 DEF DeleteRevoked, GiveUp
<1>9. ASSUME NEW r \in Refresher, StoreRotated(r) PROVE LosslessIInv'
  <2>1. newest' = newest /\ storing' = storing
    BY <1>9 DEF StoreRotated
  <2>2. PICK j : j = [Idle EXCEPT !.stage = "has_token"]
    OBVIOUS
  <2>3. job' = [job EXCEPT ![r] = j] /\ j.token = NoToken /\ j.verdict = "none"
    BY <1>9, <2>2 DEF StoreRotated, Finish, Idle
  <2>4. CASE ~StillHolds(r)
    <3>1. ~Rotated(job[r]) /\ held' = held
      BY <1>9, <2>4 DEF StoreRotated, StillHolds, Rotated
    <3> QED BY <2>1, <2>3, <3>1, OtherRefreshMoves
  <2>5. CASE StillHolds(r)
    <3>0. PICK next : next = job[r].next
      OBVIOUS
    <3>1. Rotated(job[r]) /\ held' = next
      BY <1>9, <2>5, <3>0 DEF StoreRotated, StillHolds, Rotated
    <3>2. /\ held # NoToken /\ next # NoToken /\ next.grant = held.grant
          /\ next.rotation > held.rotation
      BY <1>0, <3>0, <3>1 DEF Rotated, GoodRefresh
    <3>3. next.rotation = newest[held.grant]
      BY <3>0, <3>1, <3>2 DEF LosslessIInv
    <3>4. \A q \in Refresher : job'[q] = IF q = r THEN j ELSE job[q]
      BY <1>0, <2>3
    <3>5. ASSUME NEW q \in Refresher, job'[q].token.grant = held.grant
          PROVE  q # r /\ job'[q].token.rotation < next.rotation
      <4>1. held.grant \in Grant /\ held \in OAuthToken
        BY <1>0, <3>2 DEF OAuthToken
      <4>2. q # r
        BY <2>3, <3>4, <3>5, <4>1 DEF NoToken, Grant
      <4>3. job[q].token.rotation <= held.rotation /\ job[q].token \in OAuthToken
        BY <1>0, <3>2, <3>4, <3>5, <4>1, <4>2 DEF LosslessIInv, NoToken, Grant
      <4>4. next \in OAuthToken
        BY <1>0, <3>0, <3>2 DEF Refresh
      <4> QED BY <3>2, <3>4, <4>1, <4>2, <4>3, <4>4 DEF OAuthToken
    <3>6. next \in OAuthToken
      BY <1>0, <3>0, <3>2 DEF Refresh
    <3>7. \A q \in Refresher : ~Rotated(job[q])'
      BY <3>1, <3>2, <3>5, <3>6 DEF Rotated, OAuthToken
    <3>8. \A q \in Refresher : job'[q].token.grant = held'.grant => job'[q].token.rotation <= held'.rotation
      <4>1. ASSUME NEW q \in Refresher, job'[q].token.grant = held'.grant
            PROVE  job'[q].token.rotation <= held'.rotation
        <5>1. job'[q].token.rotation < next.rotation /\ job'[q] = job[q]
          BY <3>1, <3>2, <3>4, <3>5, <4>1
        <5>2. job[q].token \in OAuthToken \cup {NoToken}
          BY <1>0
        <5> QED BY <3>1, <3>6, <5>1, <5>2 DEF OAuthToken, NoToken
      <4> QED BY <4>1
    <3>9. ASSUME NEW g \in storing'
          PROVE  newest'[g] = 1 /\ held'.grant # g /\ \A q \in Refresher : job'[q].token.grant # g
      <4>1. g \in storing /\ g # 0 /\ newest[g] = 1 /\ held.grant # g
        BY <1>0, <2>1, <3>9 DEF LosslessIInv, Grant
      <4>2. ASSUME NEW q \in Refresher PROVE job'[q].token.grant # g
        <5>1. job[q].token.grant # g
          BY <4>1 DEF LosslessIInv
        <5> QED BY <2>3, <3>4, <4>1, <5>1 DEF NoToken
      <4> QED BY <2>1, <3>1, <3>2, <4>1, <4>2
    <3>10. held'.rotation = newest'[held'.grant]
      BY <2>1, <3>1, <3>2, <3>3
    <3> QED BY <3>7, <3>8, <3>9, <3>10 DEF LosslessIInv
  <2> QED BY <2>4, <2>5
<1>10. CASE UNCHANGED oauthVars
  BY <1>10 DEF oauthVars, LosslessIInv, Rotated
<1> QED BY <1>1, <1>2, <1>3, <1>4, <1>5, <1>6, <1>7, <1>8, <1>9, <1>10 DEF OAuthNext, StoreLost, Die

-----------------------------------------------------------------------------
LEMMA LosslessStores ==
    ASSUME OAuthIInv, LosslessIInv
    PROVE  StoredTokenWorks
BY DEF OAuthIInv, OAuthTypeOK, LosslessIInv, StoredTokenWorks, Rotated, Valid

LEMMA ApartSteps ==
    ASSUME OAuthIInv, GrantsApart, [OAuthNext]_oauthVars
    PROVE  GrantsApart'
<1> USE OAuthAssumption
<1>0. /\ held \in OAuthToken \cup {NoToken} /\ Issued(held)
      /\ newest \in [Grant -> 0 .. MaxRotations]
      /\ storing \subseteq Grant /\ ended \subseteq Grant
      /\ \A r \in Refresher : GoodRefresh(job[r])
  BY DEF OAuthIInv, OAuthTypeOK, Issued
<1>1. ASSUME NEW g \in Grant, Consent(g) PROVE GrantsApart'
  <2>1. /\ newest[g] = 0 /\ \A h \in Grant : newest'[h] = IF h = g THEN 1 ELSE newest[h]
        /\ storing' = storing \cup {g} /\ held' = held /\ ended' = ended
    BY <1>0, <1>1 DEF Consent
  <2>2. held.grant # g
    BY <1>0, <2>1 DEF Issued, OAuthToken, NoToken, Grant
  <2> QED BY <1>0, <2>1, <2>2 DEF GrantsApart
<1>2. ASSUME NEW g \in Grant, Store(g) \/ StoreLost(g) \/ RevokedAtProvider(g) PROVE GrantsApart'
  BY <1>2 DEF Store, StoreLost, RevokedAtProvider, GrantsApart
<1>3. CASE DisconnectLogin
  <2>1. held.grant \in Grant /\ newest[held.grant] > 0
    BY <1>0, <1>3 DEF DisconnectLogin, Issued, OAuthToken, Grant
  <2> QED BY <1>0, <1>3, <2>1 DEF DisconnectLogin, GrantsApart, NoToken, Grant
<1>4. ASSUME NEW r \in Refresher,
             Read(r) \/ Rotate(r) \/ Refuse(r) \/ Die(r) \/ DeleteRevoked(r) \/ StoreRotated(r) \/ GiveUp(r)
      PROVE  GrantsApart'
  <2>1. held'.grant = held.grant \/ held' = NoToken
    BY <1>0, <1>4 DEF Read, Rotate, Refuse, Die, DeleteRevoked, StoreRotated, GiveUp, StillHolds, GoodRefresh
  <2>2. /\ storing' = storing /\ ended' = ended
        /\ \A g \in Grant : newest[g] > 0 => newest'[g] > 0
    <3>1. CASE Rotate(r)
      BY <1>0, <3>1 DEF Rotate, Grant
    <3>2. CASE ~Rotate(r)
      BY <1>4, <3>2 DEF Read, Refuse, Die, DeleteRevoked, StoreRotated, GiveUp
    <3> QED BY <3>1, <3>2
  <2> QED BY <1>0, <2>1, <2>2 DEF GrantsApart, NoToken, Grant
<1>5. CASE UNCHANGED oauthVars
  BY <1>5 DEF oauthVars, GrantsApart
<1> QED BY <1>1, <1>2, <1>3, <1>4, <1>5 DEF OAuthNext

LEMMA RefreshesAct ==
    ASSUME OAuthIInv, GrantsApart, [OAuthNext]_oauthVars
    PROVE  WorkingTokenIsKept /\ RotationsMoveForward /\ AbsentIsTrue
<1>0. /\ job \in [Refresher -> Refresh] /\ held \in OAuthToken \cup {NoToken}
      /\ \A r \in Refresher : GoodRefresh(job[r])
  BY DEF OAuthIInv, OAuthTypeOK, Refresh
<1>1. ASSUME NEW g \in Grant, Consent(g) \/ Store(g) \/ StoreLost(g) \/ RevokedAtProvider(g)
      PROVE  WorkingTokenIsKept /\ RotationsMoveForward /\ AbsentIsTrue
  <2>1. job' = job /\ (held' = held \/ held' = [grant |-> g, rotation |-> 1])
    BY <1>1 DEF Consent, Store, StoreLost, RevokedAtProvider
  <2>2. held' = NoToken => held' = held
    BY <2>1 DEF NoToken, Grant
  <2> QED BY <2>1, <2>2 DEF WorkingTokenIsKept, RotationsMoveForward, AbsentIsTrue
<1>2. CASE DisconnectLogin
  <2>1. ended' # ended /\ job' = job
    BY <1>2 DEF DisconnectLogin, GrantsApart
  <2> QED BY <2>1 DEF WorkingTokenIsKept, RotationsMoveForward, AbsentIsTrue
<1>3. ASSUME NEW r \in Refresher,
             Read(r) \/ Rotate(r) \/ Refuse(r) \/ Die(r) \/ GiveUp(r)
      PROVE  WorkingTokenIsKept /\ RotationsMoveForward /\ AbsentIsTrue
  <2>1. held' = held /\ \A q \in Refresher : q # r => job'[q] = job[q]
    BY <1>0, <1>3 DEF Read, Rotate, Refuse, Die, GiveUp, Finish
  <2>2. job'[r].stage = "absent" => held = NoToken
    <3>1. CASE Read(r)
      BY <1>0, <3>1 DEF Read, Finish, Idle
    <3>2. CASE Rotate(r) \/ Refuse(r)
      <4>1. CASE Rotate(r)
        <5>1. \E verdict, next : job' = [job EXCEPT ![r].stage = "answered", ![r].verdict = verdict, ![r].next = next]
          BY <4>1 DEF Rotate
        <5> QED BY <1>0, <5>1 DEF Refresh
      <4>2. CASE Refuse(r)
        <5>1. \E verdict : job' = [job EXCEPT ![r].stage = "answered", ![r].verdict = verdict]
          BY <4>2 DEF Refuse
        <5> QED BY <1>0, <5>1 DEF Refresh
      <4> QED BY <3>2, <4>1, <4>2
    <3>3. CASE Die(r) \/ GiveUp(r)
      BY <1>0, <3>3 DEF Die, GiveUp, Finish, Idle
    <3> QED BY <1>3, <3>1, <3>2, <3>3
  <2> QED BY <2>1, <2>2 DEF WorkingTokenIsKept, RotationsMoveForward, AbsentIsTrue
<1>4. ASSUME NEW r \in Refresher, DeleteRevoked(r)
      PROVE  WorkingTokenIsKept /\ RotationsMoveForward /\ AbsentIsTrue
  <2>1. \A q \in Refresher : q # r => job'[q] = job[q]
    BY <1>0, <1>4 DEF DeleteRevoked, Finish
  <2>2. CASE StillHolds(r)
    <3>1. ~Valid(job[r].token) /\ held' = NoToken /\ job[r].token = held
      BY <1>0, <1>4, <2>2 DEF DeleteRevoked, GoodRefresh, StillHolds
    <3> QED BY <3>1 DEF WorkingTokenIsKept, RotationsMoveForward, AbsentIsTrue
  <2>3. CASE ~StillHolds(r)
    <3>1. held' = held /\ job'[r].stage = "transient"
      BY <1>0, <1>4, <2>3 DEF DeleteRevoked, Finish, Idle
    <3> QED BY <2>1, <3>1 DEF WorkingTokenIsKept, RotationsMoveForward, AbsentIsTrue
  <2> QED BY <2>2, <2>3
<1>5. ASSUME NEW r \in Refresher, StoreRotated(r)
      PROVE  WorkingTokenIsKept /\ RotationsMoveForward /\ AbsentIsTrue
  <2>1. /\ \A q \in Refresher : q # r => job'[q] = job[q]
        /\ job'[r].stage = "has_token"
    BY <1>0, <1>5 DEF StoreRotated, Finish, Idle
  <2>2. held' # held => /\ held' # NoToken /\ held'.grant = held.grant /\ held'.rotation > held.rotation
    BY <1>0, <1>5 DEF StoreRotated, StillHolds, GoodRefresh
  <2> QED BY <2>1, <2>2 DEF WorkingTokenIsKept, RotationsMoveForward, AbsentIsTrue
<1>6. CASE UNCHANGED oauthVars
  BY <1>6 DEF oauthVars, WorkingTokenIsKept, RotationsMoveForward, AbsentIsTrue
<1> QED BY <1>1, <1>2, <1>3, <1>4, <1>5, <1>6 DEF OAuthNext

\* Refreshes of one credential, however many overlap each other, a reconnect or a
\* disconnect: a refresh deletes a row only while the token in it is worthless, never moves
\* a row to an older token or another grant, and reports nothing connected only when that
\* is so; and while no answer is lost, a stored token works.
THEOREM RefreshesStayHarmless == OAuthSpec => RefreshesAreHarmless
<1>1. OAuthInit => OAuthBothIInv
  <2>1. OAuthInit => GrantsApart
    BY DEF OAuthInit, GrantsApart
  <2> QED BY <2>1, OAuthStarts, LosslessStarts DEF OAuthBothIInv
<1>2. OAuthBothIInv /\ [OAuthNext]_oauthVars => OAuthBothIInv'
  <2>1. ASSUME OAuthBothIInv, [OAuthNext]_oauthVars PROVE OAuthIInv'
    BY <2>1, OAuthSteps DEF OAuthBothIInv
  <2>2. ASSUME OAuthBothIInv, [OAuthNext]_oauthVars, ~Lossy PROVE LosslessIInv'
    BY <2>1, <2>2, LosslessSteps DEF OAuthBothIInv
  <2> QED BY <2>1, <2>2, ApartSteps DEF OAuthBothIInv
<1>3. OAuthBothIInv => OAuthTypeOK /\ (~Lossy => StoredTokenWorks)
  BY LosslessStores DEF OAuthBothIInv, OAuthIInv
<1>4. OAuthBothIInv /\ [OAuthNext]_oauthVars =>
        [WorkingTokenIsKept /\ RotationsMoveForward /\ AbsentIsTrue]_oauthVars
  BY RefreshesAct DEF OAuthBothIInv
<1> QED BY <1>1, <1>2, <1>3, <1>4, PTL DEF OAuthSpec, RefreshesAreHarmless

-----------------------------------------------------------------------------
\* SharedLogins.

CacheFits(row) == row.cache # 0 => row.cache = row.token.grant
HasLogin(a) == request[a].stage \in {"approved", "storing"}

SharedIInv ==
    /\ SharedTypeOK
    /\ \A i \in ShareId : CacheFits(share[i]) /\ (~Free(i) => i \in Shared)
    /\ \A a \in Admin : CacheFits(request[a].loaded) /\ (HasLogin(a) => request[a].grant \in Login)

\* While nobody re-targets a login nor dies: each login is in one place, a row or a
\* request that has yet to store it, with the newest rotation or a refresh that holds it.
Newest(i) ==
    /\ share[i].token \in LoginToken
    /\ IF holder[i].stage = "response"
       THEN /\ holder[i].next = [grant |-> share[i].token.grant, rotation |-> turns[share[i].token.grant]]
       ELSE share[i].token.rotation = turns[share[i].token.grant]

KeptIInv ==
    /\ \A i \in Shared : Newest(i)
    /\ \A i, j \in Shared : share[i].token.grant = share[j].token.grant => i = j
    /\ \A a \in Admin : HasLogin(a) =>
          /\ turns[request[a].grant] = 1
          /\ \A i \in Shared : share[i].token.grant # request[a].grant
          /\ \A b \in Admin : HasLogin(b) /\ request[b].grant = request[a].grant => b = a
    /\ \A a \in Admin : request[a].stage # "retargeting"

SharedBothIInv == SharedIInv /\ (~Retargets /\ ~MayDie => KeptIInv)

Held == [stage : {"none", "locked", "response", "rejected"}, next : LoginToken \cup {NoLogin}]
Asked == [stage : {"idle", "login", "approved", "storing", "retargeting"},
          scope : Scope, edit : 0 .. MaxRows, grant : 0 .. MaxLogins, loaded : Share]

LEMMA SomeScope == (CHOOSE s \in Scope : TRUE) \in Scope
BY SharedAssumption

LEMMA NothingIsTyped == NoShare \in Share /\ NoRequest \in Asked /\ Unlocked \in Held
BY SomeScope, SharedAssumption DEF NoShare, NoRequest, Unlocked, Share, Asked, Held

LEMMA TypesOfShared ==
    ASSUME SharedTypeOK
    PROVE  /\ share \in [ShareId -> Share] /\ holder \in [ShareId -> Held] /\ request \in [Admin -> Asked]
           /\ turns \in [Login -> 0 .. MaxTurns]
BY DEF SharedTypeOK, Held, Asked

\* A save writes one row whose lock is free, with the token, and its target is not taken.
LEMMA UpsertWrites ==
    ASSUME SharedIInv, NEW a \in Admin, NEW token \in LoginToken \cup {NoLogin}, Upsert(a, token),
           share' # share
    PROVE  \E i \in ShareId, row \in Share :
              /\ share' = [share EXCEPT ![i] = row]
              /\ Free(i)
              /\ \A j \in Shared \ {i} : share[j].scope # row.scope
              /\ row.state = "shared" /\ row.token = token /\ CacheFits(row)
<1> USE SharedAssumption
<1>0. /\ request[a] \in Asked /\ share \in [ShareId -> Share] /\ CacheFits(request[a].loaded)
      /\ \A i \in ShareId : ~Free(i) => i \in Shared
  BY TypesOfShared DEF SharedIInv
<1>1. ASSUME request[a].edit = 0, ~Taken(request[a].scope, 0),
             NEW j \in ShareId, share[j].state = "absent",
             share' = [share EXCEPT ![j] = [state |-> "shared", scope |-> request[a].scope,
                                            token |-> token, cache |-> 0]]
      PROVE  \E i \in ShareId, row \in Share :
                /\ share' = [share EXCEPT ![i] = row]
                /\ Free(i)
                /\ \A k \in Shared \ {i} : share[k].scope # row.scope
                /\ row.state = "shared" /\ row.token = token /\ CacheFits(row)
  <2>1. PICK row : row = [state |-> "shared", scope |-> request[a].scope, token |-> token, cache |-> 0]
    OBVIOUS
  <2>2. row \in Share /\ row.state = "shared" /\ row.token = token /\ CacheFits(row)
    BY <1>0, <2>1 DEF Share, Asked, CacheFits
  <2>3. Free(j)
    BY <1>0, <1>1 DEF Shared
  <2>4. \A k \in Shared \ {j} : share[k].scope # row.scope
    BY <1>1, <2>1 DEF Taken, Shared, ShareId
  <2> QED BY <1>1, <2>1, <2>2, <2>3, <2>4
<1>2. ASSUME NEW j \in ShareId, j = request[a].edit, ~Taken(request[a].scope, j), Free(j),
             share' = [share EXCEPT ![j] = [state |-> "shared", scope |-> request[a].scope,
                                            token |-> token, cache |-> CacheAfter(a, token)]]
      PROVE  \E i \in ShareId, row \in Share :
                /\ share' = [share EXCEPT ![i] = row]
                /\ Free(i)
                /\ \A k \in Shared \ {i} : share[k].scope # row.scope
                /\ row.state = "shared" /\ row.token = token /\ CacheFits(row)
  <2>1. PICK row : row = [state |-> "shared", scope |-> request[a].scope,
                          token |-> token, cache |-> CacheAfter(a, token)]
    OBVIOUS
  <2>2. CacheAfter(a, token) \in 0 .. MaxLogins
    BY <1>0 DEF CacheAfter, Asked, Share
  <2>3. CacheAfter(a, token) # 0 => CacheAfter(a, token) = token.grant
    BY <1>0 DEF CacheAfter, CacheFits
  <2>4. row \in Share /\ row.state = "shared" /\ row.token = token /\ CacheFits(row)
    BY <1>0, <2>1, <2>2, <2>3 DEF Share, Asked, CacheFits
  <2>5. \A k \in Shared \ {j} : share[k].scope # row.scope
    BY <1>2, <2>1 DEF Taken
  <2> QED BY <1>2, <2>1, <2>4, <2>5
<1>3. request[a].edit # 0 => request[a].edit \in ShareId
  BY <1>0 DEF Asked, ShareId
<1> QED BY <1>1, <1>2, <1>3 DEF Upsert

\* What a step leaves to show: each row and each request on its own, and that a target that
\* is taken is not taken twice.
LEMMA RowsMove ==
    ASSUME SharedIInv,
           share' \in [ShareId -> Share], holder' \in [ShareId -> Held], request' \in [Admin -> Asked],
           turns' \in [Login -> 0 .. MaxTurns],
           withdrawn' \subseteq {g \in Login : turns'[g] > 0},
           \A i, j \in Shared' : share'[i].scope = share'[j].scope => i = j,
           \A i \in ShareId : CacheFits(share'[i]) /\ (~Free(i)' => i \in Shared'),
           \A a \in Admin : CacheFits(request'[a].loaded) /\ (HasLogin(a)' => request'[a].grant \in Login)
    PROVE  SharedIInv'
BY DEF SharedIInv, SharedTypeOK, Held, Asked, CacheFits

LEMMA SharedStarts == SharedInit => SharedIInv
<1> SUFFICES ASSUME SharedInit PROVE SharedIInv
  OBVIOUS
<1> USE SharedAssumption, NothingIsTyped
<1>1. Shared = {}
  BY DEF SharedInit, Shared, NoShare
<1>2. SharedTypeOK
  BY <1>1 DEF SharedInit, SharedTypeOK, Held, Asked, Login
<1>3. CacheFits(NoShare) /\ CacheFits(NoRequest.loaded) /\ NoRequest.stage = "idle"
  BY DEF CacheFits, NoShare, NoRequest
<1> QED BY <1>2, <1>3 DEF SharedInit, SharedIInv, Free, HasLogin

\* A step of one admin that stores nothing.
LEMMA AdminMoves ==
    ASSUME SharedIInv, UNCHANGED <<share, withdrawn, holder>>,
           turns' \in [Login -> 0 .. MaxTurns], \A g \in Login : turns'[g] >= turns[g],
           NEW a \in Admin, NEW r \in Asked, request' = [request EXCEPT ![a] = r],
           CacheFits(r.loaded), r.stage \in {"approved", "storing"} => r.grant \in Login
    PROVE  SharedIInv'
<1>1. \A b \in Admin : request'[b] = IF b = a THEN r ELSE request[b]
  BY TypesOfShared DEF SharedIInv
<1>2. request' \in [Admin -> Asked]
  BY TypesOfShared DEF SharedIInv
<1>3. \A b \in Admin : CacheFits(request'[b].loaded) /\ (HasLogin(b)' => request'[b].grant \in Login)
  BY <1>1 DEF SharedIInv, HasLogin
<1>4. withdrawn' \subseteq {g \in Login : turns'[g] > 0}
  BY TypesOfShared, SharedAssumption DEF SharedIInv, SharedTypeOK
<1>5. /\ \A i, j \in Shared' : share'[i].scope = share'[j].scope => i = j
      /\ \A i \in ShareId : CacheFits(share'[i]) /\ (~Free(i)' => i \in Shared')
  BY DEF SharedIInv, SharedTypeOK, Shared, Free
<1> QED BY <1>2, <1>3, <1>4, <1>5, RowsMove, TypesOfShared DEF SharedIInv

\* An admin's save of a row.
LEMMA SaveMoves ==
    ASSUME SharedIInv, UNCHANGED <<turns, withdrawn, holder>>,
           NEW a \in Admin, request' = [request EXCEPT ![a] = NoRequest],
           NEW token \in LoginToken \cup {NoLogin}, Upsert(a, token)
    PROVE  SharedIInv'
<1>0. SharedTypeOK /\ share \in [ShareId -> Share] /\ holder \in [ShareId -> Held]
      /\ request \in [Admin -> Asked] /\ turns \in [Login -> 0 .. MaxTurns]
  BY TypesOfShared DEF SharedIInv
<1>1. \A b \in Admin : request'[b] = IF b = a THEN NoRequest ELSE request[b]
  BY <1>0
<1>2. request' \in [Admin -> Asked]
  BY <1>0, NothingIsTyped
<1>3. \A b \in Admin : CacheFits(request'[b].loaded) /\ (HasLogin(b)' => request'[b].grant \in Login)
  BY <1>1 DEF SharedIInv, HasLogin, NoRequest, NoShare, CacheFits
<1>4. withdrawn' \subseteq {g \in Login : turns'[g] > 0}
  BY <1>0 DEF SharedTypeOK
<1>5. CASE share' = share
  <2>1. /\ \A i, j \in Shared' : share'[i].scope = share'[j].scope => i = j
        /\ \A i \in ShareId : CacheFits(share'[i]) /\ (~Free(i)' => i \in Shared')
    BY <1>5 DEF SharedIInv, SharedTypeOK, Shared, Free
  <2> QED BY <1>0, <1>2, <1>3, <1>4, <1>5, <2>1, RowsMove
<1>6. CASE share' # share
  <2>1. PICK i \in ShareId, row \in Share :
              /\ share' = [share EXCEPT ![i] = row]
              /\ Free(i)
              /\ \A j \in Shared \ {i} : share[j].scope # row.scope
              /\ row.state = "shared" /\ row.token = token /\ CacheFits(row)
    BY <1>6, UpsertWrites
  <2>2. \A j \in ShareId : share'[j] = IF j = i THEN row ELSE share[j]
    BY <1>0, <2>1
  <2>3. Shared' = Shared \cup {i}
    BY <2>1, <2>2 DEF Shared
  <2>4. \A j, k \in Shared' : share'[j].scope = share'[k].scope => j = k
    BY <1>0, <2>1, <2>2, <2>3 DEF SharedTypeOK, Shared
  <2>5. \A j \in ShareId : CacheFits(share'[j]) /\ (~Free(j)' => j \in Shared')
    BY <2>1, <2>2, <2>3 DEF SharedIInv, Free
  <2>6. share' \in [ShareId -> Share]
    BY <1>0, <2>1
  <2> QED BY <1>0, <1>2, <1>3, <1>4, <2>4, <2>5, <2>6, RowsMove
<1> QED BY <1>5, <1>6

\* A step of the holder of one row's lock, which leaves the row's target alone.
LEMMA HolderMoves ==
    ASSUME SharedIInv, UNCHANGED <<withdrawn, request>>,
           turns' \in [Login -> 0 .. MaxTurns], \A g \in Login : turns'[g] >= turns[g],
           NEW i \in ShareId, NEW row \in Share, share' = [share EXCEPT ![i] = row],
           row.scope = share[i].scope \/ row.state # "shared", CacheFits(row),
           NEW h \in Held, holder' = [holder EXCEPT ![i] = h],
           row.state = "shared" => i \in Shared,
           h # Unlocked => row.state = "shared"
    PROVE  SharedIInv'
<1>0. SharedTypeOK /\ share \in [ShareId -> Share] /\ holder \in [ShareId -> Held]
      /\ request \in [Admin -> Asked] /\ turns \in [Login -> 0 .. MaxTurns]
  BY TypesOfShared DEF SharedIInv
<1>1. /\ \A j \in ShareId : share'[j] = IF j = i THEN row ELSE share[j]
      /\ \A j \in ShareId : holder'[j] = IF j = i THEN h ELSE holder[j]
      /\ share' \in [ShareId -> Share] /\ holder' \in [ShareId -> Held]
  BY <1>0
<1>2. Shared' \subseteq Shared /\ \A j \in ShareId : j # i => (j \in Shared' <=> j \in Shared)
  BY <1>1 DEF Shared
<1>3. \A j, k \in Shared' : share'[j].scope = share'[k].scope => j = k
  BY <1>0, <1>1, <1>2 DEF SharedTypeOK, Shared
<1>4. \A j \in ShareId : CacheFits(share'[j]) /\ (~Free(j)' => j \in Shared')
  BY <1>1, <1>2 DEF SharedIInv, Free, Shared
<1>5. withdrawn' \subseteq {g \in Login : turns'[g] > 0}
  BY <1>0, SharedAssumption DEF SharedTypeOK
<1>6. \A b \in Admin : CacheFits(request'[b].loaded) /\ (HasLogin(b)' => request'[b].grant \in Login)
  BY DEF SharedIInv, HasLogin
<1> QED BY <1>0, <1>1, <1>3, <1>4, <1>5, <1>6, RowsMove

LEMMA SharedSteps ==
    ASSUME SharedIInv, [SharedNext]_sharedVars
    PROVE  SharedIInv'
<1> USE SharedAssumption
<1>0. SharedTypeOK /\ share \in [ShareId -> Share] /\ holder \in [ShareId -> Held]
      /\ request \in [Admin -> Asked] /\ turns \in [Login -> 0 .. MaxTurns]
      /\ \A g \in Login : turns[g] >= turns[g]
  BY TypesOfShared DEF SharedIInv
<1>01. NoShare \in Share /\ NoRequest \in Asked /\ CacheFits(NoShare)
  BY NothingIsTyped DEF CacheFits, NoShare
<1>02. \A a \in Admin : CacheFits(request[a].loaded)
  BY DEF SharedIInv
<1>03. \A i \in ShareId : CacheFits(share[i])
  BY DEF SharedIInv
<1>1. ASSUME NEW a \in Admin, NEW r \in Asked, UNCHANGED <<share, withdrawn, holder, turns>>,
             request' = [request EXCEPT ![a] = r],
             CacheFits(r.loaded), r.stage \notin {"approved", "storing"} \/ r.grant \in Login
      PROVE  SharedIInv'
  BY <1>0, <1>1, AdminMoves
<1>2. ASSUME NEW a \in Admin, LoginEnds(a) PROVE SharedIInv'
  BY <1>1, <1>2, <1>01 DEF LoginEnds, NoRequest
<1>3. ASSUME NEW a \in Admin, NEW scope \in Scope, StartLogin(a, scope) PROVE SharedIInv'
  <2>1. PICK r : r = [NoRequest EXCEPT !.stage = "login", !.scope = scope]
    OBVIOUS
  <2>2. r \in Asked /\ r.stage = "login" /\ r.loaded = NoShare
    BY <2>1, <1>01 DEF NoRequest, Asked
  <2> QED BY <1>1, <1>3, <1>01, <2>1, <2>2 DEF StartLogin
<1>4. ASSUME NEW a \in Admin, NEW i \in ShareId, StartReconnect(a, i) PROVE SharedIInv'
  <2>1. PICK r : r = [NoRequest EXCEPT !.stage = "login", !.scope = share[i].scope, !.edit = i]
    OBVIOUS
  <2>2. share[i].scope \in Scope /\ i \in 0 .. MaxRows
    BY <1>0 DEF Share, ShareId
  <2>3. r \in Asked /\ r.stage = "login" /\ r.loaded = NoShare
    BY <2>1, <2>2, <1>01 DEF NoRequest, Asked
  <2> QED BY <1>1, <1>4, <1>01, <2>1, <2>3 DEF StartReconnect
<1>5. ASSUME NEW a \in Admin, NEW g \in Login, Approved(a, g) PROVE SharedIInv'
  <2>1. PICK r : r = [request[a] EXCEPT !.stage = "approved", !.grant = g]
    OBVIOUS
  <2>2. request' = [request EXCEPT ![a] = r]
    BY <1>0, <1>5, <2>1 DEF Approved
  <2>30. g \in 0 .. MaxLogins
    BY DEF Login
  <2>3. r \in Asked /\ r.grant = g /\ r.loaded = request[a].loaded
    BY <1>0, <2>1, <2>30 DEF Asked
  <2>4. turns' \in [Login -> 0 .. MaxTurns] /\ \A h \in Login : turns'[h] >= turns[h]
    BY <1>0, <1>5 DEF Approved
  <2> QED BY <1>5, <1>02, <2>2, <2>3, <2>4, AdminMoves DEF Approved
<1>6. ASSUME NEW a \in Admin, LoadForStore(a) PROVE SharedIInv'
  <2>0. PICK i, loads : i = request[a].edit /\ loads = (i # 0 /\ share[i].state = "shared")
    OBVIOUS
  <2>1. PICK r : r = [request[a] EXCEPT !.stage = "storing", !.edit = IF loads THEN i ELSE 0,
                                         !.loaded = IF loads THEN share[i] ELSE NoShare]
    OBVIOUS
  <2>2. request' = [request EXCEPT ![a] = r]
    BY <1>0, <1>6, <2>0, <2>1 DEF LoadForStore
  <2>3. i # 0 => i \in ShareId
    BY <1>0, <2>0 DEF Asked, ShareId
  <2>30. PICK e, l : e = (IF loads THEN i ELSE 0) /\ l = (IF loads THEN share[i] ELSE NoShare)
    OBVIOUS
  <2>31. e \in 0 .. MaxRows /\ l \in Share /\ CacheFits(l)
    <3>1. CASE loads
      <4>1. e = i /\ i \in ShareId /\ l = share[i]
        BY <2>0, <2>3, <2>30, <3>1
      <4> QED BY <1>0, <1>03, <4>1 DEF ShareId
    <3>2. CASE ~loads
      BY <1>01, <2>30, <3>2
    <3> QED BY <3>1, <3>2
  <2>32. r = [request[a] EXCEPT !.stage = "storing", !.edit = e, !.loaded = l]
    BY <2>1, <2>30
  <2>4. r \in Asked /\ r.grant = request[a].grant /\ CacheFits(r.loaded)
    BY <1>0, <2>31, <2>32 DEF Asked
  <2>5. request[a].grant \in Login
    BY <1>6 DEF SharedIInv, HasLogin, LoadForStore
  <2> QED BY <1>1, <1>6, <2>2, <2>4, <2>5 DEF LoadForStore
<1>7. ASSUME NEW a \in Admin, StoreLogin(a) PROVE SharedIInv'
  <2>1. PICK token : token = [grant |-> request[a].grant, rotation |-> 1]
    OBVIOUS
  <2>2. token \in LoginToken
    BY <1>7, <2>1 DEF StoreLogin, SharedIInv, HasLogin, LoginToken
  <2> QED BY <1>7, <2>1, <2>2, SaveMoves DEF StoreLogin
<1>8. ASSUME NEW a \in Admin, Retarget(a) PROVE SharedIInv'
  <2>1. request[a].loaded.token \in LoginToken \cup {NoLogin}
    BY <1>0 DEF Asked, Share
  <2> QED BY <1>8, <2>1, SaveMoves DEF Retarget
<1>9. ASSUME NEW a \in Admin, NEW scope \in Scope, NEW i \in ShareId, LoadForEdit(a, i, scope)
      PROVE  SharedIInv'
  <2>1. PICK r : r = [stage |-> "retargeting", scope |-> scope, edit |-> i, grant |-> 0, loaded |-> share[i]]
    OBVIOUS
  <2>2. r \in Asked /\ r.stage = "retargeting" /\ r.loaded = share[i]
    BY <1>0, <2>1 DEF Asked, ShareId
  <2> QED BY <1>1, <1>9, <1>03, <2>1, <2>2 DEF LoadForEdit
<1>10. ASSUME NEW i \in ShareId, Delete(i) PROVE SharedIInv'
  <2>1. PICK row : row = [NoShare EXCEPT !.state = "deleted"]
    OBVIOUS
  <2>2. row \in Share /\ row.state = "deleted" /\ CacheFits(row)
    BY <1>01, <2>1 DEF Share, NoShare, CacheFits
  <2>3. holder' = [holder EXCEPT ![i] = holder[i]] /\ holder[i] \in Held /\ holder[i] = Unlocked
    BY <1>0, <1>10 DEF Delete, Free
  <2> QED BY <1>0, <1>10, <2>1, <2>2, <2>3, HolderMoves DEF Delete
<1>11. ASSUME NEW i \in ShareId, Lock(i) PROVE SharedIInv'
  <2>1. PICK h : h = [holder[i] EXCEPT !.stage = "locked"]
    OBVIOUS
  <2>2. h \in Held /\ holder' = [holder EXCEPT ![i] = h]
    BY <1>0, <1>11, <2>1 DEF Lock, Held
  <2>3. share' = [share EXCEPT ![i] = share[i]] /\ share[i] \in Share /\ share[i].state = "shared"
        /\ i \in Shared
    BY <1>0, <1>11 DEF Lock, Shared
  <2> QED BY <1>0, <1>03, <1>11, <2>2, <2>3, HolderMoves DEF Lock
<1>12. ASSUME NEW i \in ShareId, Exchange(i) PROVE SharedIInv'
  <2>0. PICK t : t = share[i].token
    OBVIOUS
  <2>1. share' = [share EXCEPT ![i] = share[i]] /\ share[i] \in Share /\ t \in LoginToken \cup {NoLogin}
    BY <1>0, <1>12, <2>0 DEF Exchange, Share
  <2>2. i \in Shared /\ share[i].state = "shared"
    BY <1>12 DEF SharedIInv, Exchange, Free, Unlocked, Shared
  <2>3. ASSUME NEW h \in Held, holder' = [holder EXCEPT ![i] = h],
               turns' \in [Login -> 0 .. MaxTurns], \A g \in Login : turns'[g] >= turns[g]
        PROVE  SharedIInv'
    BY <1>03, <1>12, <2>1, <2>2, <2>3, HolderMoves DEF Exchange
  <2>4. CASE Accepted(t)
    <3>1. t \in LoginToken /\ t.grant \in Login /\ turns[t.grant] < MaxTurns
      BY <1>12, <2>0, <2>1, <2>4 DEF Accepted, Exchange, LoginToken
    <3>2. turns' = [turns EXCEPT ![t.grant] = @ + 1]
      BY <1>12, <2>0, <2>4 DEF Exchange
    <3>3. turns' \in [Login -> 0 .. MaxTurns] /\ \A g \in Login : turns'[g] >= turns[g]
      BY <1>0, <3>1, <3>2
    <3>4. PICK h : h = [stage |-> "response", next |-> [t EXCEPT !.rotation = turns[t.grant] + 1]]
      OBVIOUS
    <3>5. turns[t.grant] + 1 \in 1 .. MaxTurns
      BY <1>0, <3>1
    <3>6. h \in Held
      BY <3>1, <3>4, <3>5 DEF Held, LoginToken
    <3>7. holder' = [holder EXCEPT ![i] = h]
      BY <1>12, <2>0, <2>4, <3>4 DEF Exchange
    <3> QED BY <2>3, <3>3, <3>6, <3>7
  <2>5. CASE ~Accepted(t)
    <3>1. PICK h : h = [holder[i] EXCEPT !.stage = "rejected"]
      OBVIOUS
    <3>2. h \in Held /\ holder' = [holder EXCEPT ![i] = h] /\ turns' = turns
      BY <1>0, <1>12, <2>0, <2>5, <3>1 DEF Exchange, Held
    <3> QED BY <1>0, <2>3, <3>2
  <2> QED BY <2>4, <2>5
<1>13. ASSUME NEW i \in ShareId, Commit(i) PROVE SharedIInv'
  <2>0. PICK next : next = holder[i].next
    OBVIOUS
  <2>1. next \in LoginToken \cup {NoLogin}
    BY <1>0, <2>0 DEF Held
  <2>2. PICK row : row = [share[i] EXCEPT !.token = next, !.cache = next.grant]
    OBVIOUS
  <2>3. next.grant \in 0 .. MaxLogins
    BY <2>1 DEF LoginToken, NoLogin, Login
  <2>4. row \in Share /\ row.state = share[i].state /\ row.scope = share[i].scope /\ CacheFits(row)
    BY <1>0, <2>1, <2>2, <2>3 DEF Share, CacheFits
  <2>5. share' = [share EXCEPT ![i] = row]
    BY <1>0, <1>13, <2>0, <2>2 DEF Commit
  <2> QED BY <1>0, <1>13, <2>4, <2>5, NothingIsTyped, HolderMoves DEF Commit, Shared
<1>14. ASSUME NEW i \in ShareId, Rejected(i) PROVE SharedIInv'
  <2>1. PICK row : row = [share[i] EXCEPT !.cache = 0]
    OBVIOUS
  <2>2. row \in Share /\ row.state = share[i].state /\ row.scope = share[i].scope /\ CacheFits(row)
    BY <1>0, <2>1 DEF Share, CacheFits
  <2>3. share' = [share EXCEPT ![i] = row]
    BY <1>0, <1>14, <2>1 DEF Rejected
  <2> QED BY <1>0, <1>14, <2>2, <2>3, NothingIsTyped, HolderMoves DEF Rejected, Shared
<1>15. ASSUME NEW i \in ShareId, RefreshFails(i) PROVE SharedIInv'
  <2>1. share' = [share EXCEPT ![i] = share[i]] /\ share[i] \in Share
    BY <1>0, <1>15 DEF RefreshFails
  <2> QED BY <1>0, <1>03, <1>15, <2>1, NothingIsTyped, HolderMoves DEF RefreshFails, Shared
<1>16. ASSUME NEW i \in ShareId, CacheLapses(i) PROVE SharedIInv'
  <2>1. PICK row : row = [share[i] EXCEPT !.cache = 0]
    OBVIOUS
  <2>2. row \in Share /\ row.state = share[i].state /\ row.scope = share[i].scope /\ CacheFits(row)
    BY <1>0, <2>1 DEF Share, CacheFits
  <2>3. share' = [share EXCEPT ![i] = row] /\ holder' = [holder EXCEPT ![i] = holder[i]]
        /\ holder[i] \in Held /\ holder[i] = Unlocked
    BY <1>0, <1>16, <2>1 DEF CacheLapses, Free
  <2>4. UNCHANGED <<withdrawn, request, turns>>
    BY <1>16 DEF CacheLapses
  <2>5. row.state = "shared" => i \in Shared
    BY <2>2 DEF Shared
  <2> QED BY <1>0, <2>2, <2>3, <2>4, <2>5, HolderMoves
<1>17. ASSUME NEW g \in Login, LoginRevoked(g) PROVE SharedIInv'
  BY <1>0, <1>17 DEF LoginRevoked, SharedIInv, SharedTypeOK, Shared, Free, HasLogin, CacheFits
<1>18. CASE UNCHANGED sharedVars
  BY <1>18 DEF sharedVars, SharedIInv, SharedTypeOK, Shared, Free, HasLogin, CacheFits
<1> QED BY <1>2, <1>3, <1>4, <1>5, <1>6, <1>7, <1>8, <1>9, <1>10, <1>11, <1>12, <1>13, <1>14,
           <1>15, <1>16, <1>17, <1>18 DEF SharedNext

-----------------------------------------------------------------------------
\* Where each login is.

LEMMA KeptStarts == SharedInit => KeptIInv
BY DEF SharedInit, KeptIInv, Shared, NoShare, HasLogin, NoRequest

\* Rows keep the login they have, or go.
LEMMA RowsKeep ==
    ASSUME KeptIInv, UNCHANGED <<turns, request>>, Shared' \subseteq Shared,
           \A i \in Shared' : share'[i].token.grant = share[i].token.grant /\ Newest(i)'
    PROVE  KeptIInv'
<1>1. \A a \in Admin : HasLogin(a)' <=> HasLogin(a)
  BY DEF HasLogin
<1>2. \A i, j \in Shared' : share'[i].token.grant = share'[j].token.grant => i = j
  BY DEF KeptIInv
<1>3. \A a \in Admin : HasLogin(a)' =>
          /\ turns'[request'[a].grant] = 1
          /\ \A i \in Shared' : share'[i].token.grant # request'[a].grant
          /\ \A b \in Admin : HasLogin(b)' /\ request'[b].grant = request'[a].grant => b = a
  BY <1>1 DEF KeptIInv
<1> QED BY <1>2, <1>3 DEF KeptIInv

LEMMA NewestStays ==
    ASSUME turns' = turns, NEW i, Newest(i), share'[i].token = share[i].token,
           holder'[i] = holder[i] \/ {holder[i].stage, holder'[i].stage} \subseteq {"none", "locked", "rejected"}
    PROVE  Newest(i)'
BY DEF Newest

\* A request that stores nothing has the login it had, or none.
LEMMA RequestsKeep ==
    ASSUME KeptIInv, UNCHANGED <<share, holder, turns>>, SharedTypeOK,
           NEW a \in Admin, NEW r, request' = [request EXCEPT ![a] = r],
           r.stage # "retargeting",
           r.stage \in {"approved", "storing"} => HasLogin(a) /\ r.grant = request[a].grant
    PROVE  KeptIInv'
<1>1. \A b \in Admin : request'[b] = IF b = a THEN r ELSE request[b]
  BY DEF SharedTypeOK
<1>2. \A b \in Admin : HasLogin(b)' => HasLogin(b) /\ request'[b].grant = request[b].grant
  BY <1>1 DEF HasLogin
<1>3. Shared' = Shared
  BY DEF Shared
<1>4. \A i \in Shared' : Newest(i)'
  BY <1>3, NewestStays DEF KeptIInv
<1>5. \A b \in Admin : request'[b].stage # "retargeting"
  BY <1>1 DEF KeptIInv
<1>6. \A b \in Admin : HasLogin(b)' =>
          /\ turns'[request'[b].grant] = 1
          /\ \A i \in Shared' : share'[i].token.grant # request'[b].grant
          /\ \A c \in Admin : HasLogin(c)' /\ request'[c].grant = request'[b].grant => c = b
  BY <1>2, <1>3 DEF KeptIInv
<1> QED BY <1>3, <1>4, <1>5, <1>6 DEF KeptIInv

LEMMA NothingIsIdle == NoRequest.stage = "idle" /\ Unlocked.stage = "none"
BY DEF NoRequest, Unlocked

LEMMA KeptSteps ==
    ASSUME SharedIInv, ~Retargets, ~MayDie, KeptIInv, [SharedNext]_sharedVars
    PROVE  KeptIInv'
<1> USE SharedAssumption
<1>0. SharedTypeOK /\ share \in [ShareId -> Share] /\ holder \in [ShareId -> Held]
      /\ request \in [Admin -> Asked] /\ turns \in [Login -> 0 .. MaxTurns]
      /\ Shared \subseteq ShareId
  BY TypesOfShared DEF SharedIInv, Shared
<1>1. ASSUME NEW a \in Admin, NEW r, UNCHANGED <<share, holder, turns>>,
             request' = [request EXCEPT ![a] = r], r.stage # "retargeting",
             r.stage \in {"approved", "storing"} => HasLogin(a) /\ r.grant = request[a].grant
      PROVE  KeptIInv'
  BY <1>0, <1>1, RequestsKeep
<1>2. ASSUME NEW a \in Admin, LoginEnds(a) PROVE KeptIInv'
  BY <1>1, <1>2 DEF LoginEnds, NoRequest
<1>3. ASSUME NEW a \in Admin, NEW scope \in Scope, StartLogin(a, scope) PROVE KeptIInv'
  <2>1. PICK r : r = [NoRequest EXCEPT !.stage = "login", !.scope = scope]
    OBVIOUS
  <2>2. r.stage = "login"
    BY <2>1 DEF NoRequest
  <2> QED BY <1>1, <1>3, <2>1, <2>2 DEF StartLogin
<1>4. ASSUME NEW a \in Admin, NEW i \in ShareId, StartReconnect(a, i) PROVE KeptIInv'
  <2>1. PICK r : r = [NoRequest EXCEPT !.stage = "login", !.scope = share[i].scope, !.edit = i]
    OBVIOUS
  <2>2. r.stage = "login"
    BY <2>1 DEF NoRequest
  <2> QED BY <1>1, <1>4, <2>1, <2>2 DEF StartReconnect
<1>5. ASSUME NEW a \in Admin, NEW g \in Login, Approved(a, g) PROVE KeptIInv'
  <2>1. /\ turns[g] = 0 /\ \A h \in Login : turns'[h] = IF h = g THEN 1 ELSE turns[h]
        /\ share' = share /\ holder' = holder
    BY <1>0, <1>5 DEF Approved
  <2>2. /\ \A b \in Admin : HasLogin(b)' => b = a \/ (HasLogin(b) /\ request'[b].grant = request[b].grant)
        /\ \A b \in Admin : b # a => request'[b] = request[b]
        /\ request'[a].stage = "approved" /\ request'[a].grant = g
    <3>1. request' = [request EXCEPT ![a] = [request[a] EXCEPT !.stage = "approved", !.grant = g]]
      BY <1>0, <1>5 DEF Approved
    <3>2. PICK r : r = [request[a] EXCEPT !.stage = "approved", !.grant = g]
      OBVIOUS
    <3>3. r.stage = "approved" /\ r.grant = g
      BY <1>0, <3>2 DEF Asked
    <3>4. \A b \in Admin : request'[b] = IF b = a THEN r ELSE request[b]
      BY <1>0, <3>1, <3>2
    <3> QED BY <3>3, <3>4 DEF HasLogin
  <2>3. \A i \in Shared : share[i].token.grant \in Login /\ share[i].token.grant # g
    <3>1. ASSUME NEW i \in Shared PROVE share[i].token.grant \in Login /\ turns[share[i].token.grant] > 0
      <4>1. Newest(i) /\ share[i].token \in LoginToken
        BY <3>1 DEF KeptIInv, Newest
      <4>2. CASE holder[i].stage = "response"
        <5>1. holder[i].next \in LoginToken \cup {NoLogin} /\ share[i].token.grant \in Login
          BY <1>0, <4>1 DEF Held, LoginToken
        <5>2. holder[i].next = [grant |-> share[i].token.grant, rotation |-> turns[share[i].token.grant]]
          BY <4>1, <4>2 DEF Newest
        <5>3. holder[i].next.grant = share[i].token.grant
              /\ holder[i].next.rotation = turns[share[i].token.grant]
          BY <5>2
        <5>4. holder[i].next # NoLogin
          BY <5>1, <5>3 DEF NoLogin, Login
        <5> QED BY <5>1, <5>3, <5>4 DEF LoginToken
      <4>3. CASE holder[i].stage # "response"
        BY <4>1, <4>3 DEF Newest, LoginToken
      <4> QED BY <4>2, <4>3
    <3> QED BY <2>1, <3>1
  <2>4. Shared' = Shared /\ \A i \in Shared' : Newest(i)'
    <3>1. Shared' = Shared
      BY <2>1 DEF Shared
    <3>2. \A i \in Shared : turns'[share[i].token.grant] = turns[share[i].token.grant]
      BY <2>1, <2>3
    <3> QED BY <2>1, <3>1, <3>2 DEF KeptIInv, Newest
  <2>5. \A b \in Admin : HasLogin(b) => request[b].grant \in Login /\ request[b].grant # g
    BY <2>1 DEF SharedIInv, KeptIInv
  <2>6. ~HasLogin(a) /\ HasLogin(a)'
    BY <1>5, <2>2 DEF HasLogin, Approved
  <2>7. \A b \in Admin : request'[b].stage # "retargeting"
    BY <2>2 DEF KeptIInv
  <2>8. ASSUME NEW b \in Admin, HasLogin(b)'
        PROVE  /\ turns'[request'[b].grant] = 1
               /\ \A i \in Shared' : share'[i].token.grant # request'[b].grant
               /\ \A c \in Admin : HasLogin(c)' /\ request'[c].grant = request'[b].grant => c = b
    <3>1. CASE b = a
      BY <2>1, <2>2, <2>3, <2>4, <2>5, <3>1
    <3>2. CASE b # a
      BY <2>1, <2>2, <2>4, <2>5, <2>8, <3>2 DEF KeptIInv
    <3> QED BY <3>1, <3>2
  <2>9. \A i, j \in Shared' : share'[i].token.grant = share'[j].token.grant => i = j
    BY <2>1, <2>4 DEF KeptIInv
  <2> QED BY <2>4, <2>7, <2>8, <2>9 DEF KeptIInv
<1>6. ASSUME NEW a \in Admin, LoadForStore(a) PROVE KeptIInv'
  <2>1. PICK e, l : request' = [request EXCEPT ![a].stage = "storing", ![a].edit = e, ![a].loaded = l]
    BY <1>6 DEF LoadForStore
  <2>2. PICK r : r = [request[a] EXCEPT !.stage = "storing", !.edit = e, !.loaded = l]
    OBVIOUS
  <2>3. request' = [request EXCEPT ![a] = r] /\ r.stage = "storing" /\ r.grant = request[a].grant
    BY <1>0, <2>1, <2>2 DEF Asked
  <2>4. HasLogin(a)
    BY <1>6 DEF LoadForStore, HasLogin
  <2> QED BY <1>1, <1>6, <2>3, <2>4 DEF LoadForStore
<1>7. ASSUME NEW a \in Admin, StoreLogin(a) PROVE KeptIInv'
  <2>0. PICK g, token : g = request[a].grant /\ token = [grant |-> g, rotation |-> 1]
    OBVIOUS
  <2>1. token \in LoginToken /\ g \in Login /\ HasLogin(a)
    BY <1>7, <2>0 DEF StoreLogin, SharedIInv, HasLogin, LoginToken
  <2>2. turns[g] = 1 /\ \A i \in Shared : share[i].token.grant # g
    BY <2>0, <2>1 DEF KeptIInv
  <2>3. request' = [request EXCEPT ![a] = NoRequest] /\ Upsert(a, token) /\ UNCHANGED <<turns, holder>>
    BY <1>7, <2>0 DEF StoreLogin
  <2>4. CASE share' = share
    BY <1>1, <2>3, <2>4, NothingIsIdle
  <2>5. CASE share' # share
    <3>1. PICK i \in ShareId, row \in Share :
              /\ share' = [share EXCEPT ![i] = row] /\ Free(i)
              /\ row.state = "shared" /\ row.token = token
      BY <2>1, <2>3, <2>5, UpsertWrites
    <3>2. \A j \in ShareId : share'[j] = IF j = i THEN row ELSE share[j]
      BY <1>0, <3>1
    <3>3. Shared' = Shared \cup {i}
      BY <3>1, <3>2 DEF Shared
    <3>4. Newest(i)'
      BY <2>0, <2>1, <2>2, <2>3, <3>1, <3>2 DEF Newest, Free, Unlocked
    <3>5. \A j \in Shared' : j # i => Newest(j)'
      BY <1>0, <2>3, <3>2, <3>3, NewestStays DEF KeptIInv
    <3>6. \A j, k \in Shared' : share'[j].token.grant = share'[k].token.grant => j = k
      BY <1>0, <2>0, <2>2, <3>1, <3>2, <3>3 DEF KeptIInv
    <3>7. \A b \in Admin : request'[b] = IF b = a THEN NoRequest ELSE request[b]
      BY <1>0, <2>3
    <3>8. \A b \in Admin : HasLogin(b)' => b # a /\ HasLogin(b) /\ request'[b].grant = request[b].grant
      BY <3>7, NothingIsIdle DEF HasLogin
    <3>9. ASSUME NEW b \in Admin, HasLogin(b)'
          PROVE  /\ turns'[request'[b].grant] = 1
                 /\ \A j \in Shared' : share'[j].token.grant # request'[b].grant
                 /\ \A c \in Admin : HasLogin(c)' /\ request'[c].grant = request'[b].grant => c = b
      <4>1. b # a /\ HasLogin(b) /\ request'[b].grant = request[b].grant /\ request[b].grant # g
        BY <2>0, <2>1, <3>8, <3>9 DEF KeptIInv
      <4>2. turns'[request'[b].grant] = 1
        BY <2>3, <4>1 DEF KeptIInv
      <4>3. \A j \in Shared' : share'[j].token.grant # request'[b].grant
        BY <1>0, <2>0, <3>1, <3>2, <3>3, <4>1 DEF KeptIInv
      <4>4. \A c \in Admin : HasLogin(c)' /\ request'[c].grant = request'[b].grant => c = b
        BY <3>8, <4>1 DEF KeptIInv
      <4> QED BY <4>2, <4>3, <4>4
    <3>10. \A b \in Admin : request'[b].stage # "retargeting"
      BY <3>7, NothingIsIdle DEF KeptIInv
    <3> QED BY <3>3, <3>4, <3>5, <3>6, <3>9, <3>10 DEF KeptIInv
  <2> QED BY <2>4, <2>5
<1>8. ASSUME NEW i \in ShareId, NEW row, NEW h,
             UNCHANGED <<turns, request>>,
             share' = [share EXCEPT ![i] = row], holder' = [holder EXCEPT ![i] = h],
             row.state = "shared" => /\ i \in Shared /\ row.token = share[i].token
                                     /\ h = holder[i] \/ {holder[i].stage, h.stage} \subseteq {"none", "locked", "rejected"}
      PROVE  KeptIInv'
  <2>1. /\ \A j \in ShareId : share'[j] = IF j = i THEN row ELSE share[j]
        /\ \A j \in ShareId : holder'[j] = IF j = i THEN h ELSE holder[j]
    BY <1>0, <1>8
  <2>2. Shared' \subseteq Shared
    BY <1>8, <2>1 DEF Shared
  <2>3. ASSUME NEW j \in Shared'
        PROVE  share'[j].token.grant = share[j].token.grant /\ Newest(j)'
    <3>1. j \in ShareId /\ share'[j].state = "shared" /\ j \in Shared /\ Newest(j)
      BY <2>2, <2>3 DEF Shared, KeptIInv
    <3>2. share'[j].token = share[j].token
      BY <1>8, <2>1, <3>1
    <3>3. holder'[j] = holder[j] \/ {holder[j].stage, holder'[j].stage} \subseteq {"none", "locked", "rejected"}
      BY <1>8, <2>1, <3>1
    <3> QED BY <1>8, <3>1, <3>2, <3>3, NewestStays
  <2> QED BY <1>8, <2>2, <2>3, RowsKeep
<1>9. ASSUME NEW i \in ShareId, Delete(i) PROVE KeptIInv'
  <2>1. PICK row : row = [NoShare EXCEPT !.state = "deleted"]
    OBVIOUS
  <2>2. row.state = "deleted" /\ holder' = [holder EXCEPT ![i] = holder[i]]
    BY <1>0, <1>9, <2>1 DEF Delete, NoShare
  <2> QED BY <1>8, <1>9, <2>1, <2>2 DEF Delete
<1>10. ASSUME NEW i \in ShareId, Lock(i) PROVE KeptIInv'
  <2>1. PICK h : h = [holder[i] EXCEPT !.stage = "locked"]
    OBVIOUS
  <2>2. h.stage = "locked" /\ holder' = [holder EXCEPT ![i] = h] /\ holder[i].stage = "none"
    BY <1>0, <1>10, <2>1 DEF Lock, Held, Free, Unlocked
  <2>3. share' = [share EXCEPT ![i] = share[i]] /\ i \in Shared
    BY <1>0, <1>10 DEF Lock, Shared
  <2>4. {holder[i].stage, h.stage} \subseteq {"none", "locked", "rejected"}
    BY <2>2
  <2>5. UNCHANGED <<turns, request>>
    BY <1>10 DEF Lock
  <2> QED BY <1>8, <2>2, <2>3, <2>4, <2>5
<1>11. ASSUME NEW i \in ShareId, Exchange(i) PROVE KeptIInv'
  <2>0. PICK t, g : t = share[i].token /\ g = t.grant
    OBVIOUS
  <2>1. share' = share /\ request' = request /\ holder[i].stage = "locked"
    BY <1>11 DEF Exchange
  <2>2. i \in Shared
    BY <2>1 DEF SharedIInv, Free, Unlocked
  <2>3. CASE Accepted(t)
    <3>1. t \in LoginToken /\ g \in Login /\ t.rotation = turns[g]
      BY <2>0, <2>2, <2>3 DEF KeptIInv, Newest, Accepted, LoginToken
    <3>2. \A h \in Login : turns'[h] = IF h = g THEN turns[g] + 1 ELSE turns[h]
      BY <1>0, <1>11, <2>0, <2>3, <3>1 DEF Exchange
    <3>3. PICK h : h = [stage |-> "response", next |-> [t EXCEPT !.rotation = turns[g] + 1]]
      OBVIOUS
    <3>4. h.stage = "response" /\ h.next = [grant |-> g, rotation |-> turns[g] + 1]
      <4>1. t = [grant |-> g, rotation |-> t.rotation]
        BY <2>0, <3>1 DEF LoginToken
      <4> QED BY <3>3, <4>1
    <3>5. \A j \in ShareId : holder'[j] = IF j = i THEN h ELSE holder[j]
      BY <1>0, <1>11, <2>0, <2>3, <3>3 DEF Exchange
    <3>6. Shared' = Shared
      BY <2>1 DEF Shared
    <3>7. Newest(i)'
      BY <2>0, <2>1, <3>1, <3>2, <3>4, <3>5 DEF Newest
    <3>8. ASSUME NEW j \in Shared', j # i PROVE Newest(j)'
      <4>1. j \in Shared /\ share[j].token \in LoginToken /\ share[j].token.grant # g
        BY <2>0, <2>2, <3>6, <3>8 DEF KeptIInv, Newest
      <4>2. turns'[share[j].token.grant] = turns[share[j].token.grant] /\ holder'[j] = holder[j]
        BY <1>0, <3>2, <3>5, <3>8, <4>1 DEF LoginToken
      <4> QED BY <2>1, <4>1, <4>2 DEF KeptIInv, Newest
    <3>9. \A a \in Admin : HasLogin(a)' <=> HasLogin(a)
      BY <2>1 DEF HasLogin
    <3>10. \A a \in Admin : HasLogin(a) => turns'[request[a].grant] = 1
      BY <2>0, <2>2, <3>2 DEF KeptIInv, SharedIInv
    <3> QED BY <2>1, <3>6, <3>7, <3>8, <3>9, <3>10 DEF KeptIInv
  <2>4. CASE ~Accepted(t)
    <3>1. PICK h : h = [holder[i] EXCEPT !.stage = "rejected"]
      OBVIOUS
    <3>2. h.stage = "rejected" /\ holder' = [holder EXCEPT ![i] = h] /\ turns' = turns
      BY <1>0, <1>11, <2>0, <2>4, <3>1 DEF Exchange, Held
    <3>3. share' = [share EXCEPT ![i] = share[i]]
      BY <1>0, <2>1
    <3> QED BY <1>8, <2>1, <2>2, <3>2, <3>3
  <2> QED BY <2>3, <2>4
<1>12. ASSUME NEW i \in ShareId, Commit(i) PROVE KeptIInv'
  <2>1. PICK next : next = holder[i].next
    OBVIOUS
  <2>2. PICK row : row = [share[i] EXCEPT !.token = next, !.cache = next.grant]
    OBVIOUS
  <2>3. row.state = share[i].state /\ row.token = next
    BY <1>0, <2>2 DEF Share
  <2>4. /\ \A j \in ShareId : share'[j] = IF j = i THEN row ELSE share[j]
        /\ \A j \in ShareId : holder'[j] = IF j = i THEN Unlocked ELSE holder[j]
        /\ turns' = turns /\ request' = request
    BY <1>0, <1>12, <2>1, <2>2 DEF Commit
  <2>5. Shared' = Shared
    BY <2>3, <2>4 DEF Shared
  <2>6. ASSUME NEW j \in Shared'
        PROVE  share'[j].token.grant = share[j].token.grant /\ Newest(j)'
    <3>1. CASE j = i
      <4>1. Newest(i) /\ holder[i].stage = "response"
        BY <1>12, <2>5, <2>6, <3>1 DEF KeptIInv, Commit
      <4>2. next = [grant |-> share[i].token.grant, rotation |-> turns[share[i].token.grant]]
            /\ share[i].token \in LoginToken
        BY <2>1, <4>1 DEF Newest
      <4>3. next.grant = share[i].token.grant /\ next.rotation = turns[next.grant]
        BY <4>2
      <4>4. next \in LoginToken
        <5>1. next \in LoginToken \cup {NoLogin}
          BY <1>0, <2>1 DEF Held
        <5>2. next.grant # 0
          BY <4>2, <4>3 DEF LoginToken, Login
        <5> QED BY <5>1, <5>2 DEF NoLogin
      <4>5. share'[i].token = next /\ holder'[i].stage = "none"
        BY <2>3, <2>4 DEF Unlocked
      <4> QED BY <2>4, <3>1, <4>3, <4>4, <4>5 DEF Newest
    <3>2. CASE j # i
      BY <1>0, <2>4, <2>5, <2>6, <3>2, NewestStays DEF KeptIInv
    <3> QED BY <3>1, <3>2
  <2> QED BY <2>4, <2>5, <2>6, RowsKeep
<1>13. ASSUME NEW i \in ShareId, Rejected(i) \/ CacheLapses(i) PROVE KeptIInv'
  <2>1. PICK row : row = [share[i] EXCEPT !.cache = 0]
    OBVIOUS
  <2>2. row.token = share[i].token /\ row.state = share[i].state
    BY <1>0, <2>1 DEF Share
  <2>3. share' = [share EXCEPT ![i] = row] /\ UNCHANGED <<turns, request>>
    BY <1>0, <1>13, <2>1 DEF Rejected, CacheLapses
  <2>4. row.state = "shared" => i \in Shared
    BY <2>2 DEF Shared
  <2>5. CASE Rejected(i)
    <3>1. holder[i].stage = "rejected" /\ holder' = [holder EXCEPT ![i] = Unlocked]
      BY <2>5 DEF Rejected
    <3>2. Unlocked.stage = "none"
      BY DEF Unlocked
    <3> QED BY <1>8, <2>2, <2>3, <2>4, <3>1, <3>2
  <2>6. CASE CacheLapses(i)
    <3>1. holder' = [holder EXCEPT ![i] = holder[i]]
      BY <1>0, <2>6 DEF CacheLapses
    <3> QED BY <1>8, <2>2, <2>3, <2>4, <3>1
  <2> QED BY <1>13, <2>5, <2>6
<1>14. ASSUME NEW i \in ShareId, RefreshFails(i) PROVE KeptIInv'
  <2>1. share' = [share EXCEPT ![i] = share[i]] /\ holder' = [holder EXCEPT ![i] = Unlocked]
        /\ holder[i].stage = "locked" /\ Unlocked.stage = "none" /\ UNCHANGED <<turns, request>>
    BY <1>0, <1>14 DEF RefreshFails, Unlocked
  <2>2. share[i].state = "shared" => i \in Shared
    BY DEF Shared
  <2> QED BY <1>8, <2>1, <2>2
<1>15. ASSUME NEW g \in Login, LoginRevoked(g) PROVE KeptIInv'
  BY <1>15 DEF LoginRevoked, KeptIInv, Shared, Newest, HasLogin
<1>16. CASE UNCHANGED sharedVars
  BY <1>16 DEF sharedVars, KeptIInv, Shared, Newest, HasLogin
<1>17. ASSUME NEW a \in Admin, Retarget(a) PROVE FALSE
  BY <1>17 DEF Retarget, KeptIInv
<1> QED BY <1>2, <1>3, <1>4, <1>5, <1>6, <1>7, <1>9, <1>10, <1>11, <1>12, <1>13, <1>14,
           <1>15, <1>16, <1>17 DEF SharedNext, LoadForEdit

LEMMA KeptAreAccepted ==
    ASSUME KeptIInv
    PROVE  RotatedTokenIsKept
<1> SUFFICES ASSUME NEW i \in Shared, Free(i)
             PROVE  Accepted(share[i].token) \/ share[i].token.grant \in withdrawn
  BY DEF RotatedTokenIsKept
<1>1. share[i].token \in LoginToken /\ share[i].token.rotation = turns[share[i].token.grant]
  BY NothingIsIdle DEF KeptIInv, Newest, Free
<1> QED BY <1>1 DEF Accepted, NoLogin, LoginToken, Login

\* Shared logins, for any number of admins and rows: a target has one login, a cached access
\* token is of the login the row holds, and while nobody re-targets or dies in a refresh
\* the row holds the newest rotation of its token.
THEOREM SharedLoginsAreKept == SharedSpec => []SharedLoginsStayValid
<1>1. SharedInit => SharedBothIInv
  BY SharedStarts, KeptStarts DEF SharedBothIInv
<1>2. SharedBothIInv /\ [SharedNext]_sharedVars => SharedBothIInv'
  BY SharedSteps, KeptSteps DEF SharedBothIInv
<1>3. SharedBothIInv => SharedLoginsStayValid
  <2>1. SharedBothIInv => CacheIsOfTheLogin
    BY DEF SharedBothIInv, SharedIInv, CacheIsOfTheLogin, CacheFits, Shared
  <2> QED BY <2>1, KeptAreAccepted DEF SharedBothIInv, SharedIInv, SharedLoginsStayValid
<1> QED BY <1>1, <1>2, <1>3, PTL DEF SharedSpec
=============================================================================
