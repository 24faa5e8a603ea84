------------------------------ MODULE UsageTap ------------------------------
(***************************************************************************)
(* The observer that finds the token usage in one response of a model      *)
(* provider: server-sent events or a JSON body, told apart by the first    *)
(* bytes, arriving in pieces cut anywhere and possibly cut short.          *)
(*                                                                         *)
(* A response is a sequence of lines.  A line is [what, terminal, payload, *)
(* len]: a blank, an event or a data line, a comment ("other"), or a JSON  *)
(* body; whether its event name or its type field is that of a terminal    *)
(* event; the usage a data line carries; its length in units.  The payload *)
(* of half a JSON document is "half": two of them make one.                *)
(***************************************************************************)
EXTENDS Integers, Sequences, SequencesExt, FiniteSets

CONSTANTS
    Responses,  \* what a provider may send
    Cap,        \* units captured of one response at most
    Sniff,      \* units needed to tell the kind of a body
    None

VARIABLES
    response,  \* the response being sent: [lines, typed, ok]
    at,        \* the line and the offset in it up to which it was delivered
    tap,       \* the state of the observer
    reports,   \* the usage it reported
    phase      \* "head", "body", "ended"

vars == <<response, at, tap, reports, phase>>

Line(what, terminal, payload, len) ==
    [what |-> what, terminal |-> terminal, payload |-> payload, len |-> len]

\* wanted: "yes", "no" or "unknown"; outcome: why a response is not metered.
UsageTap ==
    [inert |-> FALSE, mode |-> None, held |-> <<>>, buf |-> 0, skipping |-> FALSE,
     wanted |-> "unknown", captured |-> <<>>, bytes |-> 0, json |-> 0,
     report |-> None, logged |-> FALSE]

TapInit ==
    /\ response \in Responses
    /\ at = [line |-> 1, offset |-> 0]
    /\ tap = UsageTap /\ reports = <<>> /\ phase = "head"

Unmetered(t) == [t EXCEPT !.inert = TRUE, !.logged = TRUE]

-----------------------------------------------------------------------------
(* What a usage object is worth.                                          *)

\* Cached input is billed apart; usage without its counts is the kind "none".
_counts_from_usage(usage) ==
    [input_tokens |-> IF usage.input > usage.cached THEN usage.input - usage.cached ELSE 0,
     output_tokens |-> usage.output, cache_read_tokens |-> usage.cached]

\* The payloads of a block make one document: a whole one, or two halves.
IsHalf(payload) == payload.kind = "half"
Document(captured) ==
    CASE Len(captured) = 1 /\ ~IsHalf(captured[1]) -> captured[1]
      [] Len(captured) = 2 /\ IsHalf(captured[1]) /\ IsHalf(captured[2]) -> [captured[1] EXCEPT !.kind = "usage"]
      [] OTHER -> [kind |-> "broken"]

_finish_sse_block(t) ==
    LET doc == Document(t.captured)
        done == [t EXCEPT !.captured = <<>>, !.bytes = 0]
    IN  CASE doc.kind = "broken" -> Unmetered(done)
          [] doc.kind = "none" -> done
          [] doc.kind = "usage" ->
                [done EXCEPT !.inert = TRUE, !.report = _counts_from_usage(doc)]

-----------------------------------------------------------------------------
(* One line, and the pieces of a line.                                    *)

_handle_sse_line(t, line) ==
    CASE line.what = "blank" ->
            [(IF t.captured # <<>> THEN _finish_sse_block(t) ELSE t) EXCEPT !.wanted = "unknown"]
      [] line.what = "event" -> [t EXCEPT !.wanted = IF line.terminal THEN "yes" ELSE "no"]
      [] line.what = "data" ->
            LET wanted == IF t.wanted = "unknown"
                          THEN IF line.terminal THEN "yes" ELSE "no" ELSE t.wanted
                decided == [t EXCEPT !.wanted = wanted]
            IN  IF wanted = "no" THEN decided
                ELSE IF t.bytes + line.len > Cap THEN Unmetered(decided)
                ELSE [decided EXCEPT !.bytes = @ + line.len,
                                     !.captured = Append(@, line.payload)]
      [] OTHER -> t

\* Bug: a line that is too long is given up on whatever it is.
AnyPartialLine(t, line) == TRUE

_partial_line_is_wanted(t, line) ==
    IF t.wanted # "unknown" THEN t.wanted = "yes"
    ELSE line.what = "data" /\ line.terminal

\* A piece is the rest of a line with its newline, or units in the middle of
\* one.  Of a line that is not wanted and too long, the rest is skipped.
FeedPiece(t, piece) ==
    IF t.inert THEN t
    ELSE IF ~piece.closed
    THEN IF t.skipping \/ piece.units = 0 THEN t
         ELSE IF t.buf + piece.units <= Cap THEN [t EXCEPT !.buf = @ + piece.units]
         ELSE IF _partial_line_is_wanted(t, piece.line) THEN Unmetered(t)
         ELSE [t EXCEPT !.buf = 0, !.skipping = TRUE]
    ELSE IF t.skipping THEN [t EXCEPT !.skipping = FALSE]
    ELSE _handle_sse_line([t EXCEPT !.buf = 0], piece.line)

_feed_sse(t, pieces) == FoldLeft(FeedPiece, t, pieces)

-----------------------------------------------------------------------------
(* The three calls of the relay.                                          *)

Units(pieces) == FoldLeft(LAMBDA n, p : n + p.units, 0, pieces)

on_head ==
    /\ phase = "head"
    /\ phase' = "body"
    /\ tap' = CASE response.ok = "error" -> [tap EXCEPT !.inert = TRUE]
                [] response.ok = "coded" -> Unmetered(tap)
                [] OTHER -> tap
    /\ UNCHANGED <<response, at, reports>>

Decidable(t, pieces) ==
    \/ response.typed
    \/ Units(pieces) >= Sniff
    \/ \E i \in DOMAIN pieces : pieces[i].closed

\* The kind of a body shows when its first non-blank byte is there.
ModeOf(pieces) ==
    IF ~response.typed /\ pieces # <<>> /\ pieces[1].line.what = "json" /\ pieces[1].units > 0
    THEN "json" ELSE "sse"

Deliver(t, pieces) ==
    LET all == t.held \o pieces
        known == IF t.mode # None THEN t ELSE [t EXCEPT !.mode = ModeOf(all), !.held = <<>>]
        json == t.json + Units(all)
    IN  IF t.inert THEN t
        ELSE IF t.mode = None /\ ~Decidable(t, all) THEN [t EXCEPT !.held = all]
        ELSE IF known.mode = "sse" THEN _feed_sse(known, all)
        ELSE IF json > Cap THEN Unmetered([known EXCEPT !.json = json])
        ELSE [known EXCEPT !.json = json]

\* The pieces between the position reached and the one the data ends at.
PiecesTo(to) ==
    [i \in 1..(to.line - at.line + 1) |->
        LET k == at.line + i - 1
            first == IF i = 1 THEN at.offset ELSE 0
        IN  [line |-> response.lines[k],
             units |-> (IF k = to.line THEN to.offset ELSE response.lines[k].len) - first,
             closed |-> k < to.line]]

Positions ==
    UNION {{[line |-> k, offset |-> o] : o \in 0..response.lines[k].len} :
             k \in DOMAIN response.lines}
After(p, q) == p.line > q.line \/ (p.line = q.line /\ p.offset > q.offset)

Reported(t) == IF tap.report = None /\ t.report # None THEN Append(reports, t.report) ELSE reports

on_body ==
    /\ phase = "body"
    /\ \E to \in Positions :
          /\ After(to, at)
          /\ at' = to
          /\ tap' = Deliver(tap, PiecesTo(to))
          /\ reports' = Reported(tap')
    /\ UNCHANGED <<response, phase>>

\* A line the stream ended in: an event name or a document cut short.
CutLine ==
    LET line == response.lines[at.line] IN
    CASE at.offset = line.len -> line
      [] line.what = "event" -> [line EXCEPT !.terminal = FALSE]
      [] OTHER -> [line EXCEPT !.payload = [kind |-> "broken"], !.len = at.offset]

JsonEnds(t) ==
    IF at.offset < response.lines[1].len \/ response.lines[1].payload.kind # "usage" THEN t
    ELSE [t EXCEPT !.report = _counts_from_usage(response.lines[1].payload)]

\* The end of the stream ends the line and the block it is in.
EndOf(t) ==
    IF t.inert \/ t.mode = None THEN t
    ELSE IF t.mode = "json" THEN JsonEnds(t)
    ELSE LET last == IF t.buf > 0 /\ ~t.skipping
                     THEN _handle_sse_line([t EXCEPT !.buf = 0], CutLine) ELSE t
         IN  IF ~last.inert /\ last.captured # <<>> THEN _finish_sse_block(last) ELSE last

on_end ==
    /\ phase = "body"
    /\ tap' = [EndOf(tap) EXCEPT !.inert = TRUE]
    /\ reports' = Reported(tap')
    /\ phase' = "ended"
    /\ UNCHANGED <<response, at>>

TapNext == on_head \/ on_body \/ on_end
TapSpec == TapInit /\ [][TapNext]_vars

-----------------------------------------------------------------------------
(* What a reader of the whole of what arrived would find.                 *)

\* The lines that arrived, the last one perhaps cut; nothing of a line of
\* which nothing arrived.
Arrived ==
    SubSeq(response.lines, 1, at.line - 1) \o (IF at.offset = 0 THEN <<>> ELSE <<CutLine>>)

Blocks(lines) ==
    LET ends == {0} \cup {i \in DOMAIN lines : lines[i].what = "blank"} \cup {Len(lines) + 1}
        OfEnd(e) == LET b == CHOOSE x \in ends : x < e /\ \A y \in ends : y < e => y <= x
                    IN  SubSeq(lines, b + 1, e - 1)
        sorted == SetToSortSeq(ends \ {0}, LAMBDA x, y : x < y)
    IN  [i \in DOMAIN sorted |-> OfEnd(sorted[i])]

DataOf(block) == SelectSeq(block, LAMBDA l : l.what = "data")
EventsOf(block) == SelectSeq(block, LAMBDA l : l.what = "event")
IsTerminal(block) ==
    /\ DataOf(block) # <<>>
    /\ IF EventsOf(block) # <<>> THEN Last(EventsOf(block)).terminal
       ELSE DataOf(block)[1].terminal
SizeOf(block) == FoldLeft(LAMBDA n, l : n + l.len, 0, DataOf(block))
DocumentOf(block) ==
    LET data == DataOf(block) IN Document([i \in DOMAIN data |-> data[i].payload])

\* A terminal event decides, unless it has no usage: then the next one may.
Decides(block) ==
    IsTerminal(block) /\ (SizeOf(block) > Cap \/ DocumentOf(block).kind # "none")

FoundInEvents(lines) ==
    LET deciding == SelectSeq(Blocks(lines), Decides) IN
    IF deciding = <<>> \/ SizeOf(deciding[1]) > Cap \/ DocumentOf(deciding[1]).kind = "broken"
    THEN <<>>
    ELSE <<DocumentOf(deciding[1])>>

FoundInJson(line) ==
    IF line.len > Cap \/ line.payload.kind # "usage" THEN <<>> ELSE <<line.payload>>

TooShort(lines) ==
    ~response.typed /\ Len(lines) = 1 /\ at.line = 1 /\ at.offset < Sniff

Found ==
    IF response.ok # "ok" \/ Arrived = <<>> \/ TooShort(Arrived) THEN <<>>
    ELSE IF response.lines[1].what = "json" /\ ~response.typed THEN FoundInJson(Arrived[1])
    ELSE FoundInEvents(Arrived)

-----------------------------------------------------------------------------
TapTypeOK ==
    /\ tap.mode \in {None, "sse", "json"}
    /\ tap.wanted \in {"unknown", "yes", "no"}
    /\ tap.held # <<>> => tap.mode = None

\* However the response was cut into pieces and wherever it ended, what is
\* reported is the usage of the first terminal event that arrived with one, or
\* of the JSON body, and nothing else.
ReportsWhatArrived ==
    phase = "ended" =>
        /\ Len(reports) = Len(Found)
        /\ \A i \in DOMAIN Found :
              /\ reports[i].output_tokens = Found[i].output
              /\ reports[i].input_tokens + reports[i].cache_read_tokens =
                    IF Found[i].input > Found[i].cached THEN Found[i].input ELSE Found[i].cached

\* "Memory is capped per response": a line, a block and a body are each held
\* within the cap between two calls.
MemoryIsCapped == ~tap.inert => tap.buf <= Cap /\ tap.bytes <= Cap /\ tap.json <= Cap

\* "anything past the cap is logged as unmetered": a terminal event or a body
\* that was too long does not go unmetered without a trace.
OverflowIsLogged ==
    phase = "ended" /\ response.ok = "ok" /\ reports = <<>> /\ tap.mode # None =>
        IF tap.mode = "json" THEN tap.json > Cap => tap.logged
        ELSE (\E i \in DOMAIN Blocks(Arrived) :
                 IsTerminal(Blocks(Arrived)[i]) /\ SizeOf(Blocks(Arrived)[i]) > Cap) => tap.logged
=============================================================================
