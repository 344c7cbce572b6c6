----------------------------- MODULE TextLayout -----------------------------
(* How the composer lays its draft out: wrapped at words in one pass, the    *)
(* cursor placed on the way, and the result cached (anie-tui: input.rs).     *)
(* Characters are "a" (part of a word), " " and "\n"; a cell is <<column,    *)
(* row>>.  The first row begins with the prompt "> ".                        *)
EXTENDS Naturals, Sequences, SequencesExt

CONSTANTS Widths,       \* the widths the terminal may have
          MaxDraft      \* bound: characters in the draft

VARIABLES
    draft,      \* [text, cursor], the cursor as a number of characters
    cache,      \* the cached layout, with the width, cursor and text it was made for
    drawn       \* whether the screen shows the draft as it is now

lvars == <<draft, cache, drawn>>

Prompt == 2
PromptOn(row) == IF row = 0 THEN Prompt ELSE 0
Available(row, width) ==
    LET room == IF width > PromptOn(row) THEN width - PromptOn(row) ELSE 0
    IN  IF room > 1 THEN room ELSE 1

NoAnchor == [col |-> 0, from |-> 0]

\* The pass begins on an empty first row.  `anchor` is where the word being laid
\* out began (`from` is 0 outside a word); `cells` remembers each kept character's cell.
Blank0(cursor) ==
    [lines |-> << <<>> >>, col |-> 0, anchor |-> NoAnchor,
     at |-> <<Prompt, 0>>, placed |-> cursor = 0, cells |-> <<>>]

Row(s) == Len(s.lines) - 1
NewRow(s, text) == [s EXCEPT !.lines = Append(@, text), !.col = Len(text)]
Push(s, c) ==
    [s EXCEPT !.lines[Len(s.lines)] = Append(@, c), !.col = @ + 1,
              !.cells = Append(@, <<PromptOn(Row(s)) + s.col, Row(s)>>)]
Drop(s) == [s EXCEPT !.cells = Append(@, <<>>)]
Cut(s) == [s EXCEPT !.anchor = NoAnchor]

\* The cell of the character the pass has reached, if the cursor stands on it.
PlaceCursor(s, i, cursor) ==
    IF ~s.placed /\ i - 1 = cursor
    THEN [s EXCEPT !.at = <<PromptOn(Row(s)) + s.col, Row(s)>>, !.placed = TRUE]
    ELSE s

\* The word begun at `anchor` moves to a row of its own, and the cursor with it.
MoveWord(s, i, cursor) ==
    LET from  == s.anchor.from
        moved == i - from
        line  == s.lines[Len(s.lines)]
        kept  == [s EXCEPT !.lines[Len(s.lines)] = SubSeq(@, 1, Len(line) - moved)]
        next  == NewRow(kept, SubSeq(line, Len(line) - moved + 1, Len(line)))
        inside == s.placed /\ cursor > from - 1 /\ cursor <= i - 1
    IN  [next EXCEPT
            !.anchor = [col |-> 0, from |-> i],
            !.at     = IF inside THEN <<PromptOn(Row(next)) + cursor - (from - 1), Row(next)>>
                       ELSE @,
            !.cells  = [k \in DOMAIN @ |->
                           IF k >= from THEN <<PromptOn(Row(next)) + k - from, Row(next)>> ELSE @[k]]]

\* Character i of the text (counted from 1).
Step(s, i, c, cursor, width) ==
    LET here == PlaceCursor(s, i, cursor)
        full == here.col >= Available(Row(here), width)
    IN  CASE c = "\n" -> Drop(Cut(NewRow(here, <<>>)))
          [] c = " " /\ full  -> Drop(Cut(NewRow(here, <<>>)))
          [] c = " " /\ ~full -> Push(Cut(here), c)
          [] c = "a" /\ full /\ here.anchor.from > 0 /\ here.anchor.col > 0 ->
                 Push(MoveWord(here, i, cursor), c)
          [] c = "a" /\ full /\ ~(here.anchor.from > 0 /\ here.anchor.col > 0) ->
                 Push([NewRow(here, <<>>) EXCEPT !.anchor = [col |-> 0, from |-> i]], c)
          [] c = "a" /\ ~full ->
                 Push(IF here.anchor.from = 0
                      THEN [here EXCEPT !.anchor = [col |-> here.col, from |-> i]] ELSE here, c)

LayoutLines(text, cursor, width) ==
    LET end == FoldLeft(LAMBDA s, i : Step(s, i, text[i], cursor, width),
                        Blank0(cursor), [i \in 1 .. Len(text) |-> i])
    IN  IF cursor = Len(text)
        THEN [end EXCEPT !.at = <<PromptOn(Row(end)) + end.col, Row(end)>>] ELSE end

\* The cache answers while width, cursor and text are those it was made for.
Stale(width) ==
    \/ cache.width # width
    \/ cache.cursor # draft.cursor
    \/ cache.text # draft.text
Cached(width) ==
    [width |-> width, cursor |-> draft.cursor, text |-> draft.text,
     layout |-> LayoutLines(draft.text, draft.cursor, width)]

LayoutInit ==
    /\ draft = [text |-> <<>>, cursor |-> 0]
    /\ cache = [width |-> 0, cursor |-> 0, text |-> <<>>, layout |-> Blank0(0)]
    /\ drawn = FALSE

TypeChar ==
    \E c \in {"a", " ", "\n"} :
        /\ Len(draft.text) < MaxDraft
        /\ draft' = [text |-> SubSeq(draft.text, 1, draft.cursor) \o <<c>>
                              \o SubSeq(draft.text, draft.cursor + 1, Len(draft.text)),
                     cursor |-> draft.cursor + 1]
        /\ drawn' = FALSE /\ UNCHANGED cache

MoveCursor ==
    \E k \in 0 .. Len(draft.text) :
        draft' = [draft EXCEPT !.cursor = k] /\ drawn' = FALSE /\ UNCHANGED cache

Draw ==
    \E width \in Widths :
        /\ cache' = IF Stale(width) THEN Cached(width) ELSE cache
        /\ drawn' = TRUE
        /\ UNCHANGED draft

LayoutNext == TypeChar \/ MoveCursor \/ Draw
LayoutSpec == LayoutInit /\ [][LayoutNext]_lvars

-----------------------------------------------------------------------------
Laid == cache.layout
Words(s) == SelectSeq(s, LAMBDA c : c = "a")

(* What is drawn is the draft as it is: the cache never answers for another  *)
(* text, cursor or width, and the rows hold every character of every word,   *)
(* in order, none wider than the terminal.                                   *)
DraftShown ==
    drawn =>
        /\ Laid = LayoutLines(draft.text, draft.cursor, cache.width)
        /\ Words(FlattenSeq(Laid.lines)) = Words(draft.text)
        /\ \A r \in DOMAIN Laid.lines :
               Len(Laid.lines[r]) <= Available(r - 1, cache.width)

(* A cursor inside a word stays on its character when the word is moved to   *)
(* the next row after the cursor had been placed.                            *)
CursorFollowsWord ==
    \A k \in 1 .. Len(draft.text) - 1 :
        (drawn /\ draft.cursor = k /\ draft.text[k] = "a" /\ draft.text[k + 1] = "a"
               /\ Laid.cells[k][2] = Laid.cells[k + 1][2])
            => Laid.at = Laid.cells[k + 1]

(* The draft is drawn as it is, with the cursor where it is.                 *)
LayoutSound == DraftShown /\ CursorFollowsWord
=============================================================================
