------------------------------- MODULE Editor -------------------------------
(* The composer of the terminal interface: a text buffer with a byte cursor, *)
(* the history of what was sent, and the popup that completes slash commands *)
(* (anie-tui: input.rs, autocomplete/).  A text is a sequence of characters; *)
(* the cursor, as in the code, is a byte offset into its UTF-8 form.         *)
EXTENDS SelectList, Sequences, FiniteSets, SequencesExt

CONSTANTS
    Chars,          \* the characters that can be typed
    Commands,       \* the catalogue: a sequence of [name, values] records
    PopupRows,      \* DEFAULT_MAX_VISIBLE
    MaxText,        \* bound: characters in a draft and drafts in the history
    Finished,       \* bound: the drafts that are sent or cleared, the popup closed
    MaxHistory      \* bound: drafts sent or cleared

VARIABLE pane       \* [content, cursor, history, at, saved, popup]

NoPopup == [kind |-> "none", prefix |-> <<>>, items |-> <<>>, list |-> NewList(0, 1)]

\* The length in UTF-8, where "é" takes two bytes.
Size(s) == Len(s) + Cardinality({i \in DOMAIN s : s[i] = "é"})
Blank(c) == c \in {" ", "\n"}
Lower(c) == IF c = "T" THEN "t" ELSE c
StartsWith(s, p) ==
    Len(p) <= Len(s) /\ \A i \in 1 .. Len(p) : Lower(s[i]) = Lower(p[i])

\* The offsets at which a string may be cut, and the number of characters before one.
Boundaries(s) == {Size(SubSeq(s, 1, n)) : n \in 0 .. Len(s)}
Index(s, offset) == CHOOSE n \in 0 .. Len(s) : Size(SubSeq(s, 1, n)) = offset
Offset(s, n) == Size(SubSeq(s, 1, n))
Before(p) == SubSeq(p.content, 1, Index(p.content, p.cursor))
Behind(p) == SubSeq(p.content, Index(p.content, p.cursor) + 1, Len(p.content))

PreviousBoundary(p) ==
    IF p.cursor = 0 THEN 0 ELSE Offset(p.content, Index(p.content, p.cursor) - 1)
NextBoundary(p) ==
    IF p.cursor >= Size(p.content) THEN p.cursor
    ELSE Offset(p.content, Index(p.content, p.cursor) + 1)

\* Remove the bytes from one boundary to another.
Drain(p, from, to) ==
    [p EXCEPT !.content = SubSeq(@, 1, Index(@, from)) \o SubSeq(@, Index(@, to) + 1, Len(@))]

InsertChar(p, c) ==
    [p EXCEPT !.content = Before(p) \o <<c>> \o Behind(p), !.cursor = @ + Size(<<c>>), !.at = 0]

EraseBack(p, from) == [Drain(p, from, p.cursor) EXCEPT !.cursor = from]
Backspace(p) == EraseBack(p, PreviousBoundary(p))
Delete(p) == Drain(p, p.cursor, NextBoundary(p))

\* The character positions of a word step: past the blanks, then past the word.
WordLeft(p) ==
    LET words == {i \in 1 .. Len(Before(p)) : ~Blank(p.content[i])}
        last  == CHOOSE i \in words : \A j \in words : j <= i
        stops == {0} \cup {i \in 1 .. last : Blank(p.content[i])}
    IN  IF words = {} THEN 0
        ELSE Offset(p.content, CHOOSE i \in stops : \A j \in stops : j <= i)

WordRight(p) ==
    LET n     == Len(p.content)
        words == {i \in Len(Before(p)) + 1 .. n : ~Blank(p.content[i])}
        first == CHOOSE i \in words : \A j \in words : i <= j
        stops == {n + 1} \cup {i \in first .. n : Blank(p.content[i])}
    IN  IF words = {} THEN Size(p.content)
        ELSE Offset(p.content, (CHOOSE i \in stops : \A j \in stops : i <= j) - 1)

LineStart(p) ==
    LET breaks == {0} \cup {i \in 1 .. Len(Before(p)) : p.content[i] = "\n"}
    IN  Offset(p.content, CHOOSE i \in breaks : \A j \in breaks : j <= i)
LineEnd(p) ==
    LET n      == Len(p.content)
        breaks == {n + 1} \cup {i \in Len(Before(p)) + 1 .. n : p.content[i] = "\n"}
    IN  Offset(p.content, (CHOOSE i \in breaks : \A j \in breaks : i <= j) - 1)

\* Variant of HistoryPrevious with a bug: a draft saved by an earlier visit is kept.
BugHistoryPrevious(p) ==
    IF p.history = <<>> THEN p
    ELSE LET at   == IF p.at = 0 THEN Len(p.history) ELSE IF p.at = 1 THEN 1 ELSE p.at - 1
         IN  [p EXCEPT !.saved   = IF @ = <<>> THEN p.content ELSE @,
                       !.at      = at,
                       !.content = p.history[at],
                       !.cursor  = Size(p.history[at])]

\* The history: `at` is 0 while a draft is edited, else the entry shown.
HistoryPrevious(p) ==
    IF p.history = <<>> THEN p
    ELSE LET at   == IF p.at = 0 THEN Len(p.history) ELSE IF p.at = 1 THEN 1 ELSE p.at - 1
         IN  [p EXCEPT !.saved   = IF p.at = 0 THEN p.content ELSE @,
                       !.at      = at,
                       !.content = p.history[at],
                       !.cursor  = Size(p.history[at])]
HistoryNext(p) ==
    IF p.at = 0 THEN p
    ELSE IF p.at >= Len(p.history)
         THEN [p EXCEPT !.at = 0, !.content = p.saved, !.cursor = Size(p.saved), !.saved = <<>>]
         ELSE [p EXCEPT !.at = @ + 1, !.content = p.history[p.at + 1],
                        !.cursor = Size(p.history[p.at + 1])]

Emptied(p) == [p EXCEPT !.content = <<>>, !.cursor = 0, !.at = 0, !.saved = <<>>]

TrimEnd(s) ==
    LET kept == {0} \cup {i \in 1 .. Len(s) : ~Blank(s[i])}
    IN  SubSeq(s, 1, CHOOSE i \in kept : \A j \in kept : j <= i)

Submit(p) ==
    IF TrimEnd(p.content) = <<>> THEN p
    ELSE [Emptied(p) EXCEPT !.history = Append(@, TrimEnd(p.content))]

-----------------------------------------------------------------------------
(* Completion: what the text before the cursor asks for, and the popup.      *)

CommandNamed(name) == {i \in DOMAIN Commands : Commands[i].name = name}

\* The text after the first blank, without the blanks before it.
Argument(rest) == SubSeq(rest, SelectInSeq(rest \o <<"/">>, LAMBDA c : ~Blank(c)), Len(rest))

ContextOf(before) ==
    LET Parted(space) ==
            IF space = 0 THEN [kind |-> "command", prefix |-> before]
            ELSE IF CommandNamed(SubSeq(before, 2, space - 1)) = {} THEN [kind |-> "none"]
            ELSE [kind |-> "argument", name |-> SubSeq(before, 2, space - 1),
                  prefix |-> Argument(SubSeq(before, space, Len(before)))]
    IN  IF before = <<>> \/ Head(before) # "/" THEN [kind |-> "none"]
        ELSE Parted(SelectInSeq(before, Blank))
ParseContext(p) == ContextOf(Before(p))

\* The completions of a context, in catalogue order, as (case-insensitive) prefix matches.
Suggestions(context) ==
    CASE context.kind = "command" ->
             SelectSeq([i \in DOMAIN Commands |-> Commands[i].name],
                       LAMBDA v : StartsWith(v, Tail(context.prefix)))
      [] context.kind = "argument" ->
             SelectSeq(Commands[CHOOSE i \in CommandNamed(context.name) :
                                   \A j \in CommandNamed(context.name) : i <= j].values,
                       LAMBDA v : StartsWith(v, context.prefix))
      [] OTHER -> <<>>

WithoutSlash(s) == IF s # <<>> /\ Head(s) = "/" THEN Tail(s) ELSE s

\* A popup opens on the first item the prefix starts; no item, no popup.
PopupFor(p) ==
    LET Fitting(items, seed) ==
            IF seed = <<>> THEN {} ELSE {r \in 0 .. Len(items) - 1 : StartsWith(items[r + 1], seed)}
        Showing(context, items) ==
            IF items = <<>> THEN NoPopup
            ELSE [kind |-> context.kind, prefix |-> context.prefix, items |-> items,
                  list |-> SelectFirst(NewList(Len(items), PopupRows),
                                       Fitting(items, WithoutSlash(context.prefix)))]
        Asked(context) == Showing(context, Suggestions(context))
    IN  Asked(ParseContext(p))

Refreshed(p) == [p EXCEPT !.popup = PopupFor(p)]
IsOpen(p) == p.popup.kind # "none"
Selected(p) == p.popup.items[p.popup.list.selected + 1]

\* The buffer already holds the completion: Enter means submit.
WouldNoop(p) ==
    IF p.popup.kind = "command" THEN WithoutSlash(p.popup.prefix) = Selected(p)
    ELSE p.popup.prefix = Selected(p)

\* pending_apply: where the replacement starts; none when the prefix no longer fits.
CanApply(p) == IsOpen(p) /\ p.cursor >= Size(p.popup.prefix)
ApplyStart(p) == p.cursor - Size(p.popup.prefix)

Apply(p) ==
    LET command == p.popup.kind = "command"
        Space(behind) ==
            IF command /\ ~(behind # <<>> /\ Head(behind) = " ") THEN <<" ">> ELSE <<>>
        Replaced(head, text, behind) ==
            [p EXCEPT !.content = head \o text \o Space(behind) \o behind,
                      !.cursor  = ApplyStart(p) + Size(text) + (IF command THEN 1 ELSE 0),
                      !.at      = 0]
    IN  IF ~CanApply(p) THEN p
        ELSE Refreshed(Replaced(SubSeq(p.content, 1, Index(p.content, ApplyStart(p))),
                                (IF command THEN <<"/">> ELSE <<>>) \o Selected(p), Behind(p)))

-----------------------------------------------------------------------------
(* Keys.  Keys the open popup takes never reach the editor; every other key  *)
(* does, and the popup is recomputed after it.                               *)

EditKeys == {"backspace", "delete", "left", "right", "word_left", "word_right", "home", "end",
             "delete_line", "delete_to_end", "delete_word", "up", "down", "newline", "enter"}

EditorKey(p, key) ==
    CASE key = "enter"         -> Submit(p)
      [] key = "newline"       -> InsertChar(p, "\n")
      [] key = "backspace"     -> Backspace(p)
      [] key = "delete"        -> Delete(p)
      [] key = "left"          -> [p EXCEPT !.cursor = PreviousBoundary(p)]
      [] key = "right"         -> [p EXCEPT !.cursor = NextBoundary(p)]
      [] key = "word_left"     -> [p EXCEPT !.cursor = WordLeft(p)]
      [] key = "word_right"    -> [p EXCEPT !.cursor = WordRight(p)]
      [] key = "home"          -> [p EXCEPT !.cursor = LineStart(p)]
      [] key = "end"           -> [p EXCEPT !.cursor = LineEnd(p)]
      [] key = "delete_line"   -> [p EXCEPT !.content = <<>>, !.cursor = 0, !.at = 0]
      [] key = "delete_to_end" -> Drain(p, p.cursor, LineEnd(p))
      [] key = "delete_word"   -> EraseBack(p, WordLeft(p))
      [] key = "up"            -> HistoryPrevious(p)
      [] key = "down"          -> HistoryNext(p)
      [] OTHER                 -> InsertChar(p, key)

HandleKey(p, key) ==
    CASE IsOpen(p) /\ key = "esc" -> [p EXCEPT !.popup = NoPopup]
      [] IsOpen(p) /\ key \in {"up", "down"} ->
             [p EXCEPT !.popup.list = MoveSelection(@, IF key = "up" THEN -1 ELSE 1)]
      [] IsOpen(p) /\ key \in {"tab", "enter"} /\ ~WouldNoop(p) -> Apply(p)
      [] IsOpen(p) /\ key = "tab" -> p
      [] OTHER -> Refreshed(IF key \in {"esc", "tab"} THEN p ELSE EditorKey(p, key))

-----------------------------------------------------------------------------
(* The pane under use.                                                       *)

EditorInit == pane = [content |-> <<>>, cursor |-> 0, history |-> <<>>, at |-> 0, saved |-> <<>>,
                popup |-> NoPopup]

\* Drafts stop growing at a bound, the sooner the more were sent; a few are sent.
Room == Len(pane.content) + Len(pane.history) < MaxText
MayGo == Len(pane.history) < MaxHistory /\ pane.content \in Finished

Type == \E c \in Chars : Room /\ pane' = HandleKey(pane, c)
Edit == \E key \in EditKeys \ {"enter", "newline"} : pane' = HandleKey(pane, key)
Newline == Room /\ pane' = HandleKey(pane, "newline")
PopupKey == \E key \in {"esc", "tab"} : Room /\ pane' = HandleKey(pane, key)
Enter ==
    /\ IF IsOpen(pane) THEN Room ELSE MayGo
    /\ pane' = HandleKey(pane, "enter")

\* The application takes the draft (queued behind a run, or after an abort) and clears it.
Clear ==
    /\ pane.content # <<>> /\ MayGo
    /\ pane' = [Emptied(pane) EXCEPT !.history = Append(@, pane.content)]

EditorNext == Type \/ Edit \/ Newline \/ PopupKey \/ Enter \/ Clear
EditorSpec == EditorInit /\ [][EditorNext]_pane

-----------------------------------------------------------------------------
(* The cursor can always be used to cut the text, the selected suggestion is *)
(* on the screen, and a place in the history is one that exists: the slices  *)
(* of input.rs panic otherwise.                                              *)
CursorUsable ==
    /\ pane.cursor \in Boundaries(pane.content)
    /\ pane.at <= Len(pane.history)
    /\ IsOpen(pane) => pane.popup.list.selected \in VisibleRows(pane.popup.list)

(* Accepting a suggestion replaces exactly the text it completes, however    *)
(* the buffer was edited, recalled or cleared since the popup opened.        *)
ApplyReplacesPrefix ==
    CanApply(pane) =>
        /\ ApplyStart(pane) \in Boundaries(pane.content)
        /\ SubSeq(Before(pane), Index(pane.content, ApplyStart(pane)) + 1, Len(Before(pane)))
               = pane.popup.prefix

(* The popup cannot hold a draft back: three presses of Enter (complete the  *)
(* command, complete its argument, send) send any draft that is not blank.   *)
EnterGetsThrough ==
    LET Press(p) == HandleKey(p, "enter")
        Sent(p)  == Len(p.history) > Len(pane.history)
        Soon(p)  == Sent(p) \/ Sent(Press(p))
        Through(p) == Sent(p) \/ Soon(Press(p))
    IN  TrimEnd(pane.content) # <<>> => Through(Press(pane))

(* Going up into the history, to its end and beyond, and down again returns  *)
(* the draft, whatever the draft and wherever an earlier visit left off; a   *)
(* popup that a recalled command opens is closed on the way.                 *)
DraftReturns ==
    LET Walked(p, key) == HandleKey(IF IsOpen(p) THEN HandleKey(p, "esc") ELSE p, key)
        Walk(p, key, times) == FoldLeft(LAMBDA q, i : Walked(q, key), p, [i \in 1 .. times |-> i])
        Back(up) == IF up.at = 0 THEN up ELSE Walk(up, "down", Len(up.history) + 1 - up.at)
    IN  pane.at = 0 =>
            \A n \in 0 .. Len(pane.history) + 1 : Back(Walk(pane, "up", n)).content = pane.content

(* No key sequence loses a draft or leaves the editor unusable.              *)
EditorSound == CursorUsable /\ ApplyReplacesPrefix /\ EnterGetsThrough /\ DraftReturns
=============================================================================
