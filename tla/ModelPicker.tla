---------------------------- MODULE ModelPicker ----------------------------
(* The search-first model list shared by /model, onboarding and provider     *)
(* management (anie-tui: overlays/model_picker.rs, widgets/fuzzy.rs).  A     *)
(* model is its id; how a search of one word meets a model's id or name is   *)
(* data.                                                                     *)
EXTENDS Naturals, Integers, Sequences, SequencesExt

CONSTANTS
    Lists,      \* the model lists discovery may bring
    Queries,    \* the searches that can be typed; "" is the empty one
    Hit         \* Hit[q][m]: [tier, length, position, runs, starts] of the best match, or no tier

VARIABLE picker     \* [models, filtered, selected, scroll, query, loading, error]

Scrolled == 8       \* the rows ensure_selection_visible assumes

AtMost(n, cap) == IF n < cap THEN n ELSE cap
Minus(a, b) == IF a > b THEN a - b ELSE 0

Base == [exact |-> 1000000, prefix |-> 500000, word |-> 250000, inside |-> 100000]

\* A tier's base less what the candidate's length and the match's position cost.
Score(h) ==
    IF h.tier = "scattered"
    THEN Minus(10000 + 50 * h.runs + 500 * h.starts, AtMost(h.length, 5000))
    ELSE Minus(Minus(Base[h.tier], AtMost(h.length, 5000)), AtMost(10 * h.position, 5000))

\* The rows of a query: every model in order, or the matches, best first.
Filtered(models, q) ==
    LET all == [i \in DOMAIN models |-> i]
        met == SelectSeq(all, LAMBDA i : Hit[q][models[i]].tier # "none")
        of(i) == Score(Hit[q][models[i]])
    IN  IF q = "" THEN all
        ELSE SortSeq(met, LAMBDA i, j : of(i) > of(j) \/ (of(i) = of(j) /\ i < j))

EnsureVisible(p) ==
    [p EXCEPT !.scroll = IF p.selected < @ THEN p.selected
                         ELSE IF p.selected >= @ + Scrolled THEN p.selected + 1 - Scrolled
                         ELSE @]

\* apply_filter: the preferred model if it is still there, else the same row.
ApplyFilter(p, preferred) ==
    LET rows == Filtered(p.models, p.query)
        kept == {r \in DOMAIN rows : p.models[rows[r]] = preferred}
        q    == [p EXCEPT !.filtered = rows]
    IN  IF rows = <<>> THEN [q EXCEPT !.selected = 0, !.scroll = 0]
        ELSE IF kept # {}
        THEN EnsureVisible([q EXCEPT !.selected = (CHOOSE r \in kept : \A k \in kept : r <= k) - 1])
        ELSE EnsureVisible([q EXCEPT !.selected = IF @ >= Len(rows) THEN 0 ELSE @])

NoModel == 0
SelectedModel(p) ==
    IF p.selected + 1 \in DOMAIN p.filtered THEN p.models[p.filtered[p.selected + 1]] ELSE NoModel

NewPicker(models, q) ==
    ApplyFilter([models |-> models, filtered |-> <<>>, selected |-> 0, scroll |-> 0,
                 query |-> q, loading |-> FALSE, error |-> FALSE], NoModel)

\* Variant of SetModels with a bug: the choice is not looked for in the new list.
BugSetModels(p, models) ==
    ApplyFilter([p EXCEPT !.models = models, !.loading = FALSE, !.error = FALSE], NoModel)

SetModels(p, models) ==
    ApplyFilter([p EXCEPT !.models = models, !.loading = FALSE, !.error = FALSE], SelectedModel(p))

Move(p, delta) ==
    LET n == Len(p.filtered)
    IN  IF n = 0 THEN [p EXCEPT !.selected = 0, !.scroll = 0]
        ELSE EnsureVisible([p EXCEPT !.selected = (@ + delta) % n])

PickerInit == \E l \in Lists, q \in Queries : picker = NewPicker(l, q)

Search == \E q \in Queries \ {picker.query} : picker' = ApplyFilter([picker EXCEPT !.query = q], NoModel)
Navigate ==
    \/ picker' = Move(picker, 1)
    \/ picker' = Move(picker, -1)
    \/ picker' = [picker EXCEPT !.selected = 0, !.scroll = 0]
    \/ picker' = EnsureVisible([picker EXCEPT !.selected = Minus(Len(picker.filtered), 1)])

\* Refresh keeps the rows on show behind the spinner; discovery answers later.
Refresh == ~picker.loading /\ picker' = [picker EXCEPT !.loading = TRUE, !.error = FALSE]
Discovered == \E l \in Lists : picker' = SetModels(picker, l)
DiscoveryFailed == picker' = [picker EXCEPT !.loading = FALSE, !.error = TRUE]

PickerNext == Search \/ Navigate \/ Refresh \/ Discovered \/ DiscoveryFailed
PickerSpec == PickerInit /\ [][PickerNext]_picker

-----------------------------------------------------------------------------
\* The height asked for, and the rows of the list drawn in a height.
PreferredHeight(p) ==
    LET rows == IF p.loading THEN 3
                ELSE IF Len(p.filtered) < 3 THEN 3 ELSE AtMost(Len(p.filtered), 8)
        all  == 5 + rows + (IF p.error THEN 1 ELSE 0)
    IN  IF all < 8 THEN 8 ELSE AtMost(all, 14)

ShownRows(p, height) ==
    LET inner == Minus(height, 2)
        room  == Minus(Minus(Minus(inner, 1), IF p.error THEN 1 ELSE 0), 1)
        rows  == AtMost(IF room < 1 THEN 1 ELSE room, 10)
        start == AtMost(p.scroll, Minus(Len(p.filtered), 1))
    IN  {r \in 0 .. Len(p.filtered) - 1 : start <= r /\ r < start + rows}

(* The row Enter would choose is one of the rows drawn, in any height of at  *)
(* least the preferred one and whatever was searched, scrolled or replaced,  *)
(* although the scroll is kept for a fixed number of rows.                   *)
ChoiceOnScreen ==
    (picker.filtered # <<>> /\ ~picker.loading) =>
        \A height \in PreferredHeight(picker) .. 16 :
            picker.selected \in ShownRows(picker, height)

(* A list that arrives while the user chooses never changes what Enter would *)
(* choose, as long as that model is still among the rows.                    *)
RefreshKeepsChoice ==
    [][(/\ picker'.models # picker.models
        /\ \E r \in DOMAIN picker'.filtered :
               picker'.models[picker'.filtered[r]] = SelectedModel(picker))
          => SelectedModel(picker') = SelectedModel(picker)]_picker

TierRank == [exact |-> 5, prefix |-> 4, word |-> 3, inside |-> 2, scattered |-> 1]

(* The rows are those of the list and the search on show, and a stronger     *)
(* kind of match is never below a weaker one (fuzzy.rs:14), however long the *)
(* candidate and however late the match.                                     *)
StrongestFirst ==
    LET hit(r) == Hit[picker.query][picker.models[picker.filtered[r]]]
    IN  /\ picker.filtered = Filtered(picker.models, picker.query)
        /\ picker.query # "" =>
               \A r, s \in DOMAIN picker.filtered :
                   r < s => TierRank[hit(r).tier] >= TierRank[hit(s).tier]

(* What Enter chooses is what the user sees selected.                        *)
PickerSound == [](ChoiceOnScreen /\ StrongestFirst) /\ RefreshKeepsChoice
=============================================================================
