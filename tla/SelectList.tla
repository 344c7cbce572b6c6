----------------------------- MODULE SelectList -----------------------------
(* The list primitive under the slash-command popup: a selected row and a    *)
(* scroll offset over rows 0 .. len - 1 (widgets/select_list.rs).            *)
EXTENDS Naturals, Integers

\* The list a popup starts with: every item visible, the first selected.
NewList(len, visible) == [len |-> len, selected |-> 0, scroll |-> 0, visible |-> visible]

\* scroll_to_selected, with its final clamp to the last full page.
ScrollToSelected(l) ==
    LET shown == IF l.selected < l.scroll THEN l.selected
                 ELSE IF l.selected >= l.scroll + l.visible
                      THEN l.selected + 1 - l.visible ELSE l.scroll
        last  == IF l.len > l.visible THEN l.len - l.visible ELSE 0
    IN  [l EXCEPT !.scroll = IF l.len = 0 THEN 0 ELSE IF shown > last THEN last ELSE shown]

\* move_selection wraps at both ends.
MoveSelection(l, delta) ==
    IF l.len = 0 THEN [l EXCEPT !.selected = 0]
    ELSE ScrollToSelected([l EXCEPT !.selected = (l.selected + delta) % l.len])

\* select_first_where: the first row of the set, or no change.
SelectFirst(l, rows) ==
    IF rows = {} THEN l
    ELSE ScrollToSelected([l EXCEPT !.selected = CHOOSE r \in rows : \A q \in rows : r <= q])

\* The rows visible() yields.
VisibleRows(l) == {r \in 0 .. l.len - 1 : l.scroll <= r /\ r < l.scroll + l.visible}
=============================================================================
