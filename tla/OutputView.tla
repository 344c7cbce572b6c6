----------------------------- MODULE OutputView -----------------------------
(* The output pane: the lines of each block kept at two widths, the answer     *)
(* being streamed, the flat snapshot a typed key may be painted over, scrolling *)
(* and following, and what the TUI loop thinks is due for painting              *)
(* (anie-tui/src/output.rs, app.rs).                                            *)
EXTENDS Naturals, Sequences, SequencesExt

CONSTANTS
    PaneWidths, PaneHeights,   \* sizes the terminal may give the pane
    Contexts,                  \* RenderContext: sets of "markdown", "compact"
    Loaded,                    \* transcripts a session may be resumed with
    MaxPaneBlocks, MaxWords,       \* bounds of the transcript and of a block's text
    LineMax                    \* u16::MAX

OutBlocks ==
    [kind : {"user", "assistant", "tool"}, text : Nat, thinking : Nat, live : BOOLEAN]

ASSUME OutputViewAssumption ==
    /\ PaneWidths \cup PaneHeights \subseteq Nat \ {0}
    /\ MaxPaneBlocks \in Nat /\ MaxWords \in Nat \ {0} /\ LineMax \in Nat \ {0}
    /\ Loaded \subseteq Seq(OutBlocks)

VARIABLES
    entries,     \* the transcript
    caches,     \* of each block: its lines at up to two widths, the latest fill first
    renders,    \* of each block: nothing, or the streamed text and its last rendering
    render_context,
    flat,       \* the snapshot: its lines, the width they are for, whether they are current
    scroll,     \* [offset, auto], and total and height as of the last paint
    size,       \* of the terminal's pane
    dirty,      \* what is due: the composer, everything
    urgent      \* a key was typed: the next paint does not wait

outputVars == <<entries, caches, renders, render_context, flat, scroll, size, dirty, urgent>>

OutBlock(kind, text, live) == [kind |-> kind, text |-> text, thinking |-> 0, live |-> live]
NoRender == <<>>
Streamed(text) == << [text |-> text, cache |-> <<>>] >>

------------------------------------------------------------------------------
Wrapped(words, width) == (words + width - 1) \div width

\* The lines of a part of a block, each known by what it was made from.
Lines(part, of, rows, width, c) ==
    [k \in 1..rows |-> [part |-> part, of |-> of, row |-> k, width |-> width, context |-> c]]
EmptyLine == [part |-> "none", of |-> 0, row |-> 0, width |-> 0, context |-> {}]

AnswerLines(text, width, c) == Lines("answer", text, Wrapped(text, width), width, c)

\* Thinking above the answer, one empty line at least.
AssistantLines(b, answer, width, c) ==
    LET thinking == IF b.thinking = 0 THEN <<>>
                    ELSE Lines("thinking", b.thinking, 1 + Wrapped(b.thinking, width), width, c)
    IN IF thinking = <<>> THEN (IF answer = <<>> THEN <<EmptyLine>> ELSE answer)
       ELSE IF answer = <<>> THEN thinking ELSE thinking \o <<EmptyLine>> \o answer

\* A header and a body, which compact mode hides once there is a result.
ToolLines(b, width, c) ==
    LET body == IF b.text = 0 THEN (IF b.live THEN 1 ELSE 0)
                ELSE IF "compact" \in c THEN 0 ELSE Wrapped(b.text, width)
    IN Lines("tool", <<b.text, b.live>>, 1 + body, width, c)

\* block_lines, without a streamed rendering.
BlockLines(b, width, c) ==
    IF b.kind = "tool" THEN ToolLines(b, width, c)
    ELSE IF b.kind = "assistant" THEN AssistantLines(b, AnswerLines(b.text, width, c), width, c)
    ELSE Lines("user", b.text, Wrapped(b.text, width), width, c)

\* Blocks apart by an empty line; an empty transcript is one empty line.
Flatten(parts) ==
    IF parts = <<>> THEN <<EmptyLine>>
    ELSE LET upTo[n \in 1..Len(parts)] ==
               IF n = 1 THEN parts[1] ELSE upTo[n - 1] \o <<EmptyLine>> \o parts[n]
         IN  upTo[Len(parts)]

\* LineCache::entry_at_width.
HasEntry(cache, width) == \E k \in DOMAIN cache : cache[k].width = width
EntryAt(cache, width) == cache[CHOOSE k \in DOMAIN cache : cache[k].width = width]

\* LineCache::insert: the latest fill first, then what was first unless it was of that width.
InsertEntry(cache, entry) ==
    <<entry>> \o (IF cache = <<>> THEN <<>>
                  ELSE IF cache[1].width = entry.width THEN Tail(cache) ELSE <<cache[1]>>)

\* StreamingAssistantRender::render_lines: its own text, or the last rendering of
\* as much text at that width and with those settings.
StreamedAnswer(i, width) ==
    LET r == renders[i][1] IN
    IF r.cache # <<>> /\ r.cache[1].key = <<r.text, width, render_context>> THEN r.cache[1].lines
    ELSE AnswerLines(r.text, width, render_context)

\* The lines of block i as the next build takes them.
LinesOf(i, width) ==
    LET b == entries[i] IN
    IF ~b.live /\ HasEntry(caches[i], width) THEN EntryAt(caches[i], width).lines
    ELSE IF b.live /\ renders[i] # NoRender THEN AssistantLines(b, StreamedAnswer(i, width), width, render_context)
    ELSE BlockLines(b, width, render_context)

Animated == \E i \in DOMAIN entries : entries[i].live

------------------------------------------------------------------------------
OutputInit ==
    /\ entries \in Loaded
    /\ caches = [i \in DOMAIN entries |-> <<>>] /\ renders = [i \in DOMAIN entries |-> NoRender]
    /\ render_context \in Contexts
    /\ flat = [lines |-> <<>>, width |-> 0, valid |-> FALSE]
    /\ scroll = [offset |-> 0, auto |-> TRUE, total |-> 0, height |-> 1]
    /\ size \in [width : PaneWidths, height : PaneHeights]
    /\ dirty = [composer |-> FALSE, full |-> TRUE] /\ urgent = FALSE

\* After an agent event everything is due.
Due == dirty' = [dirty EXCEPT !.full = TRUE] /\ UNCHANGED <<render_context, scroll, size, urgent>>

Outdated == flat' = [flat EXCEPT !.valid = FALSE]

\* invalidate_at.
InvalidateAt(i) == caches' = [caches EXCEPT ![i] = <<>>] /\ Outdated

PushBlock(kind, text, live) ==
    /\ Len(entries) < MaxPaneBlocks
    /\ entries' = Append(entries, OutBlock(kind, text, live))
    /\ caches' = Append(caches, <<>>)
    /\ renders' = Append(renders, IF kind = "assistant" /\ live THEN Streamed(text) ELSE NoRender)
    /\ Outdated /\ Due

\* Messages and tool calls begin, the controller says something.
BlockArrives ==
    \/ PushBlock("user", 1, FALSE)
    \/ PushBlock("assistant", 0, TRUE)
    \/ PushBlock("tool", 0, TRUE)

LastIs(kind) == entries # <<>> /\ Last(entries).kind = kind

\* append_to_last_assistant, with the streamed text if there is one.
AppendText ==
    LET i == Len(entries) IN
    /\ LastIs("assistant") /\ entries[i].text + entries[i].thinking < MaxWords
    /\ entries' = [entries EXCEPT ![i].text = @ + 1]
    /\ renders' = [renders EXCEPT ![i] = IF @ = NoRender THEN @ ELSE Streamed(@[1].text + 1)]
    /\ InvalidateAt(i) /\ Due

AppendThinking ==
    LET i == Len(entries) IN
    /\ LastIs("assistant") /\ entries[i].text + entries[i].thinking < MaxWords
    /\ entries' = [entries EXCEPT ![i].thinking = @ + 1]
    /\ InvalidateAt(i) /\ Due /\ UNCHANGED renders

\* finalize_last_assistant: the message as a whole replaces what was streamed.
FinalizeAnswer ==
    LET i == Len(entries) IN
    /\ LastIs("assistant")
    /\ \E text \in 0..MaxWords : entries' = [entries EXCEPT ![i].text = text, ![i].live = FALSE]
    /\ renders' = [renders EXCEPT ![i] = NoRender]
    /\ InvalidateAt(i) /\ Due

\* A tool's partial result, or its last one, wherever its block is.
ToolReports(i, over) ==
    /\ entries[i].kind = "tool"
    /\ \E text \in 1..MaxWords :
         entries' = [entries EXCEPT ![i].text = text, ![i].live = @ /\ ~over]
    /\ InvalidateAt(i) /\ Due /\ UNCHANGED renders

\* Ctrl+L and /clear, or a transcript that replaces this one.
ClearPane ==
    /\ entries' = <<>> /\ caches' = <<>> /\ renders' = <<>>
    /\ flat' = [lines |-> <<>>, width |-> 0, valid |-> FALSE]
    /\ scroll' = [offset |-> 0, auto |-> TRUE, total |-> 0, height |-> 1]
    /\ dirty' = [dirty EXCEPT !.full = TRUE] /\ UNCHANGED <<render_context, size, urgent>>

\* /markdown and /tool-output; nothing happens when it is so already.
SetContext(c) ==
    /\ c # render_context /\ render_context' = c
    /\ caches' = [i \in DOMAIN caches |-> <<>>]
    /\ renders' = [i \in DOMAIN renders |-> IF renders[i] = NoRender THEN NoRender ELSE Streamed(renders[i][1].text)]
    /\ Outdated
    /\ dirty' = [dirty EXCEPT !.full = TRUE] /\ UNCHANGED <<entries, scroll, size, urgent>>

------------------------------------------------------------------------------
MaxScroll(s) == IF s.total > s.height THEN s.total - s.height ELSE 0
CurrentScroll(s) == IF s.auto \/ s.offset > MaxScroll(s) THEN MaxScroll(s) ELSE s.offset
SetScroll(s, offset) ==
    LET o == IF offset > MaxScroll(s) THEN MaxScroll(s) ELSE offset
    IN [s EXCEPT !.offset = o, !.auto = o >= MaxScroll(s)]

ScrollTo(s) ==
    /\ scroll' = s /\ dirty' = [dirty EXCEPT !.full = TRUE]
    /\ UNCHANGED <<entries, caches, renders, render_context, flat, size, urgent>>

\* A page, three lines of the wheel, Home and End, by the sizes last painted.
Scrolls ==
    \E amount \in {3, scroll.height} :
      \/ ScrollTo(SetScroll(scroll, IF CurrentScroll(scroll) > amount THEN CurrentScroll(scroll) - amount ELSE 0))
      \/ ScrollTo(SetScroll(scroll, CurrentScroll(scroll) + amount))
      \/ ScrollTo(SetScroll(scroll, 0))
      \/ ScrollTo([scroll EXCEPT !.offset = MaxScroll(scroll), !.auto = TRUE])

Resized ==
    /\ size' \in [width : PaneWidths, height : PaneHeights] \ {size}
    /\ dirty' = [dirty EXCEPT !.full = TRUE]
    /\ UNCHANGED <<entries, caches, renders, render_context, flat, scroll, urgent>>

\* A key for the composer: painted at once, over whatever the pane shows.
Typed ==
    /\ dirty' = [dirty EXCEPT !.composer = TRUE] /\ urgent' = TRUE
    /\ UNCHANGED <<entries, caches, renders, render_context, flat, scroll, size>>

\* While a run is shown or an overlay is open, every tick repaints.
SpinnerTicks ==
    /\ Animated /\ dirty' = [dirty EXCEPT !.full = TRUE]
    /\ UNCHANGED <<entries, caches, renders, render_context, flat, scroll, size, urgent>>

\* rebuild_flat_cache does nothing while the snapshot is current.
Current(width) == flat.valid /\ flat.width = width /\ ~Animated

\* can_reuse_flat_snapshot: an urgent paint takes what is there.
CanReuse(width) == flat.width = width /\ flat.lines # <<>>

\* build_flat_lines: blocks that are over fill their cache, a streamed answer its own.
BuildFlat(width) ==
    LET parts == [i \in DOMAIN entries |-> LinesOf(i, width)] IN
    /\ flat' = [lines |-> Flatten(parts), width |-> width, valid |-> ~Animated]
    /\ caches' = [i \in DOMAIN entries |->
                    IF entries[i].live \/ HasEntry(caches[i], width) THEN caches[i]
                    ELSE InsertEntry(caches[i], [width |-> width, lines |-> parts[i]])]
    /\ renders' = [i \in DOMAIN entries |->
                    IF ~entries[i].live \/ renders[i] = NoRender THEN renders[i]
                    ELSE << [text |-> renders[i][1].text,
                             cache |-> << [key |-> <<renders[i][1].text, width, render_context>>,
                                           lines |-> StreamedAnswer(i, width)] >>] >>]

\* Variant of Paint with a bug: an urgent paint clears what is due for a full one.
BugPaint ==
    /\ dirty.composer \/ dirty.full
    /\ IF Current(size.width) \/ (urgent /\ CanReuse(size.width))
       THEN UNCHANGED <<flat, caches, renders>> ELSE BuildFlat(size.width)
    /\ LET lines == Len(flat'.lines)
           s == [scroll EXCEPT !.total = IF lines > LineMax THEN LineMax ELSE lines, !.height = size.height]
       IN scroll' = SetScroll(s, CurrentScroll(s))
    /\ dirty' = [composer |-> FALSE, full |-> FALSE] /\ urgent' = FALSE
    /\ UNCHANGED <<entries, render_context, size>>

\* One frame: the snapshot is rebuilt or reused, then the scroll is clamped to it.
Paint ==
    /\ dirty.composer \/ dirty.full
    /\ IF Current(size.width) \/ (urgent /\ CanReuse(size.width))
       THEN UNCHANGED <<flat, caches, renders>> ELSE BuildFlat(size.width)
    /\ LET lines == Len(flat'.lines)
           s == [scroll EXCEPT !.total = IF lines > LineMax THEN LineMax ELSE lines, !.height = size.height]
       IN scroll' = SetScroll(s, CurrentScroll(s))
    /\ dirty' = [composer |-> FALSE, full |-> urgent /\ dirty.full] /\ urgent' = FALSE
    /\ UNCHANGED <<entries, render_context, size>>

OutputNext ==
    \/ BlockArrives \/ AppendText \/ AppendThinking \/ FinalizeAnswer
    \/ \E i \in DOMAIN entries, over \in BOOLEAN : ToolReports(i, over)
    \/ ClearPane \/ \E c \in Contexts : SetContext(c)
    \/ Scrolls \/ Resized \/ Typed \/ SpinnerTicks \/ Paint

OutputSpec == OutputInit /\ [][OutputNext]_outputVars

------------------------------------------------------------------------------
\* The pane as one without any cache would draw it.
DrawnFresh(width) == Flatten([i \in DOMAIN entries |-> BlockLines(entries[i], width, render_context)])

\* Three vectors run beside each other, and whatever they keep for a block is what
\* the block would be drawn as now, at every width kept.
CachesFresh ==
    /\ DOMAIN caches = DOMAIN entries /\ DOMAIN renders = DOMAIN entries
    /\ \A i \in DOMAIN entries :
         /\ \A e \in Range(caches[i]) : e.lines = BlockLines(entries[i], e.width, render_context)
         /\ renders[i] # NoRender => entries[i].live /\ renders[i][1].text = entries[i].text

\* What is on screen is what the transcript says unless a full paint is still due,
\* however many urgent paints over an old snapshot, resizes, settings and results
\* of earlier tools came in between.
StaleIsDue == dirty.full \/ flat.lines = DrawnFresh(size.width)

\* A reader who follows sees the end of the snapshot (of its first u16::MAX
\* lines), one who does not is above it, and nobody is past it.
FollowsEnd ==
    flat.lines # <<>> =>
        scroll.offset <= MaxScroll(scroll) /\ (scroll.auto <=> scroll.offset = MaxScroll(scroll))

\* What the reader sees is the transcript, at the place he chose.
ViewSound == CachesFresh /\ StaleIsDue /\ FollowsEnd
=============================================================================
