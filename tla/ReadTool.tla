------------------------------ MODULE ReadTool ------------------------------
(* The read tool and the agent that pages through a file with it: it asks    *)
(* from line 1 and, as long as the answer ends in "[output truncated. Use      *)
(* offset to read more.]", asks again from the line after the last one shown.  *)
(* A file is a sequence of lines, each with its length in bytes (the line end  *)
(* not counted) and whether it holds a NUL byte.                               *)
EXTENDS Naturals, SequencesExt

CONSTANTS
    Files,              \* the files a behaviour may read: [lines, closed], closed
                        \* when the last line ends in a newline
    Limits,             \* the limits the agent may ask with; 0 stands for none
    ContextWindow, BaseBudget, MinToolOutputBudget,
    MaxReadLines, MaxLineBuffer

(* effective_tool_output_budget: a tenth of the window, capped and floored.     *)
ToolOutputBudget(window, base) ==
    LET share == window \div 10
        capped == IF share < base THEN share ELSE base
    IN IF capped > MinToolOutputBudget THEN capped ELSE MinToolOutputBudget

ByteBudget == ToolOutputBudget(ContextWindow, BaseBudget)

(* read_one_line, again and again: a line longer than the line buffer comes     *)
(* out in several pieces, all but the last of them ending in "cap".              *)
PiecesOfLine(number, line, terminated) ==
    LET total == line.length + (IF terminated THEN 1 ELSE 0)
        count == (total + MaxLineBuffer - 1) \div MaxLineBuffer
    IN [i \in 1..count |->
            [line |-> number,
             first |-> (i = 1),
             nul |-> line.nul /\ i = 1,
             end |-> IF i < count THEN "cap"
                     ELSE IF terminated THEN "newline"
                     ELSE IF total % MaxLineBuffer = 0 THEN "cap" ELSE "eof",
             length |-> IF i < count THEN MaxLineBuffer
                        ELSE total - (count - 1) * MaxLineBuffer - (IF terminated THEN 1 ELSE 0)]]

PiecesOf(file) ==
    FlattenSeq([n \in DOMAIN file.lines |->
        PiecesOfLine(n, file.lines[n], file.closed \/ n < Len(file.lines))])

Least(a, b) == IF a < b THEN a ELSE b

\* Variant of Page with a bug: the line asked for is skipped too.
BugPageOffset(file, offset, limit) ==
    LET TakePiece(page, piece) ==
            LET at == page.index + 1
                separator == IF page.shown = <<>> THEN 0 ELSE 1
                Show(length) == Append(page.shown, [line |-> piece.line, first |-> piece.first,
                                                    length |-> length, of |-> piece.length])
            IN CASE page.stopped -> page
                 [] limit # 0 /\ Len(page.shown) >= limit -> [page EXCEPT !.stopped = TRUE]
                 [] piece.nul -> [page EXCEPT !.binary = TRUE, !.stopped = TRUE]
                 [] at <= offset -> [page EXCEPT !.index = at]
                 [] Len(page.shown) >= MaxReadLines ->
                        [page EXCEPT !.truncated = TRUE, !.stopped = TRUE]
                 [] page.used + separator + piece.length > ByteBudget ->
                        [page EXCEPT !.truncated = TRUE, !.stopped = TRUE,
                             !.shown = IF @ = <<>> THEN Show(Least(piece.length, ByteBudget)) ELSE @]
                 [] OTHER ->
                        [page EXCEPT !.index = at, !.used = @ + separator + piece.length,
                             !.shown = Show(piece.length),
                             !.truncated = (piece.end = "cap"), !.stopped = (piece.end = "cap")]
    IN FoldLeft(TakePiece,
                [shown |-> <<>>, used |-> 0, index |-> 0,
                 truncated |-> FALSE, binary |-> FALSE, stopped |-> FALSE],
                PiecesOf(file))

(* The loop of ReadTool::execute over the pieces, from offset.                   *)
Page(file, offset, limit) ==
    LET TakePiece(page, piece) ==
            LET at == page.index + 1
                separator == IF page.shown = <<>> THEN 0 ELSE 1
                Show(length) == Append(page.shown, [line |-> piece.line, first |-> piece.first,
                                                    length |-> length, of |-> piece.length])
            IN CASE page.stopped -> page
                 [] limit # 0 /\ Len(page.shown) >= limit -> [page EXCEPT !.stopped = TRUE]
                 [] piece.nul -> [page EXCEPT !.binary = TRUE, !.stopped = TRUE]
                 [] at < offset -> [page EXCEPT !.index = at]
                 [] Len(page.shown) >= MaxReadLines ->
                        [page EXCEPT !.truncated = TRUE, !.stopped = TRUE]
                 [] page.used + separator + piece.length > ByteBudget ->
                        [page EXCEPT !.truncated = TRUE, !.stopped = TRUE,
                             !.shown = IF @ = <<>> THEN Show(Least(piece.length, ByteBudget)) ELSE @]
                 [] OTHER ->
                        [page EXCEPT !.index = at, !.used = @ + separator + piece.length,
                             !.shown = Show(piece.length),
                             !.truncated = (piece.end = "cap"), !.stopped = (piece.end = "cap")]
    IN FoldLeft(TakePiece,
                [shown |-> <<>>, used |-> 0, index |-> 0,
                 truncated |-> FALSE, binary |-> FALSE, stopped |-> FALSE],
                PiecesOf(file))

----------------------------------------------------------------------------
VARIABLES
    reading,        \* the file being read
    limitAsked,     \* the limit of every request, 0 for none
    nextOffset,     \* the offset of the next request
    seen,           \* what the answers have shown, in order
    readEnd         \* "reading", or how the paging ended: "complete", "binary"

readVars == <<reading, limitAsked, nextOffset, seen, readEnd>>

ReadToolInit ==
    /\ reading \in Files
    /\ limitAsked \in Limits
    /\ nextOffset = 1
    /\ seen = <<>>
    /\ readEnd = "reading"

(* One call of the tool and the agent's decision to go on.  Without a limit it    *)
(* goes on while the answer is truncated; with one, until an answer shows fewer    *)
(* lines than it asked for.                                                        *)
ReadPage ==
    /\ readEnd = "reading"
    /\ LET page == Page(reading, nextOffset, limitAsked)
           more == page.truncated \/ (limitAsked # 0 /\ Len(page.shown) = limitAsked)
       IN IF page.binary
          THEN readEnd' = "binary" /\ UNCHANGED <<seen, nextOffset>>
          ELSE /\ seen' = seen \o page.shown
               /\ nextOffset' = nextOffset + Len(page.shown)
               /\ readEnd' = IF more THEN "reading" ELSE "complete"
    /\ UNCHANGED <<reading, limitAsked>>

ReadToolNext == ReadPage

ReadToolSpec == ReadToolInit /\ [][ReadToolNext]_readVars

----------------------------------------------------------------------------
(* PROPERTIES                                                                  *)

(* An agent that follows the footer sees the head of every line of the file,     *)
(* in order, and a line that fits the budget and the line buffer whole: paging   *)
(* skips nothing at a page boundary and repeats nothing.                          *)
PagesCoverFile ==
    readEnd = "complete" =>
        /\ LET heads == SelectSeq(seen, LAMBDA s : s.first)
           IN [i \in DOMAIN heads |-> heads[i].line] = [n \in DOMAIN reading.lines |-> n]
        /\ \A i \in DOMAIN seen : seen[i].of <= ByteBudget => seen[i].length = seen[i].of

(* What one answer carries never exceeds the budget its context window allows,    *)
(* however long the file's lines are.                                              *)
WithinBudget ==
    LET page == Page(reading, nextOffset, limitAsked)
    IN FoldLeft(LAMBDA sum, s : sum + s.length, 0, page.shown) + Len(page.shown) <= ByteBudget + 1

(* Paging makes progress: an answer that tells the agent to go on always shows at  *)
(* least one line, so the next offset is further on.                                *)
PagingAdvances ==
    LET page == Page(reading, nextOffset, limitAsked)
    IN page.truncated /\ ~page.binary => page.shown # <<>>

(* Reading a file page by page shows all of it, in pages that fit.                *)
ReadSound == PagesCoverFile /\ WithinBudget /\ PagingAdvances
=============================================================================
