--------------------------- MODULE TaggedReasoning ---------------------------
(***************************************************************************)
(* Reasoning written into the text between tags, taken out of a stream     *)
(* whose chunks may end anywhere:                                          *)
(* anie-providers-builtin/src/openai/tagged_reasoning.rs.                  *)
(*                                                                         *)
(* Characters are the ones that tell the tags apart: "t" stands for think, *)
(* "i" for ing, "r" for reasoning, "x" for anything else.                  *)
(***************************************************************************)
EXTENDS Integers, Sequences, SequencesExt

CONSTANTS
    Fragments,      \* chunks the server may send
    MaxFragments    \* bound: chunks of a stream

ASSUME TaggedReasoningAssumption == MaxFragments \in Nat

\* TAGGED_REASONING_TAGS: <think>, <thinking>, <reasoning>
Tags == {"think", "thinking", "reasoning"}
OpenTag == [think |-> <<"<", "t", ">">>, thinking |-> <<"<", "t", "i", ">">>,
            reasoning |-> <<"<", "r", ">">>]
ClosingTag == [think |-> <<"<", "/", "t", ">">>, thinking |-> <<"<", "/", "t", "i", ">">>,
               reasoning |-> <<"<", "/", "r", ">">>]
Outside == "text"      \* the mode outside of tags; inside, the mode is the tag

VARIABLES
    splitter,       \* mode, pending, and what it has given out so far
    received,           \* everything the server has received
    fragments,      \* chunks so far
    finished

taggedVars == <<splitter, received, fragments, finished>>

NewSplitter == [mode |-> Outside, pending |-> <<>>, text |-> <<>>, thinking |-> <<>>]

TaggedReasoningInit ==
    /\ splitter = NewSplitter
    /\ received = <<>> /\ fragments = 0 /\ finished = FALSE

\* push_part: neighbouring parts of a kind are one, so only the two texts remain.
Give(s, part) ==
    IF s.mode = Outside THEN [s EXCEPT !.text = @ \o part]
    ELSE [s EXCEPT !.thinking = @ \o part]

\* Variant of MayBecomeTag with a bug: no tag is waited for.
BugMayBecomeTag(s) == FALSE

\* A tag that may still become one is kept until more arrives.
MayBecomeTag(s) ==
    IF s.mode = Outside THEN \E tag \in Tags : IsPrefix(s.pending, OpenTag[tag])
    ELSE IsPrefix(s.pending, ClosingTag[s.mode])

\* tagged_reasoning_open_tag, or the closing tag of the open one.
TagAtStart(s) ==
    IF s.mode = Outside THEN {tag \in Tags : IsPrefix(OpenTag[tag], s.pending)}
    ELSE {tag \in {s.mode} : IsPrefix(ClosingTag[tag], s.pending)}

AfterTag(s, tag) ==
    LET length == IF s.mode = Outside THEN Len(OpenTag[tag]) ELSE Len(ClosingTag[tag])
    IN  [s EXCEPT !.pending = SubSeq(@, length + 1, Len(@)),
                  !.mode = IF @ = Outside THEN tag ELSE Outside]

\* The text up to the next "<", or the "<" itself when it starts no tag.
PlainLength(s) ==
    LET angles == {i \in 1..Len(s.pending) : s.pending[i] = "<"}
    IN  IF angles = {} THEN Len(s.pending)
        ELSE LET first == CHOOSE i \in angles : \A j \in angles : i <= j
             IN  IF first = 1 THEN 1 ELSE first - 1

RECURSIVE Drain(_, _)
Drain(s, finish) ==
    IF s.pending = <<>> THEN s
    ELSE IF s.pending[1] = "<" /\ TagAtStart(s) # {}
    THEN Drain(AfterTag(s, CHOOSE tag \in TagAtStart(s) : TRUE), finish)
    ELSE IF s.pending[1] = "<" /\ ~ finish /\ MayBecomeTag(s)
    THEN s
    ELSE LET n == PlainLength(s)
         IN  Drain([Give(s, SubSeq(s.pending, 1, n)) EXCEPT
                        !.pending = SubSeq(@, n + 1, Len(@))], finish)

PushChunk(s, fragment) == Drain([s EXCEPT !.pending = @ \o fragment], FALSE)

PushFragment(fragment) ==
    /\ ~ finished /\ fragments < MaxFragments
    /\ splitter' = PushChunk(splitter, fragment)
    /\ received' = received \o fragment
    /\ fragments' = fragments + 1
    /\ UNCHANGED finished

\* finish: what was kept back is given out as it is.
Flush(s) == Drain(s, TRUE)

StreamEnds ==
    /\ ~ finished
    /\ splitter' = Flush(splitter)
    /\ finished' = TRUE
    /\ UNCHANGED <<received, fragments>>

TaggedReasoningNext ==
    \/ \E fragment \in Fragments : PushFragment(fragment)
    \/ StreamEnds

TaggedReasoningSpec == TaggedReasoningInit /\ [][TaggedReasoningNext]_taggedVars

-----------------------------------------------------------------------------
(* Properties *)

Given(s) == [text |-> s.text, thinking |-> s.thinking]

\* However a response is cut into chunks, its text and its reasoning are the ones of
\* the response in one piece (drain, over any number of push calls).
ChunksDoNotMatter ==
    finished =>
        Given(splitter) = Given(Flush([NewSplitter EXCEPT !.pending = received]))

\* No plain character, one that begins no tag, is lost or kept back: text and
\* reasoning hold each of those received, in every state the splitter can be in.
NothingSwallowed ==
    LET plain(s) == SelectSeq(s, LAMBDA c : c = "x")
    IN  Len(plain(splitter.text)) + Len(plain(splitter.thinking)) = Len(plain(received))

\* What the splitter gives out is the response, however it was cut.
SplitterSound == ChunksDoNotMatter /\ NothingSwallowed
=============================================================================
