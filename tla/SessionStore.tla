---------------------------- MODULE SessionStore ----------------------------
(***************************************************************************)
(* What session files promise (docs/arch/anie-rs_architecture.md, "Session *)
(* persistence"): the conversation a resume reconstructs only ever grows   *)
(* by a message, or has its beginning replaced by a summary.               *)
(***************************************************************************)
EXTENDS Compaction

CONSTANTS Sessions, Messages

VARIABLE conversations   \* of each session

Init == conversations = [session \in Sessions |-> <<>>]

AppendMessage(session, message) ==
    conversations' = [conversations EXCEPT ![session] = Append(@, message)]

Compact(session) ==
    \E cut \in Cuts(conversations[session]) :
        conversations' = [conversations EXCEPT ![session] = Compacted(@, cut)]

Changes(session) == \/ \E message \in Messages : AppendMessage(session, message)
                    \/ Compact(session)

Next == \E session \in Sessions : Changes(session)

Spec == Init /\ [][Next]_conversations
=============================================================================
