----------------------------- MODULE PrintMode -----------------------------
(***************************************************************************)
(* One-shot print mode (anie-cli/src/print_mode.rs, run_print_mode): the   *)
(* controller with exit_after_run, one prompt, and a task that turns the   *)
(* first Ctrl-C into UiAction::Abort.  The process ends once the printer   *)
(* has seen the event channel close, that is once the controller ended.    *)
(***************************************************************************)
EXTENDS Controller

ASSUME PrintAssumption == exit_after_run

VARIABLES
    process,    \* "running" or "ended"
    ctrl_c      \* what the one forwarded Ctrl-C met: "none" yet, a "run",
                \* a "backoff" or nothing ("idle")

printVars == <<vars, process, ctrl_c>>

PrintInit == Init /\ process = "running" /\ ctrl_c = "none"

\* The controller works on its own.
ControllerStep ==
    /\ RunResult \/ GateCompacts \/ RetryDeadlineFires
    /\ UNCHANGED <<process, ctrl_c>>

\* ui_action_tx.send(SubmitPrompt(prompt)), once.
SendPrompt == prompts = 0 /\ SubmitPrompt /\ UNCHANGED <<process, ctrl_c>>

\* The spawned ctrl_c task forwards one Abort and ends.
CtrlC ==
    /\ ctrl_c = "none"
    /\ Abort
    /\ ctrl_c' = IF current_run.active THEN "run"
                 ELSE IF pending_retry.armed THEN "backoff" ELSE "idle"
    /\ UNCHANGED process

\* process_print_events returns, and controller_task is joined.
PrinterEnds ==
    /\ loop # "looping" /\ process = "running"
    /\ process' = "ended"
    /\ UNCHANGED <<vars, ctrl_c>>

PrintNext == ControllerStep \/ SendPrompt \/ CtrlC \/ PrinterEnds

PrintSpec ==
    /\ PrintInit /\ [][PrintNext]_printVars
    /\ WF_printVars(ControllerStep) /\ WF_printVars(SendPrompt)
    /\ WF_printVars(PrinterEnds)

-----------------------------------------------------------------------------
\* Print mode runs a single prompt and exits.
PrintModeExits == <>(process = "ended")

\* It never exits early, with the prompt neither answered nor lost.
NoEarlyExit ==
    process = "ended" =>
        /\ prompts > 0
        /\ \A turn \in Turns : Started(turn) =>
              turn \in lost \/ \E s \in Sessions : Answers(log, s, turn) # {}

\* The prompt is sent and the process runs on; once a Ctrl-C has met a backoff it may
\* do so for ever, else neither a retry, a compaction, a panic nor an abort of the run
\* leaves exit_after_run waiting.
PromptPending == prompts > 0 /\ process # "ended" /\ ctrl_c # "backoff"
=============================================================================
