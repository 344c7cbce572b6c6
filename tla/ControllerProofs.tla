-------------------------- MODULE ControllerProofs --------------------------
(***************************************************************************)
(* Controller's invariants, for every number of sessions, prompts, retries *)
(* and compactions: first the books on a turn, then what the sessions      *)
(* hold.                                                                   *)
(***************************************************************************)
EXTENDS Controller, TLAPS

USE DEF Turns

\* The bookkeeping of a turn: what CurrentRun and Armed carry, what the counters
\* say, and that they agree.  RunsPerTurnBounded and CompactionsPerTurnBounded
\* follow from it, and the bounds in TypeOK depend on it.
Ladder ==
    /\ RunsPerTurnBounded
    /\ CompactionsPerTurnBounded
    /\ pending_retry.armed =>
          (pending_retry.already_compacted <=> reactive_this_turn = 1)

\* A run and a retry belong to a prompt.
PromptNamed ==
    /\ current_run.active => current_run.turn \in Turns
    /\ pending_retry.armed => pending_retry.turn \in Turns

IInv == TypeOK /\ RunXorRetry /\ NoStrandedFollowUp /\ Ladder /\ PromptNamed

-----------------------------------------------------------------------------
\* What the assumptions say of the numbers.
LEMMA ConstantTypes ==
    max_retries \in Nat /\ max_per_turn \in Nat \ {0} /\ MaxPrompts \in Nat
BY MaxRetriesAssumption, ControllerAssumption

\* An error that is retried has used fewer attempts than max_retries.
LEMMA DecideRetry ==
    ASSUME NEW error, NEW attempt \in 0..max_retries,
           NEW compacted \in BOOLEAN, NEW left \in Nat,
           Decide(error, attempt, compacted, left).kind = "Retry"
    PROVE  /\ Decide(error, attempt, compacted, left).attempt = attempt + 1
           /\ attempt + 1 \in 0..max_retries
BY ConstantTypes
   DEF Decide, Retry, Compact, GiveUp, TransientErrors, RetryCap, Least,
       MAX_RATE_LIMIT_RETRIES, MAX_MODEL_OUTPUT_MALFORMED_RETRIES

\* An overflow is compacted at most once a turn, and only within the budget.
LEMMA DecideCompact ==
    ASSUME NEW error, NEW attempt \in 0..max_retries,
           NEW compacted \in BOOLEAN, NEW left \in Nat,
           Decide(error, attempt, compacted, left).kind = "Compact"
    PROVE  ~compacted /\ left > 0
BY DEF Decide, Retry, Compact, GiveUp, TransientErrors

\* Appending a message keeps the type of the logs.
LEMMA LoggedType ==
    ASSUME NEW L \in [Sessions -> Seq(EntryType)], NEW s \in Sessions,
           NEW kind \in {"user", "reply", "breadcrumb"},
           NEW turn \in 0..MaxPrompts
    PROVE  Logged(L, kind, turn, s) \in [Sessions -> Seq(EntryType)]
<1>1. Entry(kind, turn) \in EntryType
  BY DEF Entry, EntryType
<1>2. Append(L[s], Entry(kind, turn)) \in Seq(EntryType)
  BY <1>1
<1> QED BY <1>2 DEF Logged

\* So does the breadcrumb of a cancelled retry.
LEMMA AbortPendingRetryType ==
    ASSUME TypeOK, NEW L \in [Sessions -> Seq(EntryType)], NEW s \in Sessions
    PROVE  AbortPendingRetry(L, s) \in [Sessions -> Seq(EntryType)]
<1>1. pending_retry.turn \in 0..MaxPrompts
  BY DEF TypeOK, RetryType
<1> QED BY <1>1, LoggedType DEF AbortPendingRetry

LEMMA RunInType ==
    ASSUME NEW turn \in 0..MaxPrompts, NEW cancelled \in BOOLEAN,
           NEW compacted \in BOOLEAN, NEW attempt \in 0..max_retries
    PROVE  Run(turn, cancelled, compacted, attempt) \in RunType
BY DEF Run, RunType

LEMMA NoRunInType == NoRun \in RunType /\ Idle \in RetryType
BY ConstantTypes DEF NoRun, Idle, RunType, RetryType

-----------------------------------------------------------------------------
(***************************************************************************)
(* The operators that several actions share.  Each lemma gives the part of *)
(* IInv' that the operator settles.                                        *)
(***************************************************************************)
\* What starting a prompt establishes.
LEMMA StartPromptRunLemma ==
    ASSUME IInv, NEW turn \in Turns, NEW L \in [Sessions -> Seq(EntryType)],
           NEW gone \in SUBSET Turns, StartPromptRun(turn, L, gone)
    PROVE  /\ loop' \in {"looping", "failed"}
           /\ current_run' \in RunType /\ pending_retry' = Idle
           /\ log' \in [Sessions -> Seq(EntryType)]
           /\ compactions_remaining_this_turn' \in 0..max_per_turn
           /\ compactions_this_turn' \in 0..max_per_turn
           /\ reactive_this_turn' = 0
           /\ runs_this_turn' \in 0..(max_retries + 2)
           /\ lost' \subseteq Turns
           /\ current_run'.active \/ loop' = "failed"
           /\ RunXorRetry' /\ Ladder' /\ PromptNamed'
<1> USE ConstantTypes
<1>1. turn \in 0..MaxPrompts /\ session \in Sessions
  BY DEF IInv, TypeOK
<1>2. log' \in [Sessions -> Seq(EntryType)]
  BY <1>1, LoggedType DEF StartPromptRun
<1>3. ASSUME NEW compacted \in {0, 1},
             compactions_remaining_this_turn' = max_per_turn - compacted,
             compactions_this_turn' = compacted,
             current_run' = Run(turn, FALSE, FALSE, 0), pending_retry' = Idle,
             runs_this_turn' = 1, loop' = "looping", lost' = lost \cup gone
      PROVE  /\ current_run' \in RunType /\ current_run'.active
             /\ lost' \subseteq Turns /\ runs_this_turn' \in 0..(max_retries + 2)
             /\ compactions_remaining_this_turn' \in 0..max_per_turn
             /\ compactions_this_turn' \in 0..max_per_turn
             /\ RunXorRetry' /\ Ladder' /\ PromptNamed'
  <2>1. current_run' \in RunType /\ current_run'.active
    BY <1>1, <1>3 DEF Run, RunType
  <2>2. lost' \subseteq Turns
    BY <1>3 DEF IInv, TypeOK
  <2>3. RunXorRetry'
    BY <1>3 DEF Idle, RunXorRetry
  <2>4. RunsPerTurnBounded'
    BY <1>3 DEF Run, Idle, RunsPerTurnBounded
  <2>5. compactions_this_turn' + compactions_remaining_this_turn' = max_per_turn
    BY <1>3
  <2>6. ~current_run'.already_compacted /\ ~pending_retry'.armed
    BY <1>3 DEF Run, Idle
  <2>7. reactive_this_turn' = 0
    BY DEF StartPromptRun
  <2>8. Ladder'
    BY <2>4, <2>5, <2>6, <2>7 DEF Ladder, CompactionsPerTurnBounded
  <2>9. /\ runs_this_turn' \in 0..(max_retries + 2)
        /\ compactions_remaining_this_turn' \in 0..max_per_turn
        /\ compactions_this_turn' \in 0..max_per_turn
    BY <1>3
  <2>10. PromptNamed'
    BY <1>3 DEF PromptNamed, Run, Idle
  <2> QED BY <2>1, <2>2, <2>3, <2>8, <2>9, <2>10
<1>4. ASSUME compactions_remaining_this_turn' = max_per_turn,
             compactions_this_turn' = 0, runs_this_turn' = 0,
             Fatal(gone \cup {turn})
      PROVE  /\ loop' = "failed" /\ current_run' \in RunType
             /\ pending_retry' = Idle /\ lost' \subseteq Turns
             /\ RunXorRetry' /\ Ladder' /\ PromptNamed'
  <2>1. loop' = "failed" /\ current_run' = NoRun /\ pending_retry' = Idle
        /\ lost' \subseteq Turns
    BY <1>4 DEF Fatal, IInv, TypeOK
  <2>2. reactive_this_turn' = 0
    BY DEF StartPromptRun
  <2> QED
    BY <1>4, <2>1, <2>2, NoRunInType
       DEF NoRun, Idle, RunXorRetry, Ladder, RunsPerTurnBounded,
           CompactionsPerTurnBounded, PromptNamed
<1>5. \/ /\ \E compacted \in {0, 1} :
             /\ compactions_remaining_this_turn' = max_per_turn - compacted
             /\ compactions_this_turn' = compacted
         /\ current_run' = Run(turn, FALSE, FALSE, 0) /\ pending_retry' = Idle
         /\ runs_this_turn' = 1 /\ loop' = "looping" /\ lost' = lost \cup gone
      \/ /\ compactions_remaining_this_turn' = max_per_turn
         /\ compactions_this_turn' = 0 /\ runs_this_turn' = 0
         /\ Fatal(gone \cup {turn})
  BY DEF StartPromptRun
<1>6. reactive_this_turn' = 0
  BY DEF StartPromptRun
<1>7. CASE \E compacted \in {0, 1} :
             /\ compactions_remaining_this_turn' = max_per_turn - compacted
             /\ compactions_this_turn' = compacted
             /\ current_run' = Run(turn, FALSE, FALSE, 0)
             /\ pending_retry' = Idle /\ runs_this_turn' = 1
             /\ loop' = "looping" /\ lost' = lost \cup gone
  BY <1>2, <1>3, <1>6, <1>7
<1>8. CASE /\ compactions_remaining_this_turn' = max_per_turn
           /\ compactions_this_turn' = 0 /\ runs_this_turn' = 0
           /\ Fatal(gone \cup {turn})
  BY <1>2, <1>4, <1>6, <1>8
<1> QED BY <1>5, <1>7, <1>8

\* The quit check keeps the loop's type.
LEMMA QuitCheckType ==
    ASSUME QuitCheck PROVE loop' \in {"looping", "exited"}
BY DEF QuitCheck

\* The end of a turn keeps IInv: whether or not a follow-up was queued.
LEMMA AfterRunLemma ==
    ASSUME IInv, RunEnds, NEW L \in [Sessions -> Seq(EntryType)],
           NEW gone \in SUBSET Turns, AfterRun(L, gone)
    PROVE  IInv'
<1> USE ConstantTypes
<1>1. /\ channel_open' \in BOOLEAN /\ session' \in Sessions
      /\ created' \subseteq Sessions /\ prompts' \in 0..MaxPrompts
  BY DEF RunEnds, IInv, TypeOK
<1>2. CASE /\ queued_prompts # <<>>
           /\ StartPromptRun(Head(queued_prompts), L, gone)
           /\ queued_prompts' = Tail(queued_prompts)
           /\ UNCHANGED quitting
  <2>1. Head(queued_prompts) \in Turns /\ queued_prompts' \in Seq(Turns)
    BY <1>2 DEF IInv, TypeOK
  <2>2. quitting' \in BOOLEAN
    BY <1>2 DEF IInv, TypeOK
  <2>3. /\ loop' \in {"looping", "failed"}
        /\ current_run' \in RunType /\ pending_retry' = Idle
        /\ log' \in [Sessions -> Seq(EntryType)]
        /\ compactions_remaining_this_turn' \in 0..max_per_turn
        /\ compactions_this_turn' \in 0..max_per_turn
        /\ reactive_this_turn' = 0
        /\ runs_this_turn' \in 0..(max_retries + 2)
        /\ lost' \subseteq Turns
        /\ current_run'.active \/ loop' = "failed"
        /\ RunXorRetry' /\ Ladder' /\ PromptNamed'
    BY <1>2, <2>1, StartPromptRunLemma
  <2>4. pending_retry' \in RetryType /\ reactive_this_turn' \in 0..1
    BY <2>3, NoRunInType
  <2>5. TypeOK'
    BY <1>1, <2>1, <2>2, <2>3, <2>4 DEF TypeOK
  <2>6. NoStrandedFollowUp'
    BY <2>3 DEF NoStrandedFollowUp
  <2> QED BY <2>3, <2>5, <2>6 DEF IInv
<1>3. CASE /\ queued_prompts = <<>>
           /\ current_run' = NoRun
           /\ log' = L
           /\ lost' = lost \cup gone
           /\ quitting' = (quitting \/ exit_after_run)
           /\ UNCHANGED <<pending_retry, queued_prompts, budget,
                          runs_this_turn, reactive_this_turn>>
           /\ QuitCheck
  <2>1. quitting' \in BOOLEAN
    BY <1>3
  <2>2. loop' \in {"looping", "exited"}
    BY <1>3, QuitCheckType
  <2>3. TypeOK'
    BY <1>1, <1>3, <2>1, <2>2, NoRunInType DEF TypeOK, IInv, budget
  <2>4. ~current_run'.active /\ ~pending_retry'.armed
    BY <1>3 DEF NoRun, IInv, RunXorRetry, RunEnds
  <2>5. RunXorRetry' /\ Ladder' /\ PromptNamed'
    BY <1>3, <2>4
       DEF IInv, RunXorRetry, Ladder, RunsPerTurnBounded,
           CompactionsPerTurnBounded, budget, PromptNamed
  <2>6. NoStrandedFollowUp'
    BY <1>3 DEF NoStrandedFollowUp
  <2> QED BY <2>3, <2>5, <2>6 DEF IInv
<1> QED BY <1>2, <1>3 DEF AfterRun

-----------------------------------------------------------------------------
LEMMA InitIInv == ASSUME Init PROVE IInv
<1> USE ConstantTypes
<1>1. log \in [Sessions -> Seq(EntryType)] /\ queued_prompts \in Seq(Turns)
  BY DEF Init
<1>2. current_run \in RunType /\ pending_retry \in RetryType
  BY NoRunInType DEF Init
<1>3. channel_open \in BOOLEAN /\ quitting \in BOOLEAN
  BY DEF Init
<1>4. /\ compactions_remaining_this_turn \in 0..max_per_turn
      /\ prompts \in 0..MaxPrompts /\ runs_this_turn \in 0..(max_retries + 2)
      /\ compactions_this_turn \in 0..max_per_turn /\ reactive_this_turn \in 0..1
  BY DEF Init
<1>5. /\ loop \in {"looping", "exited", "failed"} /\ session \in Sessions
      /\ created \subseteq Sessions /\ lost \subseteq Turns
  BY DEF Init
<1>6. TypeOK
  BY <1>1, <1>2, <1>3, <1>4, <1>5 DEF TypeOK
<1> QED
  BY <1>6 DEF PromptNamed, Init, IInv, RunXorRetry, NoStrandedFollowUp, Ladder, NoRun, Idle,
              RunsPerTurnBounded, CompactionsPerTurnBounded

\* Every end of the active run keeps IInv.
LEMMA RunResultIInv == ASSUME IInv, RunResult PROVE IInv'
<1> USE ConstantTypes
<1>1. RunEnds
  BY DEF RunResult, RunCompletes, RunPanics, RunFails, CompactAndContinue,
         ArmRetry, GiveUpOnRun
<1>2. /\ current_run \in RunType /\ current_run.active
      /\ log \in [Sessions -> Seq(EntryType)]
      /\ session \in Sessions /\ loop = "looping"
  BY <1>1 DEF RunEnds, IInv, TypeOK
<1>3. FinishRun \in [Sessions -> Seq(EntryType)]
  BY <1>2, LoggedType DEF FinishRun, RunType
<1>4. /\ channel_open' \in BOOLEAN /\ session' \in Sessions
      /\ created' \subseteq Sessions /\ prompts' \in 0..MaxPrompts
  BY <1>1 DEF RunEnds, IInv, TypeOK
<1>5. CASE RunCompletes
  BY <1>1, <1>3, <1>5, AfterRunLemma DEF RunCompletes
<1>6. CASE RunPanics
  <2>1. {current_run.turn} \in SUBSET Turns
    BY <1>2 DEF IInv, PromptNamed
  <2> QED
    BY <1>1, <1>2, <1>6, <2>1, AfterRunLemma DEF RunPanics
<1>7. ASSUME NEW error \in UiErrors, GiveUpOnRun(error) PROVE IInv'
  BY <1>1, <1>3, <1>7, AfterRunLemma DEF GiveUpOnRun
<1>8. ASSUME NEW error \in UiErrors, CompactAndContinue(error) PROVE IInv'
  <2>1. /\ ~current_run.already_compacted
        /\ compactions_remaining_this_turn > 0
    <3>1. /\ current_run.retry_attempt \in 0..max_retries
          /\ current_run.already_compacted \in BOOLEAN
          /\ compactions_remaining_this_turn \in Nat
      BY <1>2 DEF RunType, IInv, TypeOK
    <3> QED BY <1>8, <3>1, DecideCompact DEF CompactAndContinue, Decision
  <2>2. reactive_this_turn = 0 /\ runs_this_turn = 1 + current_run.retry_attempt
    <3>1. reactive_this_turn \in 0..1 /\ reactive_this_turn # 1
      BY <1>2, <2>1 DEF IInv, TypeOK, Ladder, CompactionsPerTurnBounded
    <3>2. runs_this_turn = 1 + current_run.retry_attempt + 0
      BY <1>2, <2>1 DEF IInv, Ladder, RunsPerTurnBounded
    <3>3. current_run.retry_attempt \in Nat
      BY <1>2 DEF RunType
    <3> QED BY <3>1, <3>2, <3>3
  <2>3. /\ current_run' = Run(current_run.turn, FALSE, TRUE,
                              current_run.retry_attempt)
        /\ pending_retry' = Idle /\ runs_this_turn' = runs_this_turn + 1
        /\ reactive_this_turn' = reactive_this_turn + 1
        /\ compactions_this_turn' = compactions_this_turn + 1
        /\ compactions_remaining_this_turn' = compactions_remaining_this_turn - 1
    BY <1>8 DEF CompactAndContinue, StartContinuationRun
  <2>4. current_run' \in RunType /\ current_run'.active
    BY <1>2, <2>3 DEF Run, RunType
  <2>5. reactive_this_turn' = 1 /\ runs_this_turn' = 2 + current_run.retry_attempt
    BY <1>2, <2>2, <2>3 DEF RunType
  <2>6. /\ compactions_this_turn' \in 0..max_per_turn
        /\ compactions_remaining_this_turn' \in 0..max_per_turn
        /\ compactions_this_turn' + compactions_remaining_this_turn' = max_per_turn
    BY <2>1, <2>3 DEF IInv, TypeOK, Ladder, CompactionsPerTurnBounded
  <2>7. runs_this_turn' \in 0..(max_retries + 2)
    BY <1>2, <2>5 DEF RunType
  <2>8. TypeOK'
    <3>1. /\ UNCHANGED <<loop, quitting, queued_prompts, log, lost>>
      BY <1>8 DEF CompactAndContinue
    <3>2. quitting' \in BOOLEAN /\ loop' \in {"looping", "exited", "failed"}
      BY <3>1 DEF IInv, TypeOK
    <3>3. /\ queued_prompts' \in Seq(Turns) /\ lost' \subseteq Turns
          /\ log' \in [Sessions -> Seq(EntryType)]
      BY <3>1 DEF IInv, TypeOK
    <3>4. pending_retry' \in RetryType /\ reactive_this_turn' \in 0..1
      BY <2>3, <2>5, NoRunInType
    <3> QED
      BY <1>4, <2>4, <2>6, <2>7, <3>2, <3>3, <3>4 DEF TypeOK
  <2>9. RunXorRetry' /\ NoStrandedFollowUp' /\ PromptNamed'
    BY <1>2, <2>3, <2>4
       DEF RunXorRetry, NoStrandedFollowUp, PromptNamed, Run, Idle, IInv
  <2>10. RunsPerTurnBounded'
    BY <1>2, <2>3, <2>5, <2>7 DEF RunsPerTurnBounded, Run, Idle, RunType
  <2>11. Ladder'
    BY <2>3, <2>5, <2>6, <2>10
       DEF Ladder, CompactionsPerTurnBounded, Run, Idle
  <2> QED BY <2>8, <2>9, <2>11 DEF IInv
<1>9. ASSUME NEW error \in UiErrors, ArmRetry(error) PROVE IInv'
  <2>1. /\ current_run.retry_attempt \in 0..max_retries
        /\ current_run.already_compacted \in BOOLEAN
        /\ compactions_remaining_this_turn \in Nat
    BY <1>2 DEF RunType, IInv, TypeOK
  <2>2. /\ Decision(error).attempt = current_run.retry_attempt + 1
        /\ current_run.retry_attempt + 1 \in 0..max_retries
    BY <1>9, <2>1, DecideRetry DEF ArmRetry, Decision
  <2>3. /\ pending_retry' = Armed(current_run.turn,
                                  current_run.retry_attempt + 1,
                                  current_run.already_compacted)
        /\ current_run' = NoRun /\ queued_prompts' = <<>>
    BY <1>9, <2>2 DEF ArmRetry
  <2>4. pending_retry' \in RetryType /\ current_run' \in RunType
    BY <1>2, <2>1, <2>2, <2>3, NoRunInType DEF Armed, RetryType, RunType
  <2>5. TypeOK'
    <3>1. /\ UNCHANGED <<loop, quitting, queued_prompts, log, lost, runs_this_turn>>
          /\ UNCHANGED <<compactions_remaining_this_turn, compactions_this_turn,
                         reactive_this_turn>>
      BY <1>9 DEF ArmRetry, budget
    <3>2. quitting' \in BOOLEAN /\ loop' \in {"looping", "exited", "failed"}
      BY <3>1 DEF IInv, TypeOK
    <3>3. /\ queued_prompts' \in Seq(Turns) /\ lost' \subseteq Turns
          /\ log' \in [Sessions -> Seq(EntryType)]
      BY <3>1 DEF IInv, TypeOK
    <3>4. /\ compactions_remaining_this_turn' \in 0..max_per_turn
          /\ runs_this_turn' \in 0..(max_retries + 2)
          /\ compactions_this_turn' \in 0..max_per_turn
          /\ reactive_this_turn' \in 0..1
      BY <3>1 DEF IInv, TypeOK
    <3> QED BY <1>4, <2>4, <3>2, <3>3, <3>4 DEF TypeOK
  <2>6. RunXorRetry' /\ NoStrandedFollowUp' /\ PromptNamed'
    BY <1>2, <2>3
       DEF RunXorRetry, NoStrandedFollowUp, PromptNamed, NoRun, Armed, IInv
  <2>7. Ladder'
    BY <1>2, <1>9, <2>1, <2>3
       DEF ArmRetry, budget, IInv, Ladder, RunsPerTurnBounded,
           CompactionsPerTurnBounded, NoRun, Armed
  <2> QED BY <2>5, <2>6, <2>7 DEF IInv
<1> QED
  BY <1>5, <1>6, <1>7, <1>8, <1>9 DEF RunResult, RunFails

\* A continuation of the turn the retry was armed for keeps IInv.
LEMMA RetryDeadlineFiresIInv == ASSUME IInv, RetryDeadlineFires PROVE IInv'
<1> USE ConstantTypes
<1>1. /\ pending_retry \in RetryType /\ pending_retry.armed
      /\ pending_retry.turn \in Turns /\ loop = "looping"
  BY DEF RetryDeadlineFires, IInv, TypeOK, PromptNamed
<1>2. /\ current_run' = Run(pending_retry.turn, FALSE,
                            pending_retry.already_compacted,
                            pending_retry.attempt)
      /\ pending_retry' = Idle
      /\ runs_this_turn' = runs_this_turn + 1
  BY DEF RetryDeadlineFires, StartContinuationRun
<1>3. /\ UNCHANGED <<loop, channel_open, quitting, queued_prompts, session>>
      /\ UNCHANGED <<log, created, prompts, reactive_this_turn, lost>>
      /\ UNCHANGED <<compactions_remaining_this_turn, compactions_this_turn>>
  BY DEF RetryDeadlineFires, budget
<1>4. current_run' \in RunType /\ pending_retry' \in RetryType
  BY <1>1, <1>2, NoRunInType DEF Run, RunType, RetryType
<1>5. runs_this_turn = pending_retry.attempt
                         + (IF pending_retry.already_compacted THEN 1 ELSE 0)
  BY <1>1 DEF IInv, Ladder, RunsPerTurnBounded
<1>6. /\ runs_this_turn' = 1 + pending_retry.attempt
                             + (IF pending_retry.already_compacted THEN 1 ELSE 0)
      /\ runs_this_turn' \in 0..(max_retries + 2)
  BY <1>1, <1>2, <1>5 DEF RetryType
<1>7. TypeOK'
  <2>1. /\ quitting' \in BOOLEAN /\ channel_open' \in BOOLEAN
        /\ loop' \in {"looping", "exited", "failed"}
    BY <1>3 DEF IInv, TypeOK
  <2>2. /\ queued_prompts' \in Seq(Turns) /\ lost' \subseteq Turns
        /\ log' \in [Sessions -> Seq(EntryType)]
        /\ session' \in Sessions /\ created' \subseteq Sessions
    BY <1>3 DEF IInv, TypeOK
  <2>3. /\ compactions_remaining_this_turn' \in 0..max_per_turn
        /\ compactions_this_turn' \in 0..max_per_turn
        /\ reactive_this_turn' \in 0..1 /\ prompts' \in 0..MaxPrompts
    BY <1>3 DEF IInv, TypeOK
  <2> QED BY <1>4, <1>6, <2>1, <2>2, <2>3 DEF TypeOK
<1>8. RunXorRetry' /\ NoStrandedFollowUp' /\ PromptNamed'
  BY <1>1, <1>2
     DEF RunXorRetry, NoStrandedFollowUp, PromptNamed, Run, Idle
<1>9. RunsPerTurnBounded'
  BY <1>1, <1>2, <1>6 DEF RunsPerTurnBounded, Run, Idle, RetryType
<1>10. CompactionsPerTurnBounded'
  BY <1>1, <1>2, <1>3
     DEF IInv, Ladder, CompactionsPerTurnBounded, Run, Idle
<1>11. Ladder'
  BY <1>2, <1>9, <1>10 DEF Ladder, Idle
<1> QED BY <1>7, <1>8, <1>11 DEF IInv

\* A compaction by the gate of the running task keeps IInv.
LEMMA GateCompactsIInv == ASSUME IInv, GateCompacts PROVE IInv'
<1> USE ConstantTypes
<1>1. /\ compactions_remaining_this_turn' = compactions_remaining_this_turn - 1
      /\ compactions_this_turn' = compactions_this_turn + 1
      /\ compactions_remaining_this_turn > 0
  BY DEF GateCompacts
<1>2. /\ UNCHANGED <<loop, channel_open, quitting, queued_prompts, session>>
      /\ UNCHANGED <<log, created, prompts, reactive_this_turn, lost>>
      /\ UNCHANGED <<current_run, pending_retry, runs_this_turn>>
  BY DEF GateCompacts
<1>3. /\ compactions_this_turn' + compactions_remaining_this_turn' = max_per_turn
      /\ compactions_remaining_this_turn' \in 0..max_per_turn
      /\ compactions_this_turn' \in 0..max_per_turn
  BY <1>1 DEF IInv, TypeOK, Ladder, CompactionsPerTurnBounded
<1>4. TypeOK'
  BY <1>2, <1>3 DEF IInv, TypeOK
<1>5. RunXorRetry' /\ NoStrandedFollowUp' /\ PromptNamed'
  BY <1>2 DEF IInv, RunXorRetry, NoStrandedFollowUp, PromptNamed
<1>6. Ladder'
  BY <1>2, <1>3
     DEF IInv, Ladder, RunsPerTurnBounded, CompactionsPerTurnBounded
<1> QED BY <1>4, <1>5, <1>6 DEF IInv

-----------------------------------------------------------------------------
(***************************************************************************)
(* The UI actions.                                                         *)
(***************************************************************************)
\* A step that at most cancels the run and the retry, and moves to a session.
LEMMA CancelIInv ==
    ASSUME IInv, loop = "looping",
           loop' \in {"looping", "exited"}, channel_open' \in BOOLEAN,
           quitting' \in BOOLEAN, NEW cancelled \in BOOLEAN,
           current_run' = [current_run EXCEPT !.cancelled = cancelled],
           pending_retry' = Idle,
           log' \in [Sessions -> Seq(EntryType)],
           session' \in Sessions, created' \subseteq Sessions,
           UNCHANGED <<queued_prompts, prompts, budget, runs_this_turn,
                       reactive_this_turn, lost>>
    PROVE  IInv'
<1>1. /\ current_run' \in RunType /\ pending_retry' \in RetryType
      /\ current_run'.active = current_run.active
      /\ current_run'.turn = current_run.turn
      /\ current_run'.retry_attempt = current_run.retry_attempt
      /\ current_run'.already_compacted = current_run.already_compacted
      /\ ~pending_retry'.armed
  BY NoRunInType DEF IInv, TypeOK, RunType, Idle
<1>2. TypeOK'
  BY <1>1 DEF IInv, TypeOK, budget
<1>3. RunXorRetry' /\ NoStrandedFollowUp' /\ PromptNamed'
  BY <1>1 DEF IInv, RunXorRetry, NoStrandedFollowUp, PromptNamed
<1>4. Ladder'
  BY <1>1
     DEF IInv, Ladder, RunsPerTurnBounded, CompactionsPerTurnBounded, budget
<1> QED BY <1>2, <1>3, <1>4 DEF IInv

\* Every UI action keeps IInv.
LEMMA UserStepIInv == ASSUME IInv, UserStep PROVE IInv'
<1> USE ConstantTypes
<1>1. /\ current_run \in RunType /\ session \in Sessions
      /\ log \in [Sessions -> Seq(EntryType)] /\ created \subseteq Sessions
      /\ quitting \in BOOLEAN /\ prompts \in Nat /\ TypeOK
  BY DEF IInv, TypeOK
<1>2. loop = "looping" /\ channel_open' \in BOOLEAN
  BY DEF UserStep, SubmitPrompt, QueuePrompt, AbortAndQueuePrompt, NewPrompt,
         Abort, Quit, RunAffectingChange, CommandFails, NewSession,
         ForkSession, MoveToNewFile, SwitchSession, Command, UiAction
<1>3. AbortPendingRetry(log, session) \in [Sessions -> Seq(EntryType)]
  BY <1>1, AbortPendingRetryType
<1>4. current_run = [current_run EXCEPT !.cancelled = current_run.cancelled]
      /\ current_run.cancelled \in BOOLEAN /\ current_run.active \in BOOLEAN
  BY <1>1 DEF RunType
<1>5. CASE SubmitPrompt
  <2>1. /\ prompts < MaxPrompts /\ prompts' = prompts + 1
        /\ StartPromptRun(prompts + 1, AbortPendingRetry(log, session), {})
    BY <1>5 DEF SubmitPrompt, NewPrompt
  <2>2. UNCHANGED <<quitting, session, created, queued_prompts>>
    BY <1>5 DEF SubmitPrompt, NewPrompt
  <2>3. prompts + 1 \in Turns /\ prompts' \in 0..MaxPrompts
    BY <1>1, <2>1
  <2>4. /\ loop' \in {"looping", "failed"}
        /\ current_run' \in RunType /\ pending_retry' = Idle
        /\ log' \in [Sessions -> Seq(EntryType)]
        /\ compactions_remaining_this_turn' \in 0..max_per_turn
        /\ compactions_this_turn' \in 0..max_per_turn
        /\ reactive_this_turn' = 0
        /\ runs_this_turn' \in 0..(max_retries + 2)
        /\ lost' \subseteq Turns
        /\ current_run'.active \/ loop' = "failed"
        /\ RunXorRetry' /\ Ladder' /\ PromptNamed'
    BY <1>3, <2>1, <2>3, StartPromptRunLemma
  <2>5. /\ quitting' \in BOOLEAN /\ session' \in Sessions
        /\ created' \subseteq Sessions /\ queued_prompts' \in Seq(Turns)
    BY <1>1, <2>2 DEF TypeOK
  <2>6. pending_retry' \in RetryType /\ reactive_this_turn' \in 0..1
    BY <2>4, NoRunInType
  <2>7. TypeOK'
    BY <1>2, <2>3, <2>4, <2>5, <2>6 DEF TypeOK
  <2>8. NoStrandedFollowUp'
    BY <2>4 DEF NoStrandedFollowUp
  <2> QED BY <2>4, <2>7, <2>8 DEF IInv
<1>6. CASE QueuePrompt
  <2>1. /\ prompts < MaxPrompts /\ prompts' = prompts + 1 /\ current_run.active
        /\ queued_prompts' = Append(queued_prompts, prompts + 1)
    BY <1>6 DEF QueuePrompt, NewPrompt
  <2>2. /\ UNCHANGED <<loop, quitting, session, created, current_run>>
        /\ UNCHANGED <<pending_retry, log, lost, runs_this_turn>>
        /\ UNCHANGED <<compactions_remaining_this_turn, compactions_this_turn,
                       reactive_this_turn>>
    BY <1>6 DEF QueuePrompt, NewPrompt, budget
  <2>3. prompts' \in 0..MaxPrompts /\ queued_prompts' \in Seq(Turns)
    BY <1>1, <2>1 DEF TypeOK
  <2>4. TypeOK'
    BY <1>1, <1>2, <2>2, <2>3 DEF TypeOK
  <2>5. RunXorRetry' /\ NoStrandedFollowUp' /\ PromptNamed'
    BY <2>1, <2>2 DEF IInv, RunXorRetry, NoStrandedFollowUp, PromptNamed
  <2>6. Ladder'
    BY <2>2
       DEF IInv, Ladder, RunsPerTurnBounded, CompactionsPerTurnBounded
  <2> QED BY <2>4, <2>5, <2>6 DEF IInv
<1>7. CASE AbortAndQueuePrompt
  <2>1. /\ prompts < MaxPrompts /\ prompts' = prompts + 1 /\ current_run.active
        /\ queued_prompts' = <<prompts + 1>> \o queued_prompts
        /\ current_run' = [current_run EXCEPT !.cancelled = TRUE]
    BY <1>7 DEF AbortAndQueuePrompt, NewPrompt
  <2>2. /\ UNCHANGED <<loop, quitting, session, created>>
        /\ UNCHANGED <<pending_retry, log, lost, runs_this_turn>>
        /\ UNCHANGED <<compactions_remaining_this_turn, compactions_this_turn,
                       reactive_this_turn>>
    BY <1>7 DEF AbortAndQueuePrompt, NewPrompt, budget
  <2>3. prompts + 1 \in Turns /\ prompts' \in 0..MaxPrompts
    BY <1>1, <2>1 DEF TypeOK
  <2>4. queued_prompts' \in Seq(Turns)
    BY <1>1, <2>1, <2>3 DEF TypeOK
  <2>5. /\ current_run' \in RunType
        /\ current_run'.active = current_run.active
        /\ current_run'.turn = current_run.turn
        /\ current_run'.retry_attempt = current_run.retry_attempt
        /\ current_run'.already_compacted = current_run.already_compacted
    BY <1>1, <2>1 DEF RunType
  <2>6. TypeOK'
    BY <1>1, <1>2, <2>2, <2>3, <2>4, <2>5 DEF TypeOK
  <2>7. RunXorRetry' /\ NoStrandedFollowUp' /\ PromptNamed'
    BY <2>1, <2>2, <2>5
       DEF IInv, RunXorRetry, NoStrandedFollowUp, PromptNamed
  <2>8. Ladder'
    BY <2>2, <2>5
       DEF IInv, Ladder, RunsPerTurnBounded, CompactionsPerTurnBounded
  <2> QED BY <2>6, <2>7, <2>8 DEF IInv
<1>8. CASE Abort
  <2>1. current_run' = [current_run EXCEPT !.cancelled = current_run.active]
        /\ pending_retry' = Idle /\ log' = AbortPendingRetry(log, session)
        /\ QuitCheck
    BY <1>8 DEF Abort
  <2>2. UNCHANGED <<queued_prompts, prompts, budget, runs_this_turn,
                    reactive_this_turn, lost, quitting, session, created>>
    BY <1>8 DEF Abort, Command
  <2> QED
    BY <1>1, <1>2, <1>3, <1>4, <2>1, <2>2, QuitCheckType, CancelIInv
<1>9. CASE Quit
  <2>1. current_run' = [current_run EXCEPT !.cancelled = current_run.active]
        /\ pending_retry' = Idle /\ log' = AbortPendingRetry(log, session)
        /\ quitting' = TRUE /\ QuitCheck
    BY <1>9 DEF Quit
  <2>2. UNCHANGED <<queued_prompts, prompts, budget, runs_this_turn,
                    reactive_this_turn, lost, session, created>>
    BY <1>9 DEF Quit, Command
  <2> QED
    BY <1>1, <1>2, <1>3, <1>4, <2>1, <2>2, QuitCheckType, CancelIInv
<1>10. CASE RunAffectingChange
  <2>1. pending_retry' = Idle /\ log' = AbortPendingRetry(log, session)
        /\ QuitCheck
    BY <1>10 DEF RunAffectingChange
  <2>2. UNCHANGED <<queued_prompts, prompts, budget, runs_this_turn, current_run,
                    reactive_this_turn, lost, quitting, session, created>>
    BY <1>10 DEF RunAffectingChange, Command
  <2> QED
    BY <1>1, <1>2, <1>3, <1>4, <2>1, <2>2, QuitCheckType, CancelIInv
<1>11. CASE CommandFails
  <2>1. /\ loop' = "failed" /\ current_run' = NoRun /\ pending_retry' = Idle
        /\ lost' = lost \cup {turn \in Turns : InFlight(turn)}
    BY <1>11 DEF CommandFails, Fatal
  <2>2. /\ UNCHANGED <<quitting, session, log, created, queued_prompts, prompts>>
        /\ UNCHANGED <<compactions_remaining_this_turn, compactions_this_turn>>
        /\ UNCHANGED <<runs_this_turn, reactive_this_turn>>
    BY <1>11 DEF CommandFails, Command, budget
  <2>3. lost' \subseteq Turns
    BY <1>1, <2>1 DEF TypeOK
  <2>4. /\ current_run' \in RunType /\ pending_retry' \in RetryType
        /\ ~current_run'.active /\ ~pending_retry'.armed
    BY <2>1, NoRunInType DEF NoRun, Idle
  <2>5. TypeOK'
    BY <1>1, <1>2, <2>1, <2>2, <2>3, <2>4 DEF TypeOK
  <2>6. RunXorRetry' /\ NoStrandedFollowUp' /\ PromptNamed'
    BY <2>1, <2>4 DEF RunXorRetry, NoStrandedFollowUp, PromptNamed
  <2>7. Ladder'
    BY <2>2, <2>4
       DEF IInv, Ladder, RunsPerTurnBounded, CompactionsPerTurnBounded
  <2> QED BY <2>5, <2>6, <2>7 DEF IInv
<1>12. ASSUME NEW copy \in Seq(EntryType), MoveToNewFile(copy) PROVE IInv'
  <2>1. PICK s \in Sessions \ created :
          session' = s /\ created' = created \cup {s}
          /\ log' = AbortPendingRetry([log EXCEPT ![s] = copy], s)
    BY <1>12 DEF MoveToNewFile
  <2>2. log' \in [Sessions -> Seq(EntryType)]
    BY <1>1, <2>1, AbortPendingRetryType
  <2>3. pending_retry' = Idle /\ QuitCheck
    BY <1>12 DEF MoveToNewFile
  <2>4. UNCHANGED <<queued_prompts, prompts, budget, runs_this_turn, current_run,
                    reactive_this_turn, lost, quitting>>
    BY <1>12 DEF MoveToNewFile, Command
  <2> QED
    BY <1>1, <1>2, <1>4, <2>1, <2>2, <2>3, <2>4, QuitCheckType, CancelIInv
<1>13. CASE NewSession
  <2>1. <<>> \in Seq(EntryType)
    OBVIOUS
  <2> QED BY <1>12, <1>13, <2>1 DEF NewSession
<1>14. CASE ForkSession
  BY <1>1, <1>12, <1>14 DEF ForkSession
<1>15. CASE SwitchSession
  <2>1. PICK s \in created \ {session} :
          session' = s /\ log' = AbortPendingRetry(log, s)
    BY <1>15 DEF SwitchSession
  <2>2. log' \in [Sessions -> Seq(EntryType)] /\ session' \in Sessions
    BY <1>1, <2>1, AbortPendingRetryType
  <2>3. pending_retry' = Idle /\ QuitCheck
    BY <1>15 DEF SwitchSession
  <2>4. UNCHANGED <<queued_prompts, prompts, budget, runs_this_turn, current_run,
                    reactive_this_turn, lost, quitting, created>>
    BY <1>15 DEF SwitchSession, Command
  <2> QED
    BY <1>1, <1>2, <1>4, <2>2, <2>3, <2>4, QuitCheckType, CancelIInv
<1> QED
  BY <1>5, <1>6, <1>7, <1>8, <1>9, <1>10, <1>11, <1>13, <1>14, <1>15
     DEF UserStep

\* A channel that closes, and a controller that notices, keep IInv.
LEMMA ChannelIInv == ASSUME IInv, CloseChannel \/ SeeClosedChannel PROVE IInv'
<1>1. CASE CloseChannel
  <2>1. /\ channel_open' = FALSE
        /\ UNCHANGED <<loop, current_run, pending_retry, quitting>>
        /\ UNCHANGED <<queued_prompts, session, log, created, prompts, lost>>
        /\ UNCHANGED <<compactions_remaining_this_turn, compactions_this_turn>>
        /\ UNCHANGED <<runs_this_turn, reactive_this_turn>>
    BY <1>1 DEF CloseChannel, budget
  <2>2. TypeOK'
    BY <2>1 DEF IInv, TypeOK
  <2>3. RunXorRetry' /\ NoStrandedFollowUp' /\ PromptNamed'
    BY <2>1 DEF IInv, RunXorRetry, NoStrandedFollowUp, PromptNamed
  <2>4. Ladder'
    BY <2>1
       DEF IInv, Ladder, RunsPerTurnBounded, CompactionsPerTurnBounded
  <2> QED BY <2>2, <2>3, <2>4 DEF IInv
<1>2. CASE SeeClosedChannel
  <2>1. /\ current_run \in RunType /\ session \in Sessions
        /\ log \in [Sessions -> Seq(EntryType)] /\ TypeOK
        /\ created \subseteq Sessions
        /\ channel_open \in BOOLEAN /\ current_run.active \in BOOLEAN
    BY DEF IInv, TypeOK, RunType
  <2>2. /\ loop = "looping" /\ loop' \in {"looping", "exited"}
        /\ current_run' = [current_run EXCEPT !.cancelled = current_run.active]
        /\ log' = AbortPendingRetry(log, session) /\ pending_retry' = Idle
    BY <1>2 DEF SeeClosedChannel
  <2>3. quitting' \in BOOLEAN
    BY <1>2 DEF SeeClosedChannel
  <2>4. UNCHANGED <<channel_open, queued_prompts, budget, session, created,
                    prompts, runs_this_turn, reactive_this_turn, lost>>
    BY <1>2 DEF SeeClosedChannel
  <2>5. log' \in [Sessions -> Seq(EntryType)]
    BY <2>1, <2>2, AbortPendingRetryType
  <2> QED BY <2>1, <2>2, <2>3, <2>4, <2>5, CancelIInv
<1> QED BY <1>1, <1>2

LEMMA StutterIInv == ASSUME IInv, UNCHANGED vars PROVE IInv'
<1>1. TypeOK'
  BY DEF IInv, TypeOK, vars
<1>2. RunXorRetry' /\ NoStrandedFollowUp' /\ PromptNamed'
  BY DEF IInv, RunXorRetry, NoStrandedFollowUp, PromptNamed, vars
<1>3. Ladder'
  BY DEF IInv, Ladder, RunsPerTurnBounded, CompactionsPerTurnBounded, vars
<1> QED BY <1>1, <1>2, <1>3 DEF IInv

-----------------------------------------------------------------------------
\* IInv is inductive, so it holds in every state the controller reaches.
THEOREM Invariance == Spec => []IInv
<1>1. Init => IInv
  BY InitIInv
<1>2. IInv /\ [Next]_vars => IInv'
  BY RunResultIInv, GateCompactsIInv, RetryDeadlineFiresIInv, UserStepIInv,
     ChannelIInv, StutterIInv DEF Next
<1> QED BY <1>1, <1>2, PTL DEF Spec

\* Every variable keeps its type; in particular `compactions_remaining_this_turn`,
\* a u32 that three paths decrement, never wraps.
THEOREM TypeCorrect == Spec => []TypeOK
<1>1. IInv => TypeOK
  BY DEF IInv
<1> QED BY <1>1, Invariance, PTL

\* The select of `run` never has both an active run and an armed retry to poll.
THEOREM RunExcludesRetry == Spec => []RunXorRetry
<1>1. IInv => RunXorRetry
  BY DEF IInv
<1> QED BY <1>1, Invariance, PTL

\* No path out of a run leaves the queue of follow-ups without a run to drain it.
THEOREM FollowUpsHaveADriver == Spec => []NoStrandedFollowUp
<1>1. IInv => NoStrandedFollowUp
  BY DEF IInv
<1> QED BY <1>1, Invariance, PTL

\* One prompt spawns at most max_retries + 2 runs, and the attempt carried through
\* the backoff is the number of them.
THEOREM RetriesBounded == Spec => []RunsPerTurnBounded
<1>1. IInv => RunsPerTurnBounded
  BY DEF IInv, Ladder
<1> QED BY <1>1, Invariance, PTL

\* One turn compacts at most max_per_turn times, and reactively at most once.
THEOREM CompactionsBounded == Spec => []CompactionsPerTurnBounded
<1>1. IInv => CompactionsPerTurnBounded
  BY DEF IInv, Ladder
<1> QED BY <1>1, Invariance, PTL

\* The four together: whatever the user, the providers and the timer do, the loop's
\* books on a turn (its run or its retry, its follow-ups, its budgets) stay right.
THEOREM BookkeepingSound == Spec => []TurnBookkeeping
<1> QED BY RunExcludesRetry, FollowUpsHaveADriver, RetriesBounded,
           CompactionsBounded, PTL DEF TurnBookkeeping

-----------------------------------------------------------------------------
(***************************************************************************)
(* What the sessions hold: every prompt that was started is accounted for, *)
(* none is answered twice, and follow-ups start in queue order.            *)
(***************************************************************************)
Logs == [Sessions -> Seq(EntryType)]

\* The turn that a run or an armed retry is answering, as a set.
Open ==
    IF current_run.active THEN {current_run.turn}
    ELSE IF pending_retry.armed THEN {pending_retry.turn} ELSE {}

-----------------------------------------------------------------------------
(***************************************************************************)
(* The invariant, about a log L whose active session is `here`, with the   *)
(* turns `open` in flight and the turns `gone` lost; `made` sessions exist *)
(* and n prompts were submitted.                                           *)
(***************************************************************************)
\* Files that do not exist are empty, and no log names a prompt of the future.
Shaped(L, here, made, n) ==
    /\ here \in made /\ made \subseteq Sessions
    /\ \A s \in Sessions \ made : L[s] = <<>>
    /\ \A s \in Sessions : \A i \in 1..Len(L[s]) : L[s][i].turn \in 1..n

\* The turn in flight is the last message of the active session, unanswered.
Pending(L, here, open) ==
    \A turn \in open :
        /\ Len(L[here]) > 0 /\ L[here][Len(L[here])] = Entry("user", turn)
        /\ \A s \in Sessions : \A i \in 1..Len(L[s]) :
              L[s][i].turn = turn => L[s][i].kind = "user"

OneAnswer(L) ==
    \A s \in Sessions : \A i, j \in 1..Len(L[s]) :
        L[s][i].kind # "user" /\ L[s][j].kind # "user" /\ L[s][i].turn = L[s][j].turn
            => i = j

AnsweredBehind(L, s, i) ==
    i < Len(L[s]) /\ L[s][i + 1].kind # "user" /\ L[s][i + 1].turn = L[s][i].turn
LeftElsewhere(L, s, turn) ==
    \E t \in Sessions \ {s} : \E j \in 1..Len(L[t]) : L[t][j] = Entry("breadcrumb", turn)

Accounted(L, here, open, gone) ==
    \A s \in Sessions : \A i \in 1..Len(L[s]) :
        L[s][i].kind = "user" =>
            \/ AnsweredBehind(L, s, i)
            \/ i = Len(L[s]) /\ s = here /\ L[s][i].turn \in open
            \/ L[s][i].turn \in gone
            \/ LeftElsewhere(L, s, L[s][i].turn)

Kept(L, here, open, gone, made, n) ==
    /\ L \in Logs
    /\ Shaped(L, here, made, n)
    /\ Pending(L, here, open)
    /\ OneAnswer(L)
    /\ Accounted(L, here, open, gone)

\* No log holds a message of the turn.
Unstarted(L, turn) == \A s \in Sessions : \A i \in 1..Len(L[s]) : L[s][i].turn # turn

\* What waits in the queue is distinct, submitted and in no log.
Queued(L, queue, n) ==
    \A k \in 1..Len(queue) :
        /\ queue[k] \in 1..n /\ Unstarted(L, queue[k])
        /\ \A j \in 1..Len(queue) : queue[j] = queue[k] => j = k

LogInv ==
    /\ Kept(log, session, Open, lost, created, prompts)
    /\ Queued(log, queued_prompts, prompts)

-----------------------------------------------------------------------------
(***************************************************************************)
(* What one more message, or one more file, does to a log.                 *)
(***************************************************************************)
\* M is L with one more message at the end of s.
OneMore(L, M, kind, turn, s) ==
    /\ M \in Logs
    /\ \A t \in Sessions : t # s => M[t] = L[t]
    /\ Len(M[s]) = Len(L[s]) + 1 /\ Len(L[s]) \in Nat
    /\ \A i \in 1..Len(L[s]) : M[s][i] = L[s][i]
    /\ M[s][Len(L[s]) + 1] = Entry(kind, turn)

LEMMA LoggedEntries ==
    ASSUME NEW L \in Logs, NEW s \in Sessions,
           NEW kind \in {"user", "reply", "breadcrumb"}, NEW turn \in 0..MaxPrompts
    PROVE  OneMore(L, Logged(L, kind, turn, s), kind, turn, s)
<1>1. L[s] \in Seq(EntryType)
  BY DEF Logs
<1>2. Entry(kind, turn) \in EntryType
  BY DEF Entry, EntryType
<1>3. Logged(L, kind, turn, s) = [L EXCEPT ![s] = Append(L[s], Entry(kind, turn))]
  BY DEF Logged
<1>4. Logged(L, kind, turn, s) \in Logs
  BY LoggedType DEF Logs
<1>5. Logged(L, kind, turn, s)[s] = Append(L[s], Entry(kind, turn))
  BY <1>3 DEF Logs
<1>6. \A t \in Sessions : t # s => Logged(L, kind, turn, s)[t] = L[t]
  BY <1>3 DEF Logs
<1> QED BY <1>1, <1>2, <1>4, <1>5, <1>6 DEF OneMore

\* A turn that is in no log stays so when another one's message is added.
LEMMA UnstartedLogged ==
    ASSUME NEW L \in Logs, NEW s \in Sessions,
           NEW kind \in {"user", "reply", "breadcrumb"}, NEW turn \in 0..MaxPrompts,
           NEW other, other # turn, Unstarted(L, other)
    PROVE  Unstarted(Logged(L, kind, turn, s), other)
<1> DEFINE M == Logged(L, kind, turn, s)
<1>a. OneMore(L, M, kind, turn, s)
  BY LoggedEntries
<1>1. /\ M \in Logs
      /\ \A t \in Sessions : t # s => M[t] = L[t]
      /\ Len(M[s]) = Len(L[s]) + 1 /\ Len(L[s]) \in Nat
      /\ \A i \in 1..Len(L[s]) : M[s][i] = L[s][i]
      /\ M[s][Len(L[s]) + 1] = Entry(kind, turn)
  BY <1>a DEF OneMore
<1> HIDE DEF M
<1>2. ASSUME NEW t \in Sessions, NEW i \in 1..Len(M[t]) PROVE M[t][i].turn # other
  <2>1. CASE t # s
    BY <1>1, <1>2, <2>1 DEF Unstarted
  <2>2. CASE t = s /\ i = Len(L[s]) + 1
    BY <1>1, <2>2 DEF Entry
  <2>3. CASE t = s /\ i # Len(L[s]) + 1
    <3>1. i \in 1..Len(L[s])
      BY <1>1, <1>2, <2>3
    <3> QED BY <1>1, <2>3, <3>1 DEF Unstarted
  <2> QED BY <2>1, <2>2, <2>3
<1> QED BY <1>2 DEF Unstarted, M

\* A message added to a log keeps what is accounted for, the last message of the
\* file it is added to excepted.
LEMMA AccountedLogged ==
    ASSUME NEW L \in Logs, NEW s \in Sessions,
           NEW kind \in {"user", "reply", "breadcrumb"}, NEW turn \in 0..MaxPrompts,
           NEW here, NEW open, NEW gone, Accounted(L, here, open, gone),
           NEW t \in Sessions, NEW i \in 1..Len(L[t]), L[t][i].kind = "user"
    PROVE  LET M == Logged(L, kind, turn, s)
           IN  \/ AnsweredBehind(M, t, i)
               \/ i = Len(L[t]) /\ t = here /\ L[t][i].turn \in open
               \/ L[t][i].turn \in gone
               \/ LeftElsewhere(M, t, L[t][i].turn)
<1> DEFINE M == Logged(L, kind, turn, s)
<1>a. OneMore(L, M, kind, turn, s)
  BY LoggedEntries
<1>1. /\ M \in Logs
      /\ \A r \in Sessions : r # s => M[r] = L[r]
      /\ Len(M[s]) = Len(L[s]) + 1 /\ Len(L[s]) \in Nat
      /\ \A k \in 1..Len(L[s]) : M[s][k] = L[s][k]
      /\ M[s][Len(L[s]) + 1] = Entry(kind, turn)
  BY <1>a DEF OneMore
<1> HIDE DEF M
<1>2. \A r \in Sessions : Len(L[r]) \in Nat /\ Len(M[r]) >= Len(L[r])
  BY <1>1 DEF Logs
<1>3. \A r \in Sessions : \A k \in 1..Len(L[r]) : M[r][k] = L[r][k]
  BY <1>1
<1>4. CASE AnsweredBehind(L, t, i)
  <2>1. i \in 1..Len(L[t]) /\ i + 1 \in 1..Len(L[t]) /\ i < Len(M[t])
    BY <1>2, <1>4 DEF AnsweredBehind
  <2> QED BY <1>3, <1>4, <2>1 DEF AnsweredBehind, M
<1>5. CASE LeftElsewhere(L, t, L[t][i].turn)
  <2>1. PICK r \in Sessions \ {t} : \E j \in 1..Len(L[r]) :
                                        L[r][j] = Entry("breadcrumb", L[t][i].turn)
    BY <1>5 DEF LeftElsewhere
  <2>2. \E j \in 1..Len(M[r]) : M[r][j] = Entry("breadcrumb", L[t][i].turn)
    BY <1>2, <1>3, <2>1
  <2> QED BY <2>1, <2>2 DEF LeftElsewhere, M
<1> QED BY <1>4, <1>5 DEF Accounted

-----------------------------------------------------------------------------
(***************************************************************************)
(* What each thing the controller writes does to Kept.                     *)
(***************************************************************************)
\* The turn in flight is answered in its session.
LEMMA AnswerKept ==
    ASSUME NEW L, NEW here, NEW turn \in 0..MaxPrompts, NEW gone, NEW made, NEW n \in Nat,
           NEW kind \in {"reply", "breadcrumb"}, Kept(L, here, {turn}, gone, made, n)
    PROVE  Kept(Logged(L, kind, turn, here), here, {}, gone, made, n)
<1> DEFINE M == Logged(L, kind, turn, here)
<1>1. L \in Logs /\ here \in Sessions
  BY DEF Kept, Shaped
<1>a. OneMore(L, M, kind, turn, here)
  BY <1>1, LoggedEntries
<1>2. /\ M \in Logs
      /\ \A t \in Sessions : t # here => M[t] = L[t]
      /\ Len(M[here]) = Len(L[here]) + 1 /\ Len(L[here]) \in Nat
      /\ \A i \in 1..Len(L[here]) : M[here][i] = L[here][i]
      /\ M[here][Len(L[here]) + 1] = Entry(kind, turn)
  BY <1>a DEF OneMore
<1>3. /\ Len(L[here]) > 0 /\ L[here][Len(L[here])] = Entry("user", turn)
      /\ \A s \in Sessions : \A i \in 1..Len(L[s]) :
            L[s][i].turn = turn => L[s][i].kind = "user"
  BY DEF Kept, Pending
<1>4. \A t \in Sessions : \A i \in 1..Len(M[t]) :
          \/ i \in 1..Len(L[t]) /\ M[t][i] = L[t][i]
          \/ t = here /\ i = Len(L[here]) + 1 /\ M[t][i] = Entry(kind, turn)
  BY <1>2
<1>5. turn \in 1..n
  BY <1>1, <1>2, <1>3 DEF Kept, Shaped, Entry
<1>6. Shaped(M, here, made, n)
  <2>1. \A s \in Sessions \ made : M[s] = <<>>
    BY <1>2 DEF Kept, Shaped
  <2>2. \A s \in Sessions : \A i \in 1..Len(M[s]) : M[s][i].turn \in 1..n
    BY <1>4, <1>5 DEF Kept, Shaped, Entry
  <2> QED BY <2>1, <2>2 DEF Kept, Shaped
<1>7. OneAnswer(M)
  <2> SUFFICES ASSUME NEW s \in Sessions, NEW i \in 1..Len(M[s]), NEW j \in 1..Len(M[s]),
                      M[s][i].kind # "user", M[s][j].kind # "user",
                      M[s][i].turn = M[s][j].turn
               PROVE  i = j
    BY DEF OneAnswer
  <2>1. CASE i \in 1..Len(L[s]) /\ M[s][i] = L[s][i] /\ j \in 1..Len(L[s]) /\ M[s][j] = L[s][j]
    BY <2>1 DEF Kept, OneAnswer
  <2>2. CASE s = here /\ i = Len(L[here]) + 1 /\ M[s][i] = Entry(kind, turn)
             /\ j \in 1..Len(L[s]) /\ M[s][j] = L[s][j]
    BY <1>3, <2>2 DEF Entry
  <2>3. CASE s = here /\ j = Len(L[here]) + 1 /\ M[s][j] = Entry(kind, turn)
             /\ i \in 1..Len(L[s]) /\ M[s][i] = L[s][i]
    BY <1>3, <2>3 DEF Entry
  <2> QED BY <1>4, <2>1, <2>2, <2>3
<1>8. Accounted(M, here, {}, gone)
  <2> SUFFICES ASSUME NEW t \in Sessions, NEW i \in 1..Len(M[t]), M[t][i].kind = "user"
               PROVE  \/ AnsweredBehind(M, t, i)
                      \/ M[t][i].turn \in gone
                      \/ LeftElsewhere(M, t, M[t][i].turn)
    BY DEF Accounted
  <2>1. i \in 1..Len(L[t]) /\ M[t][i] = L[t][i]
    BY <1>4 DEF Entry
  <2>2. \/ AnsweredBehind(M, t, i)
        \/ i = Len(L[t]) /\ t = here /\ L[t][i].turn \in {turn}
        \/ L[t][i].turn \in gone
        \/ LeftElsewhere(M, t, L[t][i].turn)
    BY <1>1, <2>1, AccountedLogged DEF Kept
  <2>3. CASE i = Len(L[t]) /\ t = here /\ L[t][i].turn = turn
    BY <1>2, <2>1, <2>3 DEF AnsweredBehind, Entry
  <2> QED BY <2>1, <2>2, <2>3
<1> QED BY <1>2, <1>6, <1>7, <1>8 DEF Kept, Pending

\* A prompt that is in no log is started in the active session.
LEMMA StartKept ==
    ASSUME NEW L, NEW here, NEW turn \in Turns, NEW gone, NEW made, NEW n \in Nat,
           turn \in 1..n, Unstarted(L, turn), Kept(L, here, {}, gone, made, n)
    PROVE  Kept(Logged(L, "user", turn, here), here, {turn}, gone, made, n)
<1> DEFINE M == Logged(L, "user", turn, here)
<1>1. L \in Logs /\ here \in Sessions /\ turn \in 0..MaxPrompts
  BY ConstantTypes DEF Kept, Shaped, Turns
<1>a. OneMore(L, M, "user", turn, here)
  BY <1>1, LoggedEntries
<1>2. /\ M \in Logs
      /\ \A t \in Sessions : t # here => M[t] = L[t]
      /\ Len(M[here]) = Len(L[here]) + 1 /\ Len(L[here]) \in Nat
      /\ \A i \in 1..Len(L[here]) : M[here][i] = L[here][i]
      /\ M[here][Len(L[here]) + 1] = Entry("user", turn)
  BY <1>a DEF OneMore
<1>3. \A t \in Sessions : \A i \in 1..Len(M[t]) :
          \/ i \in 1..Len(L[t]) /\ M[t][i] = L[t][i]
          \/ t = here /\ i = Len(L[here]) + 1 /\ M[t][i] = Entry("user", turn)
  BY <1>2
<1>4. Shaped(M, here, made, n)
  <2>1. \A s \in Sessions \ made : M[s] = <<>>
    BY <1>2 DEF Kept, Shaped
  <2>2. \A s \in Sessions : \A i \in 1..Len(M[s]) : M[s][i].turn \in 1..n
    BY <1>3 DEF Kept, Shaped, Entry
  <2> QED BY <2>1, <2>2 DEF Kept, Shaped
<1>5. Pending(M, here, {turn})
  <2>1. Len(M[here]) > 0 /\ M[here][Len(M[here])] = Entry("user", turn)
    BY <1>2
  <2>2. \A s \in Sessions : \A i \in 1..Len(M[s]) :
            M[s][i].turn = turn => M[s][i].kind = "user"
    BY <1>3 DEF Unstarted, Entry
  <2> QED BY <2>1, <2>2 DEF Pending
<1>6. OneAnswer(M)
  BY <1>3 DEF Kept, OneAnswer, Entry
<1>7. Accounted(M, here, {turn}, gone)
  <2> SUFFICES ASSUME NEW t \in Sessions, NEW i \in 1..Len(M[t]), M[t][i].kind = "user"
               PROVE  \/ AnsweredBehind(M, t, i)
                      \/ i = Len(M[t]) /\ t = here /\ M[t][i].turn \in {turn}
                      \/ M[t][i].turn \in gone
                      \/ LeftElsewhere(M, t, M[t][i].turn)
    BY DEF Accounted
  <2>1. CASE i \in 1..Len(L[t]) /\ M[t][i] = L[t][i]
    BY <1>1, <2>1, AccountedLogged DEF Kept
  <2>2. CASE t = here /\ i = Len(L[here]) + 1 /\ M[t][i] = Entry("user", turn)
    BY <1>2, <2>2 DEF Entry
  <2> QED BY <1>3, <2>1, <2>2
<1> QED BY <1>2, <1>4, <1>5, <1>6, <1>7 DEF Kept

\* What was in flight is lost.
LEMMA LoseKept ==
    ASSUME NEW L, NEW here, NEW open, NEW gone, NEW made, NEW n,
           Kept(L, here, open, gone, made, n), NEW more, open \subseteq more
    PROVE  Kept(L, here, {}, gone \cup more, made, n)
BY DEF Kept, Pending, Accounted

\* More turns are lost, more prompts submitted.
LEMMA GrowKept ==
    ASSUME NEW L, NEW here, NEW open, NEW gone, NEW made, NEW n \in Nat,
           Kept(L, here, open, gone, made, n), NEW more, NEW m \in Nat, n <= m
    PROVE  Kept(L, here, open, gone \cup more, made, m)
BY DEF Kept, Shaped, Accounted

\* With nothing in flight the active session changes to one that exists.
LEMMA SwitchKept ==
    ASSUME NEW L, NEW here, NEW gone, NEW made, NEW n,
           Kept(L, here, {}, gone, made, n), NEW s \in made
    PROVE  Kept(L, s, {}, gone, made, n)
BY DEF Kept, Shaped, Pending, Accounted

\* The retry in flight leaves its breadcrumb in the session changed to.
LEMMA LeaveKept ==
    ASSUME NEW L, NEW here, NEW turn \in 0..MaxPrompts, NEW gone, NEW made, NEW n \in Nat,
           Kept(L, here, {turn}, gone, made, n), NEW s \in made \ {here}
    PROVE  Kept(Logged(L, "breadcrumb", turn, s), s, {}, gone, made, n)
<1> DEFINE M == Logged(L, "breadcrumb", turn, s)
<1>1. L \in Logs /\ here \in Sessions /\ s \in Sessions
  BY DEF Kept, Shaped
<1>a. OneMore(L, M, "breadcrumb", turn, s)
  BY <1>1, LoggedEntries
<1>2. /\ M \in Logs
      /\ \A t \in Sessions : t # s => M[t] = L[t]
      /\ Len(M[s]) = Len(L[s]) + 1 /\ Len(L[s]) \in Nat
      /\ \A i \in 1..Len(L[s]) : M[s][i] = L[s][i]
      /\ M[s][Len(L[s]) + 1] = Entry("breadcrumb", turn)
  BY <1>a DEF OneMore
<1>3. /\ Len(L[here]) > 0 /\ L[here][Len(L[here])] = Entry("user", turn)
      /\ \A t \in Sessions : \A i \in 1..Len(L[t]) :
            L[t][i].turn = turn => L[t][i].kind = "user"
  BY DEF Kept, Pending
<1>4. \A t \in Sessions : \A i \in 1..Len(M[t]) :
          \/ i \in 1..Len(L[t]) /\ M[t][i] = L[t][i]
          \/ t = s /\ i = Len(L[s]) + 1 /\ M[t][i] = Entry("breadcrumb", turn)
  BY <1>2
<1>5. turn \in 1..n
  <2>1. Len(L[here]) \in 1..Len(L[here])
    BY <1>1, <1>3 DEF Logs
  <2> QED BY <1>1, <1>3, <2>1 DEF Kept, Shaped, Entry
<1>6. Shaped(M, s, made, n)
  <2>1. \A t \in Sessions \ made : M[t] = <<>>
    BY <1>2 DEF Kept, Shaped
  <2>2. \A t \in Sessions : \A i \in 1..Len(L[t]) : L[t][i].turn \in 1..n
    BY DEF Kept, Shaped
  <2>3. \A t \in Sessions : \A i \in 1..Len(M[t]) : M[t][i].turn \in 1..n
    BY <1>4, <1>5, <2>2 DEF Entry
  <2> QED BY <2>1, <2>3 DEF Kept, Shaped
<1>7. OneAnswer(M)
  <2> SUFFICES ASSUME NEW t \in Sessions, NEW i \in 1..Len(M[t]), NEW j \in 1..Len(M[t]),
                      M[t][i].kind # "user", M[t][j].kind # "user",
                      M[t][i].turn = M[t][j].turn
               PROVE  i = j
    BY DEF OneAnswer
  <2>a. OneAnswer(L)
    BY DEF Kept
  <2>1. CASE i \in 1..Len(L[t]) /\ M[t][i] = L[t][i] /\ j \in 1..Len(L[t]) /\ M[t][j] = L[t][j]
    BY <2>a, <2>1 DEF OneAnswer
  <2>2. CASE t = s /\ i = Len(L[s]) + 1 /\ M[t][i] = Entry("breadcrumb", turn)
             /\ j \in 1..Len(L[t]) /\ M[t][j] = L[t][j]
    BY <1>3, <2>2 DEF Entry
  <2>3. CASE t = s /\ j = Len(L[s]) + 1 /\ M[t][j] = Entry("breadcrumb", turn)
             /\ i \in 1..Len(L[t]) /\ M[t][i] = L[t][i]
    BY <1>3, <2>3 DEF Entry
  <2> QED BY <1>4, <2>1, <2>2, <2>3
<1>8. Accounted(M, s, {}, gone)
  <2> SUFFICES ASSUME NEW t \in Sessions, NEW i \in 1..Len(M[t]), M[t][i].kind = "user"
               PROVE  \/ AnsweredBehind(M, t, i)
                      \/ M[t][i].turn \in gone
                      \/ LeftElsewhere(M, t, M[t][i].turn)
    BY DEF Accounted
  <2>1. i \in 1..Len(L[t]) /\ M[t][i] = L[t][i]
    BY <1>4 DEF Entry
  <2>2. \/ AnsweredBehind(M, t, i)
        \/ i = Len(L[t]) /\ t = here /\ L[t][i].turn \in {turn}
        \/ L[t][i].turn \in gone
        \/ LeftElsewhere(M, t, L[t][i].turn)
    BY <1>1, <2>1, AccountedLogged DEF Kept
  <2>3. CASE t = here /\ L[t][i].turn = turn
    <3>1. s \in Sessions \ {t} /\ Len(L[s]) + 1 \in 1..Len(M[s])
      BY <1>1, <1>2, <2>3
    <3>2. M[s][Len(L[s]) + 1] = Entry("breadcrumb", L[t][i].turn)
      BY <1>2, <2>3
    <3> QED BY <2>1, <3>1, <3>2 DEF LeftElsewhere
  <2> QED BY <2>1, <2>2, <2>3
<1> QED BY <1>2, <1>6, <1>7, <1>8 DEF Kept, Pending

\* A file written anew, empty or as the copy of another.
Copied(L, s, copy) == [L EXCEPT ![s] = copy]

\* What a new file starts with: nothing, or the active branch.
FileStart(L, here, copy) == copy = <<>> \/ copy = L[here]

\* M is L with `copy` in the file s.
Rewritten(L, M, s, copy) ==
    /\ M \in Logs /\ M[s] = copy
    /\ \A t \in Sessions : t # s => M[t] = L[t]

LEMMA CopiedEntries ==
    ASSUME NEW L \in Logs, NEW here \in Sessions, NEW s \in Sessions,
           NEW copy, FileStart(L, here, copy)
    PROVE  Rewritten(L, Copied(L, s, copy), s, copy)
<1>1. copy \in Seq(EntryType)
  <2>1. CASE copy = <<>>
    BY <2>1
  <2>2. CASE copy = L[here]
    BY <2>2 DEF Logs
  <2> QED BY <2>1, <2>2 DEF FileStart
<1> QED BY <1>1 DEF Copied, Logs, Rewritten

\* With nothing in flight the active session becomes a new file, empty or a copy.
LEMMA CopyKept ==
    ASSUME NEW L, NEW here, NEW gone, NEW made, NEW n \in Nat,
           Kept(L, here, {}, gone, made, n),
           NEW s \in Sessions \ made, NEW copy, FileStart(L, here, copy)
    PROVE  Kept(Copied(L, s, copy), s, {}, gone, made \cup {s}, n)
<1> DEFINE M == Copied(L, s, copy)
<1>1. L \in Logs /\ here \in Sessions /\ s # here /\ made \subseteq Sessions
  BY DEF Kept, Shaped
<1>2. Rewritten(L, M, s, copy)
  BY <1>1, CopiedEntries
<1>3. M \in Logs /\ M[s] = copy /\ \A t \in Sessions : t # s => M[t] = L[t]
  BY <1>2 DEF Rewritten
<1>4. L[s] = <<>>
  BY DEF Kept, Shaped
<1> HIDE DEF M
\* Every message of M is one of L: the same, or of the session copied.
<1>5. \A t \in Sessions : \E r \in Sessions :
          /\ \A i \in 1..Len(M[t]) : i \in 1..Len(L[r]) /\ M[t][i] = L[r][i]
          /\ M[t] # <<>> => M[t] = L[r] /\ (t # s => r = t) /\ (t = s => r = here)
  <2> SUFFICES ASSUME NEW t \in Sessions
               PROVE  \E r \in Sessions :
                        /\ \A i \in 1..Len(M[t]) : i \in 1..Len(L[r]) /\ M[t][i] = L[r][i]
                        /\ M[t] # <<>> => M[t] = L[r] /\ (t # s => r = t) /\ (t = s => r = here)
    OBVIOUS
  <2>1. CASE t # s
    BY <1>3, <2>1
  <2>2. CASE t = s /\ copy = <<>>
    BY <1>3, <2>2
  <2>3. CASE t = s /\ copy = L[here]
    BY <1>1, <1>3, <2>3
  <2> QED BY <2>1, <2>2, <2>3 DEF FileStart
<1>6. Shaped(M, s, made \cup {s}, n)
  <2>1. \A t \in Sessions \ (made \cup {s}) : M[t] = <<>>
    BY <1>3 DEF Kept, Shaped
  <2>2. \A t \in Sessions : \A i \in 1..Len(M[t]) : M[t][i].turn \in 1..n
    BY <1>5 DEF Kept, Shaped
  <2> QED BY <1>1, <2>1, <2>2 DEF Shaped
<1>7. OneAnswer(M)
  <2> SUFFICES ASSUME NEW t \in Sessions, NEW i \in 1..Len(M[t]), NEW j \in 1..Len(M[t]),
                      M[t][i].kind # "user", M[t][j].kind # "user",
                      M[t][i].turn = M[t][j].turn
               PROVE  i = j
    BY DEF OneAnswer
  <2>1. PICK r \in Sessions :
          \A k \in 1..Len(M[t]) : k \in 1..Len(L[r]) /\ M[t][k] = L[r][k]
    BY <1>5
  <2>2. /\ i \in 1..Len(L[r]) /\ M[t][i] = L[r][i]
        /\ j \in 1..Len(L[r]) /\ M[t][j] = L[r][j]
    BY <2>1
  <2> QED BY <2>2 DEF Kept, OneAnswer
<1>8. Accounted(M, s, {}, gone)
  <2> SUFFICES ASSUME NEW t \in Sessions, NEW i \in 1..Len(M[t]), M[t][i].kind = "user"
               PROVE  \/ AnsweredBehind(M, t, i)
                      \/ M[t][i].turn \in gone
                      \/ LeftElsewhere(M, t, M[t][i].turn)
    BY DEF Accounted
  <2>1. PICK r \in Sessions : /\ i \in 1..Len(L[r]) /\ M[t] = L[r]
                              /\ (t # s => r = t) /\ (t = s => r = here)
    <3>1. M[t] # <<>>
      BY <1>3 DEF Logs
    <3> QED BY <1>5, <3>1
  <2>2. \/ AnsweredBehind(L, r, i)
        \/ L[r][i].turn \in gone
        \/ LeftElsewhere(L, r, L[r][i].turn)
    BY <2>1 DEF Kept, Accounted
  <2>3. CASE AnsweredBehind(L, r, i)
    BY <2>1, <2>3 DEF AnsweredBehind
  <2>4. CASE LeftElsewhere(L, r, L[r][i].turn)
    <3>1. PICK q \in Sessions \ {r} : \E j \in 1..Len(L[q]) :
                                          L[q][j] = Entry("breadcrumb", L[r][i].turn)
      BY <2>4 DEF LeftElsewhere
    <3>2. q # s
      BY <1>4, <3>1
    <3>3. q # t /\ M[q] = L[q]
      BY <1>3, <2>1, <3>1, <3>2
    <3> QED BY <2>1, <3>1, <3>3 DEF LeftElsewhere
  <2> QED BY <2>1, <2>2, <2>3, <2>4
<1> QED BY <1>3, <1>6, <1>7, <1>8 DEF Kept, Pending, M

\* The retry in flight leaves its breadcrumb in a new file, empty or a copy.
LEMMA CopyLeaveKept ==
    ASSUME NEW L, NEW here, NEW turn \in 0..MaxPrompts, NEW gone, NEW made, NEW n \in Nat,
           Kept(L, here, {turn}, gone, made, n),
           NEW s \in Sessions \ made, NEW copy, FileStart(L, here, copy)
    PROVE  Kept(Logged(Copied(L, s, copy), "breadcrumb", turn, s), s, {}, gone,
                made \cup {s}, n)
<1> DEFINE C == Copied(L, s, copy)
           M == Logged(C, "breadcrumb", turn, s)
<1>1. /\ L \in Logs /\ here \in Sessions /\ s # here /\ made \subseteq Sessions /\ s \in Sessions
      /\ L[s] = <<>>
  BY DEF Kept, Shaped
<1>2. Rewritten(L, C, s, copy)
  BY <1>1, CopiedEntries
<1>3. C \in Logs /\ C[s] = copy /\ \A t \in Sessions : t # s => C[t] = L[t]
  BY <1>2 DEF Rewritten
<1> HIDE DEF C
<1>a. OneMore(C, M, "breadcrumb", turn, s)
  BY <1>3, LoggedEntries
<1>4. /\ M \in Logs
      /\ \A t \in Sessions : t # s => M[t] = C[t]
      /\ Len(M[s]) = Len(C[s]) + 1 /\ Len(C[s]) \in Nat
      /\ \A i \in 1..Len(C[s]) : M[s][i] = C[s][i]
      /\ M[s][Len(C[s]) + 1] = Entry("breadcrumb", turn)
  BY <1>a DEF OneMore
<1> HIDE DEF M
<1>5. /\ Len(L[here]) > 0 /\ L[here][Len(L[here])] = Entry("user", turn)
      /\ \A t \in Sessions : \A i \in 1..Len(L[t]) :
            L[t][i].turn = turn => L[t][i].kind = "user"
  BY DEF Kept, Pending
<1>6. turn \in 1..n
  <2>1. Len(L[here]) \in 1..Len(L[here])
    BY <1>1, <1>5 DEF Logs
  <2> QED BY <1>1, <1>5, <2>1 DEF Kept, Shaped, Entry
\* Every message of M is the breadcrumb, or one of L in the same place.
<1>7. \A t \in Sessions : \A i \in 1..Len(M[t]) :
          \/ t # s /\ i \in 1..Len(L[t]) /\ M[t][i] = L[t][i]
          \/ t = s /\ copy = L[here] /\ i \in 1..Len(L[here]) /\ M[t][i] = L[here][i]
          \/ t = s /\ i = Len(copy) + 1 /\ M[t][i] = Entry("breadcrumb", turn)
  <2> SUFFICES ASSUME NEW t \in Sessions, NEW i \in 1..Len(M[t])
               PROVE  \/ t # s /\ i \in 1..Len(L[t]) /\ M[t][i] = L[t][i]
                      \/ t = s /\ copy = L[here] /\ i \in 1..Len(L[here]) /\ M[t][i] = L[here][i]
                      \/ t = s /\ i = Len(copy) + 1 /\ M[t][i] = Entry("breadcrumb", turn)
    OBVIOUS
  <2>1. CASE t # s
    BY <1>3, <1>4, <2>1
  <2>2. CASE t = s /\ i = Len(copy) + 1
    BY <1>3, <1>4, <2>2
  <2>3. CASE t = s /\ i # Len(copy) + 1
    <3>1. i \in 1..Len(copy) /\ M[t][i] = copy[i]
      BY <1>3, <1>4, <2>3
    <3> QED BY <2>3, <3>1 DEF FileStart
  <2> QED BY <2>1, <2>2, <2>3
<1>8. Shaped(M, s, made \cup {s}, n)
  <2>1. \A t \in Sessions \ (made \cup {s}) : M[t] = <<>>
    BY <1>3, <1>4 DEF Kept, Shaped
  <2>2. \A t \in Sessions : \A i \in 1..Len(L[t]) : L[t][i].turn \in 1..n
    BY DEF Kept, Shaped
  <2>3. ASSUME NEW t \in Sessions, NEW i \in 1..Len(M[t]) PROVE M[t][i].turn \in 1..n
    <3>1. CASE t # s /\ i \in 1..Len(L[t]) /\ M[t][i] = L[t][i]
      BY <2>2, <3>1
    <3>2. CASE i \in 1..Len(L[here]) /\ M[t][i] = L[here][i]
      BY <1>1, <2>2, <3>2
    <3>3. CASE M[t][i] = Entry("breadcrumb", turn)
      BY <1>6, <3>3 DEF Entry
    <3> QED BY <1>7, <3>1, <3>2, <3>3
  <2> QED BY <1>1, <2>1, <2>3 DEF Shaped
<1>9. OneAnswer(M)
  <2> SUFFICES ASSUME NEW t \in Sessions, NEW i \in 1..Len(M[t]), NEW j \in 1..Len(M[t]),
                      M[t][i].kind # "user", M[t][j].kind # "user",
                      M[t][i].turn = M[t][j].turn
               PROVE  i = j
    BY DEF OneAnswer
  <2>1. CASE t # s
    <3>1. /\ i \in 1..Len(L[t]) /\ M[t][i] = L[t][i]
          /\ j \in 1..Len(L[t]) /\ M[t][j] = L[t][j]
      BY <1>7, <2>1
    <3> QED BY <3>1 DEF Kept, OneAnswer
  <2>2. CASE t = s /\ i # Len(copy) + 1 /\ j # Len(copy) + 1
    <3>1. /\ i \in 1..Len(L[here]) /\ M[t][i] = L[here][i]
          /\ j \in 1..Len(L[here]) /\ M[t][j] = L[here][j]
      BY <1>7, <2>2
    <3> QED BY <1>1, <3>1 DEF Kept, OneAnswer
  <2>3. CASE t = s /\ i = Len(copy) + 1 /\ j # Len(copy) + 1
    <3>1. M[t][i].turn = turn
      BY <1>3, <1>4, <2>3 DEF Entry
    <3>2. j \in 1..Len(L[here]) /\ M[t][j] = L[here][j]
      BY <1>7, <2>3
    <3> QED BY <1>1, <1>5, <3>1, <3>2
  <2>4. CASE t = s /\ j = Len(copy) + 1 /\ i # Len(copy) + 1
    <3>1. M[t][j].turn = turn
      BY <1>3, <1>4, <2>4 DEF Entry
    <3>2. i \in 1..Len(L[here]) /\ M[t][i] = L[here][i]
      BY <1>7, <2>4
    <3> QED BY <1>1, <1>5, <3>1, <3>2
  <2> QED BY <2>1, <2>2, <2>3, <2>4
<1>10. Accounted(M, s, {}, gone)
  <2> SUFFICES ASSUME NEW t \in Sessions, NEW i \in 1..Len(M[t]), M[t][i].kind = "user"
               PROVE  \/ AnsweredBehind(M, t, i)
                      \/ M[t][i].turn \in gone
                      \/ LeftElsewhere(M, t, M[t][i].turn)
    BY DEF Accounted
  <2>1. PICK r \in Sessions : /\ i \in 1..Len(L[r]) /\ M[t][i] = L[r][i] /\ r # s
                              /\ (t # s => r = t) /\ (t = s => r = here /\ copy = L[here])
    BY <1>1, <1>7 DEF Entry
  <2>2. Len(L[r]) \in Nat /\ \A k \in 1..Len(L[r]) : k \in 1..Len(M[t]) /\ M[t][k] = L[r][k]
    <3>1. CASE t # s
      BY <1>1, <1>3, <1>4, <2>1, <3>1 DEF Logs
    <3>2. CASE t = s
      BY <1>3, <1>4, <2>1, <3>2
    <3> QED BY <3>1, <3>2
  <2>3. \/ AnsweredBehind(L, r, i)
        \/ i = Len(L[r]) /\ r = here /\ L[r][i].turn = turn
        \/ L[r][i].turn \in gone
        \/ LeftElsewhere(L, r, L[r][i].turn)
    BY <2>1 DEF Kept, Accounted
  <2>4. CASE AnsweredBehind(L, r, i)
    <3>1. i + 1 \in 1..Len(L[r])
      BY <2>1, <2>2, <2>4 DEF AnsweredBehind
    <3>2. Len(M[t]) \in Nat /\ i + 1 \in 1..Len(M[t]) /\ M[t][i + 1] = L[r][i + 1]
      BY <1>4, <2>2, <3>1 DEF Logs
    <3> QED BY <2>1, <2>4, <3>2 DEF AnsweredBehind
  <2>5. CASE LeftElsewhere(L, r, L[r][i].turn)
    <3>1. PICK q \in Sessions \ {r} : \E j \in 1..Len(L[q]) :
                                          L[q][j] = Entry("breadcrumb", L[r][i].turn)
      BY <2>5 DEF LeftElsewhere
    <3>2. q # s
      BY <1>1, <3>1
    <3>3. q # t /\ M[q] = L[q]
      BY <1>3, <1>4, <2>1, <3>1, <3>2
    <3> QED BY <2>1, <3>1, <3>3 DEF LeftElsewhere
  <2>6. CASE i = Len(L[r]) /\ r = here /\ L[r][i].turn = turn
    <3>1. CASE t = s
      BY <1>3, <1>4, <2>1, <2>6, <3>1 DEF AnsweredBehind, Entry
    <3>2. CASE t # s
      <4>1. s \in Sessions \ {t} /\ Len(C[s]) + 1 \in 1..Len(M[s])
        BY <1>4, <3>2
      <4> QED BY <1>4, <2>1, <2>6, <4>1 DEF LeftElsewhere
    <3> QED BY <3>1, <3>2
  <2> QED BY <2>1, <2>3, <2>4, <2>5, <2>6
<1> QED BY <1>4, <1>8, <1>9, <1>10 DEF Kept, Pending, M, C

\* A turn in no log is in none of those a move to a new file leaves.
LEMMA UnstartedCopied ==
    ASSUME NEW L \in Logs, NEW here \in Sessions, NEW s \in Sessions,
           NEW copy, FileStart(L, here, copy), NEW turn, Unstarted(L, turn)
    PROVE  Unstarted(Copied(L, s, copy), turn)
<1> DEFINE M == Copied(L, s, copy)
<1>1. Rewritten(L, M, s, copy)
  BY CopiedEntries
<1>2. M[s] = copy /\ \A t \in Sessions : t # s => M[t] = L[t]
  BY <1>1 DEF Rewritten
<1> HIDE DEF M
<1> SUFFICES ASSUME NEW t \in Sessions, NEW i \in 1..Len(M[t]) PROVE M[t][i].turn # turn
  BY DEF Unstarted, M
<1>3. CASE t # s
  BY <1>2, <1>3 DEF Unstarted
<1>4. CASE t = s /\ copy = <<>>
  BY <1>2, <1>4
<1>5. CASE t = s /\ copy = L[here]
  BY <1>2, <1>5 DEF Unstarted
<1> QED BY <1>3, <1>4, <1>5 DEF FileStart

-----------------------------------------------------------------------------
(***************************************************************************)
(* The queue beside the logs.                                              *)
(***************************************************************************)
\* A turn in flight is not queued: its prompt is in a log.
LEMMA OpenNotQueued ==
    ASSUME NEW L, NEW here, NEW turn, NEW gone, NEW made, NEW n,
           Kept(L, here, {turn}, gone, made, n), NEW queue, NEW m, Queued(L, queue, m)
    PROVE  \A k \in 1..Len(queue) : queue[k] # turn
<1>1. here \in Sessions /\ Len(L[here]) \in Nat
  BY DEF Kept, Shaped, Logs
<1>2. Len(L[here]) > 0 /\ L[here][Len(L[here])] = Entry("user", turn)
  BY DEF Kept, Pending
<1>3. Len(L[here]) \in 1..Len(L[here]) /\ L[here][Len(L[here])].turn = turn
  BY <1>1, <1>2 DEF Entry
<1>4. ~Unstarted(L, turn)
  BY <1>1, <1>3 DEF Unstarted
<1> QED BY <1>4 DEF Queued

\* A message of a turn that is not queued leaves the queue as it should be.
LEMMA QueuedLogged ==
    ASSUME NEW L \in Logs, NEW s \in Sessions,
           NEW kind \in {"user", "reply", "breadcrumb"}, NEW turn \in 0..MaxPrompts,
           NEW queue, NEW n, Queued(L, queue, n), \A k \in 1..Len(queue) : queue[k] # turn
    PROVE  Queued(Logged(L, kind, turn, s), queue, n)
<1>1. ASSUME NEW k \in 1..Len(queue) PROVE Unstarted(Logged(L, kind, turn, s), queue[k])
  <2>1. Unstarted(L, queue[k]) /\ queue[k] # turn
    BY DEF Queued
  <2> QED BY <2>1, UnstartedLogged
<1> QED BY <1>1 DEF Queued

\* A prompt not submitted yet is in no log.
LEMMA FutureUnstarted ==
    ASSUME NEW L, NEW here, NEW open, NEW gone, NEW made, NEW n \in Nat,
           Kept(L, here, open, gone, made, n)
    PROVE  Unstarted(L, n + 1)
<1>1. \A s \in Sessions : \A i \in 1..Len(L[s]) : L[s][i].turn \in 1..n
  BY DEF Kept, Shaped
<1> QED BY <1>1 DEF Unstarted

-----------------------------------------------------------------------------
(***************************************************************************)
(* The steps.                                                              *)
(***************************************************************************)
\* Open is the turn in flight.
LEMMA OpenFacts ==
    ASSUME IInv
    PROVE  /\ \A turn : turn \in Open <=> InFlight(turn)
           /\ Open \subseteq Turns
           /\ current_run.active => Open = {current_run.turn} /\ ~pending_retry.armed
           /\ pending_retry.armed => Open = {pending_retry.turn} /\ ~current_run.active
           /\ ~current_run.active /\ ~pending_retry.armed => Open = {}
BY DEF IInv, RunXorRetry, PromptNamed, Open, InFlight

LEMMA NumberTypes ==
    ASSUME IInv
    PROVE  /\ prompts \in Nat /\ prompts <= MaxPrompts /\ MaxPrompts \in Nat
           /\ current_run.turn \in 0..MaxPrompts /\ pending_retry.turn \in 0..MaxPrompts
           /\ log \in Logs /\ session \in Sessions
           /\ queued_prompts \in Seq(Turns)
BY ConstantTypes DEF IInv, TypeOK, RunType, RetryType, Logs

\* start_prompt_run, on a log in which nothing is in flight.
LEMMA StartPromptRunKept ==
    ASSUME NEW turn \in Turns, NEW L, NEW gone, NEW n \in Nat,
           turn \in 1..n, Unstarted(L, turn),
           Kept(L, session, {}, lost \cup gone, created, n),
           StartPromptRun(turn, L, gone), UNCHANGED <<session, created>>
    PROVE  /\ Kept(log', session', Open', lost', created', n)
           /\ log' = Logged(L, "user", turn, session)
<1>1. log' = Logged(L, "user", turn, session)
  BY DEF StartPromptRun
<1>2. Kept(log', session, {turn}, lost \cup gone, created, n)
  BY <1>1, StartKept
<1>3. CASE current_run' = Run(turn, FALSE, FALSE, 0) /\ lost' = lost \cup gone
  <2>1. Open' = {turn}
    BY <1>3 DEF Open, Run
  <2> QED BY <1>1, <1>2, <1>3, <2>1
<1>4. CASE Fatal(gone \cup {turn})
  <2>1. Open' = {} /\ lost' = (lost \cup gone) \cup {turn}
    BY <1>4 DEF Fatal, Open, NoRun, Idle
  <2>2. Kept(log', session, {}, (lost \cup gone) \cup {turn}, created, n)
    BY <1>2, LoseKept
  <2> QED BY <1>1, <2>1, <2>2
<1> QED BY <1>3, <1>4 DEF StartPromptRun

\* The end of a turn, on a log in which nothing is in flight.
LEMMA AfterRunKept ==
    ASSUME IInv, RunEnds, NEW L, NEW gone,
           Kept(L, session, {}, lost \cup gone, created, prompts),
           Queued(L, queued_prompts, prompts), AfterRun(L, gone)
    PROVE  LogInv'
<1>1. UNCHANGED <<session, created, prompts>>
  BY DEF RunEnds
<1>2. CASE /\ queued_prompts # <<>>
           /\ StartPromptRun(Head(queued_prompts), L, gone)
           /\ queued_prompts' = Tail(queued_prompts)
  <2> DEFINE turn == Head(queued_prompts)
  <2>1. /\ queued_prompts \in Seq(Turns) /\ prompts \in Nat /\ Len(queued_prompts) \in Nat
        /\ 1 \in 1..Len(queued_prompts) /\ turn = queued_prompts[1] /\ turn \in Turns
    BY <1>2, NumberTypes
  <2>2. turn \in 1..prompts /\ Unstarted(L, turn)
    BY <2>1 DEF Queued
  <2>3. Kept(log', session', Open', lost', created', prompts) /\ log' = Logged(L, "user", turn, session)
    BY <1>1, <1>2, <2>1, <2>2, StartPromptRunKept
  <2>4. \A k \in 1..Len(queued_prompts') :
            k + 1 \in 1..Len(queued_prompts) /\ queued_prompts'[k] = queued_prompts[k + 1]
    BY <1>2, <2>1
  <2>5. ASSUME NEW k \in 1..Len(queued_prompts')
        PROVE  /\ queued_prompts'[k] \in 1..prompts
               /\ Unstarted(log', queued_prompts'[k])
               /\ \A j \in 1..Len(queued_prompts') : queued_prompts'[j] = queued_prompts'[k] => j = k
    <3>1. k + 1 \in 1..Len(queued_prompts) /\ queued_prompts'[k] = queued_prompts[k + 1]
      BY <2>4
    <3>2. k + 1 # 1 /\ k \in Nat
      OBVIOUS
    <3>3. /\ queued_prompts[k + 1] \in 1..prompts /\ Unstarted(L, queued_prompts[k + 1])
          /\ queued_prompts[k + 1] # turn
      BY <2>1, <3>1, <3>2 DEF Queued
    <3>4. L \in Logs /\ session \in Sessions /\ turn \in 0..MaxPrompts
      BY <2>1, NumberTypes DEF Kept, Turns
    <3>5. Unstarted(log', queued_prompts'[k])
      BY <2>3, <3>1, <3>3, <3>4, UnstartedLogged
    <3>6. ASSUME NEW j \in 1..Len(queued_prompts'), queued_prompts'[j] = queued_prompts'[k]
          PROVE  j = k
      <4>1. j + 1 \in 1..Len(queued_prompts) /\ queued_prompts[j + 1] = queued_prompts[k + 1]
        BY <2>4, <3>1, <3>6
      <4>2. j + 1 = k + 1
        BY <3>1, <4>1 DEF Queued
      <4> QED BY <4>2
    <3> QED BY <3>1, <3>3, <3>5, <3>6
  <2> QED BY <1>1, <2>3, <2>5 DEF LogInv, Queued
<1>3. CASE /\ current_run' = NoRun /\ log' = L /\ lost' = lost \cup gone
           /\ UNCHANGED <<pending_retry, queued_prompts>>
  <2>1. ~pending_retry.armed
    BY OpenFacts DEF RunEnds
  <2>2. Open' = {}
    BY <1>3, <2>1 DEF Open, NoRun
  <2> QED BY <1>1, <1>3, <2>2 DEF LogInv
<1> QED BY <1>2, <1>3 DEF AfterRun

\* A step that drops an armed retry for its breadcrumb and leaves a run running.
LEMMA CancelKept ==
    ASSUME IInv, LogInv, log' = AbortPendingRetry(log, session),
           Open' = IF current_run.active THEN Open ELSE {},
           UNCHANGED <<session, created, prompts, queued_prompts, lost>>
    PROVE  LogInv'
<1>1. CASE ~pending_retry.armed
  <2>1. log' = log /\ Open' = Open
    BY <1>1, OpenFacts DEF AbortPendingRetry
  <2> QED BY <2>1 DEF LogInv
<1>2. CASE pending_retry.armed
  <2>1. /\ log' = Logged(log, "breadcrumb", pending_retry.turn, session)
        /\ Open = {pending_retry.turn} /\ Open' = {}
    BY <1>2, OpenFacts DEF AbortPendingRetry
  <2>2. Kept(log, session, {pending_retry.turn}, lost, created, prompts)
    BY <2>1 DEF LogInv
  <2>3. Kept(log', session, {}, lost, created, prompts)
    BY <2>1, <2>2, NumberTypes, AnswerKept
  <2>4. \A k \in 1..Len(queued_prompts) : queued_prompts[k] # pending_retry.turn
    BY <2>2, OpenNotQueued DEF LogInv
  <2>5. Queued(log', queued_prompts, prompts)
    BY <2>1, <2>4, NumberTypes, QueuedLogged DEF LogInv
  <2> QED BY <2>1, <2>3, <2>5 DEF LogInv
<1> QED BY <1>1, <1>2

LEMMA InitLog == ASSUME Init PROVE LogInv
<1>1. IInv
  BY InitIInv
<1>2. Open = {} /\ log \in Logs /\ prompts = 0
  BY <1>1, NumberTypes DEF Init, Open, NoRun, Idle
<1>3. \A s \in Sessions : log[s] = <<>> /\ Len(log[s]) = 0
  BY DEF Init
<1>4. session \in created /\ created \subseteq Sessions /\ Len(queued_prompts) = 0
  BY DEF Init
<1> QED
  BY <1>2, <1>3, <1>4
     DEF LogInv, Kept, Shaped, Pending, OneAnswer, Accounted, Queued

\* Every end of the active run.
LEMMA RunResultLog == ASSUME IInv, LogInv, RunResult PROVE LogInv'
<1>1. RunEnds
  BY DEF RunResult, RunCompletes, RunPanics, RunFails, CompactAndContinue, ArmRetry, GiveUpOnRun
<1>2. current_run.active /\ Open = {current_run.turn} /\ ~pending_retry.armed
  BY <1>1, OpenFacts DEF RunEnds
<1>3. Kept(log, session, {current_run.turn}, lost, created, prompts)
  BY <1>2 DEF LogInv
<1>4. Kept(FinishRun, session, {}, lost, created, prompts)
  BY <1>3, NumberTypes, AnswerKept DEF FinishRun
<1>5. Queued(FinishRun, queued_prompts, prompts)
  <2>1. \A k \in 1..Len(queued_prompts) : queued_prompts[k] # current_run.turn
    BY <1>3, OpenNotQueued DEF LogInv
  <2> QED BY <2>1, NumberTypes, QueuedLogged DEF FinishRun, LogInv
<1>6. lost \cup {} = lost
  OBVIOUS
<1>7. ASSUME AfterRun(FinishRun, {}) PROVE LogInv'
  BY <1>1, <1>4, <1>5, <1>6, <1>7, AfterRunKept
<1>8. CASE RunCompletes
  BY <1>7, <1>8 DEF RunCompletes
<1>9. CASE RunPanics
  <2>1. Kept(log, session, {}, lost \cup {current_run.turn}, created, prompts)
    BY <1>3, LoseKept
  <2> QED BY <1>1, <1>9, <2>1, AfterRunKept DEF RunPanics, LogInv
<1>10. ASSUME NEW error \in UiErrors, CompactAndContinue(error) PROVE LogInv'
  <2>1. Open' = Open /\ UNCHANGED <<log, session, lost, created, prompts, queued_prompts>>
    BY <1>1, <1>2, <1>10
       DEF CompactAndContinue, StartContinuationRun, RunEnds, Open, Run
  <2> QED BY <2>1 DEF LogInv
<1>11. ASSUME NEW error \in UiErrors, ArmRetry(error) PROVE LogInv'
  <2>1. Open' = Open /\ UNCHANGED <<log, session, lost, created, prompts, queued_prompts>>
    BY <1>1, <1>2, <1>11 DEF ArmRetry, RunEnds, Open, Armed, NoRun
  <2> QED BY <2>1 DEF LogInv
<1>12. ASSUME NEW error \in UiErrors, GiveUpOnRun(error) PROVE LogInv'
  BY <1>7, <1>12 DEF GiveUpOnRun
<1> QED BY <1>8, <1>9, <1>10, <1>11, <1>12 DEF RunResult, RunFails

\* The gate and the backoff write nothing.
LEMMA GateAndBackoffLog ==
    ASSUME IInv, LogInv, GateCompacts \/ RetryDeadlineFires PROVE LogInv'
<1>1. CASE GateCompacts
  BY <1>1 DEF GateCompacts, LogInv, Open
<1>2. CASE RetryDeadlineFires
  <2>1. Open' = Open
    BY <1>2, OpenFacts DEF RetryDeadlineFires, StartContinuationRun, Open, Run
  <2> QED BY <1>2, <2>1 DEF RetryDeadlineFires, LogInv
<1> QED BY <1>1, <1>2

\* A session change, with or without an armed retry.
LEMMA MoveLog ==
    ASSUME IInv, LogInv, ~current_run.active, NEW s \in Sessions, s # session,
           pending_retry' = Idle, session' = s,
           UNCHANGED <<current_run, prompts, queued_prompts, lost>>,
           \/ s \in created /\ created' = created /\ log' = AbortPendingRetry(log, s)
           \/ /\ s \notin created /\ created' = created \cup {s}
              /\ \E copy : FileStart(log, session, copy) /\
                    log' = AbortPendingRetry(Copied(log, s, copy), s)
    PROVE  LogInv'
<1>1. Open' = {}
  BY DEF Open, Idle
<1>2. CASE pending_retry.armed
  <2>1. Kept(log, session, {pending_retry.turn}, lost, created, prompts)
    BY <1>2, OpenFacts DEF LogInv
  <2>2. \A k \in 1..Len(queued_prompts) : queued_prompts[k] # pending_retry.turn
    BY <2>1, OpenNotQueued DEF LogInv
  <2>3. CASE s \in created /\ created' = created /\ log' = AbortPendingRetry(log, s)
    <3>1. log' = Logged(log, "breadcrumb", pending_retry.turn, s)
      BY <1>2, <2>3 DEF AbortPendingRetry
    <3>2. Kept(log', s, {}, lost, created, prompts)
      BY <2>1, <2>3, <3>1, NumberTypes, LeaveKept
    <3>3. Queued(log', queued_prompts, prompts)
      BY <2>2, <3>1, NumberTypes, QueuedLogged DEF LogInv
    <3> QED BY <1>1, <2>3, <3>2, <3>3 DEF LogInv
  <2>4. ASSUME s \notin created, created' = created \cup {s},
               NEW copy, FileStart(log, session, copy),
               log' = AbortPendingRetry(Copied(log, s, copy), s)
        PROVE  LogInv'
    <3> DEFINE C == Copied(log, s, copy)
    <3>1. log' = Logged(C, "breadcrumb", pending_retry.turn, s)
      BY <1>2, <2>4 DEF AbortPendingRetry
    <3>2. Kept(log', s, {}, lost, created \cup {s}, prompts)
      BY <2>1, <2>4, <3>1, NumberTypes, CopyLeaveKept
    <3>3. C \in Logs
      BY <2>4, NumberTypes, CopiedEntries DEF Rewritten
    <3>4. Queued(C, queued_prompts, prompts)
      BY <2>4, NumberTypes, UnstartedCopied DEF LogInv, Queued
    <3>5. Queued(log', queued_prompts, prompts)
      BY <2>2, <3>1, <3>3, <3>4, NumberTypes, QueuedLogged
    <3> QED BY <1>1, <2>4, <3>2, <3>5 DEF LogInv
  <2> QED BY <2>3, <2>4
<1>3. CASE ~pending_retry.armed
  <2>1. Kept(log, session, {}, lost, created, prompts)
    BY <1>3, OpenFacts DEF LogInv
  <2>2. CASE s \in created /\ created' = created /\ log' = AbortPendingRetry(log, s)
    <3>1. log' = log
      BY <1>3, <2>2 DEF AbortPendingRetry
    <3>2. Kept(log', s, {}, lost, created, prompts)
      BY <2>1, <2>2, <3>1, SwitchKept
    <3> QED BY <1>1, <2>2, <3>1, <3>2 DEF LogInv
  <2>3. ASSUME s \notin created, created' = created \cup {s},
               NEW copy, FileStart(log, session, copy),
               log' = AbortPendingRetry(Copied(log, s, copy), s)
        PROVE  LogInv'
    <3>1. log' = Copied(log, s, copy)
      BY <1>3, <2>3 DEF AbortPendingRetry
    <3>2. Kept(log', s, {}, lost, created \cup {s}, prompts)
      BY <2>1, <2>3, <3>1, NumberTypes, CopyKept
    <3>3. Queued(log', queued_prompts, prompts)
      BY <2>3, <3>1, NumberTypes, UnstartedCopied DEF LogInv, Queued
    <3> QED BY <1>1, <2>3, <3>2, <3>3 DEF LogInv
  <2> QED BY <2>2, <2>3
<1> QED BY <1>2, <1>3

\* The actions that submit a prompt.
LEMMA PromptLog ==
    ASSUME IInv, LogInv, SubmitPrompt \/ QueuePrompt \/ AbortAndQueuePrompt
    PROVE  LogInv'
<1>1. /\ prompts' = prompts + 1 /\ prompts + 1 \in Turns /\ prompts \in Nat
      /\ UNCHANGED <<session, created>>
  BY NumberTypes DEF SubmitPrompt, QueuePrompt, AbortAndQueuePrompt, NewPrompt, Turns
<1>2. CASE SubmitPrompt
  <2> DEFINE L == AbortPendingRetry(log, session)
  <2>1. /\ ~current_run.active /\ StartPromptRun(prompts + 1, L, {})
        /\ queued_prompts' = queued_prompts
    BY <1>2 DEF SubmitPrompt
  <2>2. Kept(L, session, {}, lost, created, prompts) /\ Queued(L, queued_prompts, prompts)
    <3>1. CASE ~pending_retry.armed
      BY <2>1, <3>1, OpenFacts DEF AbortPendingRetry, LogInv
    <3>2. CASE pending_retry.armed
      <4>1. Kept(log, session, {pending_retry.turn}, lost, created, prompts)
        BY <3>2, OpenFacts DEF LogInv
      <4>2. L = Logged(log, "breadcrumb", pending_retry.turn, session)
        BY <3>2 DEF AbortPendingRetry
      <4>3. \A k \in 1..Len(queued_prompts) : queued_prompts[k] # pending_retry.turn
        BY <4>1, OpenNotQueued DEF LogInv
      <4> QED BY <4>1, <4>2, <4>3, NumberTypes, AnswerKept, QueuedLogged DEF LogInv
    <3> QED BY <3>1, <3>2
  <2> HIDE DEF L
  <2>3. Unstarted(L, prompts + 1)
    BY <1>1, <2>2, FutureUnstarted
  <2>4. Kept(L, session, {}, lost \cup {}, created, prompts + 1)
    BY <1>1, <2>2, GrowKept
  <2>5. /\ Kept(log', session', Open', lost', created', prompts + 1)
        /\ log' = Logged(L, "user", prompts + 1, session)
    BY <1>1, <2>1, <2>3, <2>4, StartPromptRunKept
  <2>6. \A k \in 1..Len(queued_prompts) : queued_prompts[k] # prompts + 1
    BY <1>1, <2>2 DEF Queued
  <2>7. Queued(log', queued_prompts, prompts)
    <3>1. L \in Logs /\ session \in Sessions /\ prompts + 1 \in 0..MaxPrompts
      BY <1>1, <2>2, NumberTypes DEF Kept, Turns
    <3> QED BY <2>2, <2>5, <2>6, <3>1, QueuedLogged
  <2>8. Queued(log', queued_prompts', prompts')
    BY <1>1, <2>1, <2>7 DEF Queued
  <2> QED BY <1>1, <2>5, <2>8 DEF LogInv
<1>3. ASSUME log' = log, Open' = Open, lost' = lost,
             \A k \in 1..Len(queued_prompts') :
                 \/ queued_prompts'[k] = prompts + 1
                 \/ \E j \in 1..Len(queued_prompts) : queued_prompts'[k] = queued_prompts[j],
             \A j, k \in 1..Len(queued_prompts') : queued_prompts'[j] = queued_prompts'[k] => j = k
      PROVE  LogInv'
  <2>1. Kept(log', session', Open', lost', created', prompts')
    <3>1. Kept(log, session, Open, lost \cup {}, created, prompts + 1)
      BY <1>1, GrowKept DEF LogInv
    <3> QED BY <1>1, <1>3, <3>1
  <2>2. Unstarted(log, prompts + 1)
    BY <1>1, FutureUnstarted DEF LogInv
  <2>3. \A k \in 1..Len(queued_prompts') :
            queued_prompts'[k] \in 1..(prompts + 1) /\ Unstarted(log, queued_prompts'[k])
    BY <1>1, <1>3, <2>2 DEF LogInv, Queued
  <2> QED BY <1>1, <1>3, <2>1, <2>3 DEF LogInv, Queued
<1>4. /\ queued_prompts \in Seq(Turns) /\ Len(queued_prompts) \in Nat
      /\ \A k \in 1..Len(queued_prompts) : queued_prompts[k] # prompts + 1
      /\ \A j, k \in 1..Len(queued_prompts) : queued_prompts[j] = queued_prompts[k] => j = k
  BY <1>1, NumberTypes DEF LogInv, Queued
<1>5. CASE QueuePrompt
  <2>1. /\ log' = log /\ lost' = lost /\ Open' = Open
        /\ queued_prompts' = Append(queued_prompts, prompts + 1)
    BY <1>5 DEF QueuePrompt, Open
  <2>2. /\ Len(queued_prompts') = Len(queued_prompts) + 1
        /\ \A k \in 1..Len(queued_prompts') :
              \/ k = Len(queued_prompts) + 1 /\ queued_prompts'[k] = prompts + 1
              \/ k \in 1..Len(queued_prompts) /\ queued_prompts'[k] = queued_prompts[k]
    BY <1>1, <1>4, <2>1
  <2> QED BY <1>3, <1>4, <2>1, <2>2
<1>6. CASE AbortAndQueuePrompt
  <2>1. /\ log' = log /\ lost' = lost
        /\ queued_prompts' = <<prompts + 1>> \o queued_prompts
        /\ current_run' = [current_run EXCEPT !.cancelled = TRUE]
        /\ pending_retry' = pending_retry
    BY <1>6 DEF AbortAndQueuePrompt
  <2>2. current_run'.active = current_run.active /\ current_run'.turn = current_run.turn
    BY <2>1 DEF IInv, TypeOK, RunType
  <2>3. Open' = Open
    BY <2>1, <2>2 DEF Open
  <2>4. /\ Len(queued_prompts') = Len(queued_prompts) + 1
        /\ \A k \in 1..Len(queued_prompts') :
              \/ k = 1 /\ queued_prompts'[k] = prompts + 1
              \/ /\ k - 1 \in 1..Len(queued_prompts)
                 /\ queued_prompts'[k] = queued_prompts[k - 1]
    BY <1>1, <1>4, <2>1
  <2>5. \A j, k \in 1..Len(queued_prompts') : queued_prompts'[j] = queued_prompts'[k] => j = k
    <3> SUFFICES ASSUME NEW j \in 1..Len(queued_prompts'), NEW k \in 1..Len(queued_prompts'),
                        queued_prompts'[j] = queued_prompts'[k]
                 PROVE  j = k
      OBVIOUS
    <3>1. CASE j = 1 \/ k = 1
      BY <1>4, <2>4, <3>1
    <3>2. CASE j # 1 /\ k # 1
      <4>1. j - 1 = k - 1
        BY <1>4, <2>4, <3>2
      <4> QED BY <1>4, <2>4, <4>1
    <3> QED BY <3>1, <3>2
  <2> QED BY <1>3, <2>1, <2>3, <2>4, <2>5
<1> QED BY <1>2, <1>5, <1>6

\* Every UI action.
LEMMA UserStepLog == ASSUME IInv, LogInv, UserStep PROVE LogInv'
<1>1. current_run.active \in BOOLEAN /\ \A b : [current_run EXCEPT !.cancelled = b].active = current_run.active
                                           /\ [current_run EXCEPT !.cancelled = b].turn = current_run.turn
  BY DEF IInv, TypeOK, RunType
<1>2. ASSUME pending_retry' = Idle,
             \/ current_run' = current_run
             \/ \E b : current_run' = [current_run EXCEPT !.cancelled = b]
      PROVE  Open' = IF current_run.active THEN Open ELSE {}
  BY <1>1, <1>2 DEF Open, Idle
<1>3. CASE SubmitPrompt \/ QueuePrompt \/ AbortAndQueuePrompt
  BY <1>3, PromptLog
<1>4. CASE Abort
  BY <1>2, <1>4, CancelKept DEF Abort, Command
<1>5. CASE Quit
  BY <1>2, <1>5, CancelKept DEF Quit, Command
<1>6. CASE RunAffectingChange
  BY <1>2, <1>6, CancelKept DEF RunAffectingChange, Command
<1>7. CASE CommandFails
  <2>1. /\ Open' = {} /\ lost' = lost \cup {turn \in Turns : InFlight(turn)}
        /\ UNCHANGED <<log, session, created, prompts, queued_prompts>>
    BY <1>7 DEF CommandFails, Command, Fatal, Open, NoRun, Idle
  <2>2. Open \subseteq {turn \in Turns : InFlight(turn)}
    BY OpenFacts
  <2>3. Kept(log, session, {}, lost \cup {turn \in Turns : InFlight(turn)}, created, prompts)
    BY <2>2, LoseKept DEF LogInv
  <2> QED BY <2>1, <2>3 DEF LogInv
<1>8. ASSUME NEW copy, FileStart(log, session, copy), MoveToNewFile(copy) PROVE LogInv'
  <2>1. PICK s \in Sessions \ created :
          /\ session' = s /\ created' = created \cup {s}
          /\ log' = AbortPendingRetry(Copied(log, s, copy), s)
    BY <1>8 DEF MoveToNewFile, Copied
  <2>2. s # session
    BY <2>1 DEF LogInv, Kept, Shaped
  <2>3. /\ ~current_run.active /\ pending_retry' = Idle
        /\ UNCHANGED <<current_run, prompts, queued_prompts, lost>>
    BY <1>8 DEF MoveToNewFile, Command
  <2>4. \E other : FileStart(log, session, other) /\
                    log' = AbortPendingRetry(Copied(log, s, other), s)
    BY <1>8, <2>1
  <2> QED BY <2>1, <2>2, <2>3, <2>4, MoveLog
<1>9. CASE NewSession \/ ForkSession
  BY <1>8, <1>9 DEF NewSession, ForkSession, FileStart
<1>10. CASE SwitchSession
  <2>1. PICK s \in created \ {session} : session' = s /\ log' = AbortPendingRetry(log, s)
    BY <1>10 DEF SwitchSession
  <2>2. s \in Sessions
    BY <2>1 DEF LogInv, Kept, Shaped
  <2>3. /\ ~current_run.active /\ pending_retry' = Idle /\ created' = created
        /\ UNCHANGED <<current_run, prompts, queued_prompts, lost>>
    BY <1>10 DEF SwitchSession, Command
  <2> QED BY <2>1, <2>2, <2>3, MoveLog
<1> QED BY <1>3, <1>4, <1>5, <1>6, <1>7, <1>9, <1>10 DEF UserStep

LEMMA ChannelLog ==
    ASSUME IInv, LogInv, CloseChannel \/ SeeClosedChannel PROVE LogInv'
<1>1. CASE CloseChannel
  BY <1>1 DEF CloseChannel, LogInv, Open
<1>2. CASE SeeClosedChannel
  <2>1. Open' = IF current_run.active THEN Open ELSE {}
    <3>1. current_run'.active = current_run.active /\ current_run'.turn = current_run.turn
      BY <1>2 DEF SeeClosedChannel, IInv, TypeOK, RunType
    <3> QED BY <1>2, <3>1 DEF SeeClosedChannel, Open, Idle
  <2> QED BY <1>2, <2>1, CancelKept DEF SeeClosedChannel
<1> QED BY <1>1, <1>2

-----------------------------------------------------------------------------
\* LogInv is inductive, relative to IInv.
THEOREM LogInvariance == Spec => []LogInv
<1>1. Init => LogInv
  BY InitLog
<1>2. IInv /\ LogInv /\ [Next]_vars => LogInv'
  <2> SUFFICES ASSUME IInv, LogInv, [Next]_vars PROVE LogInv'
    OBVIOUS
  <2>1. CASE UNCHANGED vars
    BY <2>1 DEF vars, LogInv, Open
  <2> QED
    BY <2>1, RunResultLog, GateAndBackoffLog, UserStepLog, ChannelLog DEF Next
<1> QED BY <1>1, <1>2, Invariance, PTL DEF Spec

\* Whatever the user, the providers and the timer do, every prompt that reached a
\* session is answered right behind it, is being answered, died with its task or
\* the controller, or left its breadcrumb in the session it was abandoned for.
THEOREM TurnsAccounted == Spec => []EveryTurnAccounted
<1>1. IInv /\ LogInv => EveryTurnAccounted
  <2> SUFFICES ASSUME IInv, LogInv, NEW s \in Sessions, NEW i \in DOMAIN log[s],
                      log[s][i].kind = "user"
               PROVE  \/ i < Len(log[s]) /\ log[s][i + 1].kind # "user"
                                         /\ log[s][i + 1].turn = log[s][i].turn
                      \/ i = Len(log[s]) /\ s = session /\ InFlight(log[s][i].turn)
                      \/ log[s][i].turn \in lost
                      \/ \E t \in Sessions \ {s} : \E j \in DOMAIN log[t] :
                            log[t][j] = Entry("breadcrumb", log[s][i].turn)
    BY DEF EveryTurnAccounted
  <2>1. \A t \in Sessions : DOMAIN log[t] = 1..Len(log[t])
    BY NumberTypes DEF Logs
  <2>2. \/ AnsweredBehind(log, s, i)
        \/ i = Len(log[s]) /\ s = session /\ log[s][i].turn \in Open
        \/ log[s][i].turn \in lost
        \/ LeftElsewhere(log, s, log[s][i].turn)
    BY <2>1 DEF LogInv, Kept, Accounted
  <2> QED BY <2>1, <2>2, OpenFacts DEF AnsweredBehind, LeftElsewhere
<1> QED BY <1>1, Invariance, LogInvariance, PTL

\* A discarded attempt and its retry never both reach a log, nor does an answer
\* before its run has ended.
THEOREM AnswersUnique == Spec => []AnsweredOnce
<1>1. IInv /\ LogInv => AnsweredOnce
  <2> SUFFICES ASSUME IInv, LogInv, NEW s \in Sessions, NEW turn \in Turns
               PROVE  /\ \A i, j \in Answers(log, s, turn) : i = j
                      /\ InFlight(turn) => Answers(log, s, turn) = {}
    BY DEF AnsweredOnce
  <2>1. DOMAIN log[s] = 1..Len(log[s])
    BY NumberTypes DEF Logs
  <2>2. \A i, j \in Answers(log, s, turn) : i = j
    BY <2>1 DEF Answers, LogInv, Kept, OneAnswer
  <2>3. InFlight(turn) => Answers(log, s, turn) = {}
    BY <2>1, OpenFacts DEF Answers, LogInv, Kept, Pending
  <2> QED BY <2>2, <2>3
<1> QED BY <1>1, Invariance, LogInvariance, PTL

-----------------------------------------------------------------------------
(***************************************************************************)
(* The order in which prompts are started.                                 *)
(***************************************************************************)
InLog(L, turn) ==
    \E s \in Sessions : \E i \in 1..Len(L[s]) : L[s][i] = Entry("user", turn)

\* Only a user message starts a turn.
LEMMA InLogLogged ==
    ASSUME NEW L \in Logs, NEW s \in Sessions,
           NEW kind \in {"user", "reply", "breadcrumb"}, NEW t \in 0..MaxPrompts,
           NEW turn, InLog(Logged(L, kind, t, s), turn)
    PROVE  InLog(L, turn) \/ (kind = "user" /\ turn = t)
<1> DEFINE M == Logged(L, kind, t, s)
<1>a. OneMore(L, M, kind, t, s)
  BY LoggedEntries
<1>1. /\ \A r \in Sessions : r # s => M[r] = L[r]
      /\ Len(M[s]) = Len(L[s]) + 1 /\ Len(L[s]) \in Nat
      /\ \A i \in 1..Len(L[s]) : M[s][i] = L[s][i]
      /\ M[s][Len(L[s]) + 1] = Entry(kind, t)
  BY <1>a DEF OneMore
<1> HIDE DEF M
<1>2. PICK r \in Sessions : \E i \in 1..Len(M[r]) : M[r][i] = Entry("user", turn)
  BY DEF InLog, M
<1>3. PICK i \in 1..Len(M[r]) : M[r][i] = Entry("user", turn)
  BY <1>2
<1>4. CASE r = s /\ i = Len(L[s]) + 1
  BY <1>1, <1>3, <1>4 DEF Entry
<1>5. CASE ~(r = s /\ i = Len(L[s]) + 1)
  <2>1. i \in 1..Len(L[r]) /\ L[r][i] = Entry("user", turn)
    BY <1>1, <1>3, <1>5
  <2> QED BY <2>1 DEF InLog
<1> QED BY <1>4, <1>5

LEMMA InLogAborted ==
    ASSUME IInv, NEW L \in Logs, NEW s \in Sessions, NEW turn,
           InLog(AbortPendingRetry(L, s), turn)
    PROVE  InLog(L, turn)
BY NumberTypes, InLogLogged DEF AbortPendingRetry

LEMMA InLogCopied ==
    ASSUME NEW L \in Logs, NEW here \in Sessions, NEW s \in Sessions,
           NEW copy, FileStart(L, here, copy), NEW turn, InLog(Copied(L, s, copy), turn)
    PROVE  InLog(L, turn)
<1> DEFINE M == Copied(L, s, copy)
<1>a. Rewritten(L, M, s, copy)
  BY CopiedEntries
<1>1. M[s] = copy /\ \A t \in Sessions : t # s => M[t] = L[t]
  BY <1>a DEF Rewritten
<1> HIDE DEF M
<1>2. PICK r \in Sessions : \E i \in 1..Len(M[r]) : M[r][i] = Entry("user", turn)
  BY DEF InLog, M
<1>3. CASE r # s
  BY <1>1, <1>2, <1>3 DEF InLog
<1>4. CASE r = s /\ copy = L[here]
  BY <1>1, <1>2, <1>4 DEF InLog
<1>5. CASE r = s /\ copy = <<>>
  BY <1>1, <1>2, <1>5
<1> QED BY <1>3, <1>4, <1>5 DEF FileStart

LEMMA AfterRunOrder ==
    ASSUME IInv, NEW L \in Logs, NEW gone, AfterRun(L, gone), queued_prompts # <<>>,
           NEW turn, InLog(log', turn)
    PROVE  InLog(L, turn) \/ turn = Head(queued_prompts)
<1>1. log' = Logged(L, "user", Head(queued_prompts), session)
  BY DEF AfterRun, StartPromptRun
<1>2. Head(queued_prompts) \in Turns
  BY NumberTypes
<1>3. Head(queued_prompts) \in 0..MaxPrompts
  BY <1>2, NumberTypes DEF Turns
<1> QED BY <1>1, <1>3, NumberTypes, InLogLogged

\* While prompts wait, the only prompt a step starts is the first of them.
LEMMA OrderStep ==
    ASSUME IInv, [Next]_vars, queued_prompts # <<>>, NEW turn, InLog(log', turn)
    PROVE  InLog(log, turn) \/ turn = Head(queued_prompts)
<1>1. log \in Logs /\ session \in Sessions
  BY NumberTypes
<1>2. FinishRun \in Logs
  BY NumberTypes, LoggedEntries DEF FinishRun, OneMore
<1>3. InLog(FinishRun, turn) => InLog(log, turn)
  BY NumberTypes, InLogLogged DEF FinishRun
<1>4. CASE log' = log
  BY <1>4
<1>5. CASE log' = AbortPendingRetry(log, session)
  BY <1>1, <1>5, InLogAborted
<1>6. ASSUME AfterRun(FinishRun, {}) PROVE InLog(log, turn) \/ turn = Head(queued_prompts)
  BY <1>2, <1>3, <1>6, AfterRunOrder
<1>7. CASE RunResult
  <2>1. CASE RunPanics
    BY <1>1, <2>1, AfterRunOrder DEF RunPanics
  <2>2. CASE RunCompletes
    BY <1>6, <2>2 DEF RunCompletes
  <2>3. ASSUME NEW error \in UiErrors, GiveUpOnRun(error)
        PROVE  InLog(log, turn) \/ turn = Head(queued_prompts)
    BY <1>6, <2>3 DEF GiveUpOnRun
  <2>4. ASSUME NEW error \in UiErrors, CompactAndContinue(error) \/ ArmRetry(error)
        PROVE  InLog(log, turn) \/ turn = Head(queued_prompts)
    BY <1>4, <2>4 DEF CompactAndContinue, ArmRetry
  <2> QED BY <1>7, <2>1, <2>2, <2>3, <2>4 DEF RunResult, RunFails
<1>8. CASE GateCompacts \/ RetryDeadlineFires \/ CloseChannel \/ UNCHANGED vars
  BY <1>4, <1>8 DEF GateCompacts, RetryDeadlineFires, CloseChannel, vars
<1>9. CASE SeeClosedChannel
  BY <1>5, <1>9 DEF SeeClosedChannel
<1>10. CASE UserStep
  <2>1. CASE SubmitPrompt
    <3>1. loop = "looping" /\ ~current_run.active
      BY <2>1 DEF SubmitPrompt, NewPrompt, UiAction
    <3> QED BY <3>1 DEF IInv, NoStrandedFollowUp
  <2>2. CASE QueuePrompt \/ AbortAndQueuePrompt \/ CommandFails
    BY <1>4, <2>2 DEF QueuePrompt, AbortAndQueuePrompt, CommandFails
  <2>3. CASE Abort \/ Quit \/ RunAffectingChange
    BY <1>5, <2>3 DEF Abort, Quit, RunAffectingChange
  <2>4. ASSUME NEW copy, FileStart(log, session, copy), MoveToNewFile(copy)
        PROVE  InLog(log, turn) \/ turn = Head(queued_prompts)
    <3>1. PICK s \in Sessions : log' = AbortPendingRetry(Copied(log, s, copy), s)
      BY <2>4 DEF MoveToNewFile, Copied
    <3>2. Copied(log, s, copy) \in Logs
      BY <1>1, <2>4, CopiedEntries DEF Rewritten
    <3>3. InLog(Copied(log, s, copy), turn)
      BY <3>1, <3>2, InLogAborted
    <3> QED BY <1>1, <2>4, <3>3, InLogCopied
  <2>5. CASE NewSession \/ ForkSession
    BY <2>4, <2>5 DEF NewSession, ForkSession, FileStart
  <2>6. CASE SwitchSession
    <3>1. PICK s \in created : log' = AbortPendingRetry(log, s)
      BY <2>6 DEF SwitchSession
    <3>2. s \in Sessions
      BY <3>1 DEF IInv, TypeOK
    <3> QED BY <1>1, <3>1, <3>2, InLogAborted
  <2> QED BY <1>10, <2>1, <2>2, <2>3, <2>5, <2>6 DEF UserStep
<1> QED BY <1>7, <1>8, <1>9, <1>10 DEF Next

\* Follow-ups are started in the order the queue has them: no step starts another
\* prompt while one waits, and what it starts is the first of those waiting.
THEOREM FollowUpOrder == Spec => FollowUpsInOrder
<1> DEFINE InOrder ==
        \A turn \in Turns :
          Started(turn)' /\ ~Started(turn) /\ queued_prompts # <<>>
              => turn = Head(queued_prompts)
<1>1. IInv /\ IInv' /\ [Next]_vars => InOrder
  <2> SUFFICES ASSUME IInv, IInv', [Next]_vars, NEW turn \in Turns,
                      Started(turn)', ~Started(turn), queued_prompts # <<>>
               PROVE  turn = Head(queued_prompts)
    OBVIOUS
  <2>1. /\ \A s \in Sessions : DOMAIN log[s] = 1..Len(log[s])
        /\ \A s \in Sessions : DOMAIN log'[s] = 1..Len(log'[s])
    BY DEF IInv, TypeOK
  <2>2. InLog(log', turn) /\ ~InLog(log, turn)
    BY <2>1 DEF Started, InLog
  <2> QED BY <2>2, OrderStep
<1>2. IInv /\ IInv' /\ [Next]_vars => [InOrder]_vars
  BY <1>1
<1>3. Spec => [][InOrder]_vars
  BY <1>2, Invariance, PTL DEF Spec
<1> QED BY <1>3 DEF FollowUpsInOrder
=============================================================================
