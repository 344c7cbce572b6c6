----------------------------- MODULE HostProofs -----------------------------
(***************************************************************************)
(* What a host without a terminal may rely on, for any number of events,   *)
(* lines, prompts and retries: print mode does not exit before its prompt  *)
(* is answered or lost, and RPC mode tells every event once and in order.  *)
(***************************************************************************)
EXTENDS MCFrontEnds, ControllerProofs, SequenceTheorems

-----------------------------------------------------------------------------
(***************************************************************************)
(* PrintMode, over the invariants of the controller.                       *)
(***************************************************************************)
\* Nothing asks the loop to end but the end of the prompt's last run, nothing waits
\* in the queue, and behind the end no turn is left open.
PrintInv ==
    /\ IInv /\ LogInv
    /\ queued_prompts = <<>>
    /\ loop = "looping" => ~quitting
    /\ loop # "looping" => prompts > 0 /\ Open = {}
    /\ process = "ended" => loop # "looping"

LEMMA PrintStart == PrintInit => PrintInv
<1> SUFFICES ASSUME PrintInit PROVE PrintInv
    OBVIOUS
<1>1. IInv /\ LogInv
    BY InitIInv, InitLog DEF PrintInit
<1> QED BY <1>1 DEF PrintInit, PrintInv, Init

\* A turn in flight was submitted.
LEMMA OpenSubmitted ==
    ASSUME LogInv, IInv, Open # {}
    PROVE  prompts > 0
<1>1. PICK turn \in Open : TRUE
    OBVIOUS
<1>2. Len(log[session]) > 0 /\ log[session][Len(log[session])] = Entry("user", turn)
    BY <1>1 DEF LogInv, Kept, Pending
<1>3. session \in Sessions /\ Len(log[session]) \in Nat /\ prompts \in Nat
    BY NumberTypes DEF IInv, TypeOK
<1>4. Entry("user", turn).turn \in 1..prompts
    <2>1. Len(log[session]) \in 1..Len(log[session])
        BY <1>2, <1>3
    <2> QED BY <1>2, <1>3, <2>1 DEF LogInv, Kept, Shaped
<1> QED BY <1>3, <1>4

\* The end of a run: the loop goes on with a retry or a continuation, or it ends.
LEMMA ResultPrints ==
    ASSUME PrintInv, RunResult
    PROVE  /\ queued_prompts' = <<>>
           /\ loop' = "looping" => ~quitting'
           /\ loop' # "looping" => prompts' > 0 /\ Open' = {}
<1>1. current_run.active /\ ~pending_retry.armed /\ queued_prompts = <<>> /\ ~quitting
      /\ loop = "looping" /\ prompts' = prompts
    BY DEF PrintInv, IInv, RunXorRetry, RunResult, RunCompletes, RunPanics, RunFails,
           CompactAndContinue, ArmRetry, GiveUpOnRun, RunEnds
<1>2. prompts > 0
    BY <1>1, OpenSubmitted DEF PrintInv, Open
<1>3. ASSUME NEW L, NEW gone, AfterRun(L, gone)
      PROVE  queued_prompts' = <<>> /\ loop' # "looping" /\ Open' = {}
    <2>1. /\ current_run' = NoRun /\ pending_retry' = pending_retry
          /\ quitting' /\ queued_prompts' = queued_prompts /\ QuitCheck
        BY <1>1, <1>3, PrintAssumption DEF AfterRun
    <2>2. ~current_run'.active /\ ~pending_retry'.armed
        BY <1>1, <2>1 DEF NoRun
    <2> QED BY <1>1, <2>1, <2>2 DEF QuitCheck, Open
<1>4. CASE RunCompletes \/ RunPanics
    BY <1>1, <1>2, <1>3, <1>4 DEF RunCompletes, RunPanics
<1>5. CASE RunFails
    <2>1. PICK error \in UiErrors :
              CompactAndContinue(error) \/ ArmRetry(error) \/ GiveUpOnRun(error)
        BY <1>5 DEF RunFails
    <2>2. CASE CompactAndContinue(error) \/ ArmRetry(error)
        <3>1. UNCHANGED <<loop, quitting, queued_prompts>>
            BY <2>2 DEF CompactAndContinue, ArmRetry
        <3> QED BY <1>1, <3>1
    <2>3. CASE GiveUpOnRun(error)
        BY <1>1, <1>2, <1>3, <2>3 DEF GiveUpOnRun
    <2> QED BY <2>1, <2>2, <2>3
<1> QED BY <1>4, <1>5 DEF RunResult

LEMMA ControllerPrints == ASSUME PrintInv, ControllerStep PROVE PrintInv'
<1>1. process' = process /\ loop = "looping"
    BY DEF ControllerStep, RunResult, RunCompletes, RunPanics, RunFails, CompactAndContinue,
           ArmRetry, GiveUpOnRun, RunEnds, GateCompacts, RetryDeadlineFires
<1>2. process # "ended"
    BY <1>1 DEF PrintInv
<1>3. CASE RunResult
    BY <1>1, <1>2, <1>3, ResultPrints, RunResultIInv, RunResultLog DEF PrintInv
<1>4. CASE GateCompacts \/ RetryDeadlineFires
    <2>1. queued_prompts' = queued_prompts /\ loop' = loop /\ quitting' = quitting
        BY <1>4 DEF GateCompacts, RetryDeadlineFires
    <2>2. IInv' /\ LogInv'
        BY <1>4, GateCompactsIInv, RetryDeadlineFiresIInv, GateAndBackoffLog DEF PrintInv
    <2> QED BY <1>1, <1>2, <2>1, <2>2 DEF PrintInv
<1> QED BY <1>3, <1>4 DEF ControllerStep

LEMMA SubmitPrints == ASSUME PrintInv, SendPrompt PROVE PrintInv'
<1>1. SubmitPrompt /\ process' = process /\ loop = "looping" /\ quitting' = quitting
      /\ queued_prompts' = queued_prompts /\ prompts' = prompts + 1 /\ prompts = 0
    BY DEF SendPrompt, SubmitPrompt, NewPrompt, UiAction
<1>2. IInv' /\ LogInv'
    BY <1>1, UserStepIInv, UserStepLog DEF PrintInv, UserStep
<1>3. loop' # "looping" => Open' = {}
    <2>1. loop' = "looping" \/ (current_run' = NoRun /\ pending_retry' = Idle)
        BY <1>1 DEF SubmitPrompt, StartPromptRun, Fatal
    <2> QED BY <2>1 DEF Open, NoRun, Idle
<1> QED BY <1>1, <1>2, <1>3 DEF PrintInv

LEMMA AbortPrints == ASSUME PrintInv, CtrlC PROVE PrintInv'
<1>1. Abort /\ process' = process /\ loop = "looping" /\ quitting' = quitting /\ ~quitting
      /\ queued_prompts' = queued_prompts /\ QuitCheck
    BY DEF CtrlC, Abort, Command, UiAction, PrintInv
<1>2. IInv' /\ LogInv'
    BY <1>1, UserStepIInv, UserStepLog DEF PrintInv, UserStep
<1>3. loop' = "looping"
    BY <1>1 DEF QuitCheck
<1> QED BY <1>1, <1>2, <1>3 DEF PrintInv

LEMMA PrintStep == PrintInv /\ [PrintNext]_printVars => PrintInv'
<1> SUFFICES ASSUME PrintInv, [PrintNext]_printVars PROVE PrintInv'
    OBVIOUS
<1>1. ASSUME UNCHANGED vars, process' = process \/ loop # "looping" PROVE PrintInv'
    <2>1. IInv' /\ LogInv'
        <3>1. IInv'
            BY <1>1, StutterIInv DEF PrintInv
        <3> QED BY <1>1, <3>1 DEF PrintInv, LogInv, Open, vars
    <2>2. Open' = Open
        BY <1>1 DEF Open, vars
    <2> QED BY <1>1, <2>1, <2>2 DEF PrintInv, vars
<1>2. CASE PrinterEnds
    BY <1>1, <1>2 DEF PrinterEnds
<1>3. CASE UNCHANGED printVars
    BY <1>1, <1>3 DEF printVars
<1> QED
    BY <1>2, <1>3, ControllerPrints, SubmitPrints, AbortPrints DEF PrintNext

\* Behind the end of the loop a prompt that reached the log is answered or lost.
LEMMA PrintInvSound == PrintInv => NoEarlyExit
<1> SUFFICES ASSUME PrintInv, process = "ended", NEW turn \in Turns, Started(turn)
             PROVE  turn \in lost \/ \E s \in Sessions : Answers(log, s, turn) # {}
    BY DEF PrintInv, NoEarlyExit
<1>1. \A s \in Sessions : DOMAIN log[s] = 1..Len(log[s]) /\ Len(log[s]) \in Nat
    BY NumberTypes DEF PrintInv, IInv, TypeOK, Logs
<1>2. PICK s \in Sessions : \E i \in 1..Len(log[s]) : log[s][i] = Entry("user", turn)
    BY <1>1 DEF Started
<1>3. PICK i \in 1..Len(log[s]) : log[s][i] = Entry("user", turn)
    BY <1>2
<1>4. log[s][i].kind = "user" /\ log[s][i].turn = turn
    BY <1>3 DEF Entry
<1>5. Open = {}
    BY DEF PrintInv
<1>6. AnsweredBehind(log, s, i) \/ turn \in lost \/ LeftElsewhere(log, s, turn)
    BY <1>4, <1>5 DEF PrintInv, LogInv, Kept, Accounted
<1>7. CASE AnsweredBehind(log, s, i)
    BY <1>1, <1>4, <1>7 DEF AnsweredBehind, Answers
<1>8. CASE LeftElsewhere(log, s, turn)
    <2>1. PICK t \in Sessions : \E j \in 1..Len(log[t]) : log[t][j] = Entry("breadcrumb", turn)
        BY <1>8 DEF LeftElsewhere
    <2>2. PICK j \in 1..Len(log[t]) : log[t][j] = Entry("breadcrumb", turn)
        BY <2>1
    <2>3. log[t][j].kind = "breadcrumb" /\ log[t][j].turn = turn
        BY <2>2 DEF Entry
    <2> QED BY <1>1, <2>3 DEF Answers
<1> QED BY <1>6, <1>7, <1>8

\* Print mode does not exit with its prompt neither answered nor lost, whatever
\* the retries, the compactions and a Ctrl-C do to the run.
THEOREM PrintAnswers == PrintSpec => []NoEarlyExit
BY PrintStart, PrintStep, PrintInvSound, PTL DEF PrintSpec

-----------------------------------------------------------------------------
(***************************************************************************)
(* RpcMode: what stdout tells, for one more message and one more line.     *)
(***************************************************************************)
Messages == [id : Nat, size : {"hello", "error", "short", "long"}]

\* The lines tell of the events T, in their order.
Tells(L, T) ==
    /\ {Message(L, p) : p \in Told(L)} = T
    /\ \A p, q \in Told(L) : Earlier(p, q) => Message(L, p).id < Message(L, q).id

\* M is L with the message m behind all others.
OneMessage(L, M, m) ==
    \E new : /\ Places(M) = Places(L) \cup {new}
             /\ new \notin Places(L) /\ Message(M, new) = m
             /\ ~Earlier(new, new)
             /\ \A p \in Places(L) :
                   Message(M, p) = Message(L, p) /\ ~Earlier(new, p)

SamePlaces(L, M) == Places(M) = Places(L) /\ \A p \in Places(L) : Message(M, p) = Message(L, p)

\* A place is a pair of numbers.
LEMMA PlaceIs ==
    ASSUME NEW L, NEW n \in Nat, DOMAIN L = 1..n, NEW p
    PROVE  p \in Places(L) <=> \E i \in 1..n : \E j \in DOMAIN L[i] : p = <<i, j>>
BY DEF Places

\* The last line takes one more message, and may be ended.
LEMMA MessageAdded ==
    ASSUME NEW a \in Seq(Seq(Messages)), NEW o \in Seq(Messages), NEW m \in Messages, NEW M,
           M = Append(a, Append(o, m)) \/ M = Append(Append(a, Append(o, m)), <<>>)
    PROVE  OneMessage(Append(a, o), M, m)
<1> DEFINE n == Len(a)
           k == Len(o)
<1>1. PICK L : L = Append(a, o)
    OBVIOUS
<1>2. n \in Nat /\ k \in Nat /\ DOMAIN o = 1..k
    OBVIOUS
<1>3. /\ DOMAIN L = 1..(n + 1) /\ L[n + 1] = o
      /\ \A i \in 1..n : L[i] = a[i]
    BY <1>1
<1>4. PICK w : w = Append(o, m)
    OBVIOUS
<1>5. w \in Seq(Messages) /\ DOMAIN w = 1..(k + 1) /\ w[k + 1] = m /\ \A j \in 1..k : w[j] = o[j]
    BY <1>4
<1>6. PICK N : N = Append(a, w)
    OBVIOUS
<1>7. /\ N \in Seq(Seq(Messages)) /\ Len(N) = n + 1 /\ DOMAIN N = 1..(n + 1) /\ N[n + 1] = w
      /\ \A i \in 1..n : N[i] = a[i]
    BY <1>5, <1>6
<1>8. M = N \/ M = Append(N, <<>>)
    BY <1>4, <1>6
<1>9. PICK l \in {n + 1, n + 2} :
          /\ DOMAIN M = 1..l /\ M[n + 1] = w
          /\ \A i \in 1..n : M[i] = a[i]
          /\ l = n + 2 => DOMAIN M[l] = {}
    <2>1. CASE M = N
        BY <1>2, <1>7, <2>1
    <2>2. CASE M = Append(N, <<>>)
        BY <1>2, <1>7, <2>2
    <2> QED BY <1>8, <2>1, <2>2
<1> HIDE DEF n, k
<1>10. ASSUME NEW p
       PROVE  p \in Places(L) <=> \E i \in 1..(n + 1) : \E j \in DOMAIN L[i] : p = <<i, j>>
    <2>1. n + 1 \in Nat /\ DOMAIN L = 1..(n + 1)
        BY <1>2, <1>3
    <2> QED BY <2>1, PlaceIs
<1>11. ASSUME NEW p
       PROVE  p \in Places(M) <=> p \in Places(L) \/ p = <<n + 1, k + 1>>
    <2>1. p \in Places(L) <=> \E i \in 1..(n + 1) : \E j \in DOMAIN L[i] : p = <<i, j>>
        BY <1>10
    <2>2. p \in Places(M) <=> \E i \in 1..l : \E j \in DOMAIN M[i] : p = <<i, j>>
        BY <1>2, <1>9, PlaceIs
    <2>3. \A i \in 1..n : M[i] = L[i]
        BY <1>3, <1>9
    <2>4. DOMAIN M[n + 1] = DOMAIN L[n + 1] \cup {k + 1}
        BY <1>2, <1>3, <1>5, <1>9
    <2>5. (\E i \in 1..l : \E j \in DOMAIN M[i] : p = <<i, j>>)
              <=> (\E i \in 1..(n + 1) : \E j \in DOMAIN M[i] : p = <<i, j>>)
        <3>1. CASE l = n + 1
            BY <3>1
        <3>2. CASE l = n + 2
            <4>1. \A i \in 1..l : i \in 1..(n + 1) \/ i = l
                BY <1>2, <3>2
            <4>2. \A i \in 1..(n + 1) : i \in 1..l
                BY <1>2, <3>2
            <4> QED BY <1>9, <3>2, <4>1, <4>2
        <3> QED BY <3>1, <3>2
    <2>6. \A i \in 1..(n + 1) : i \in 1..n \/ i = n + 1
        BY <1>2
    <2>7. n + 1 \in 1..(n + 1) /\ \A i \in 1..n : i \in 1..(n + 1)
        BY <1>2
    <2>8. (\E i \in 1..(n + 1) : \E j \in DOMAIN M[i] : p = <<i, j>>)
              <=> (\E i \in 1..n : \E j \in DOMAIN M[i] : p = <<i, j>>)
                  \/ \E j \in DOMAIN M[n + 1] : p = <<n + 1, j>>
        BY <2>6, <2>7
    <2>9. (\E i \in 1..(n + 1) : \E j \in DOMAIN L[i] : p = <<i, j>>)
              <=> (\E i \in 1..n : \E j \in DOMAIN L[i] : p = <<i, j>>)
                  \/ \E j \in DOMAIN L[n + 1] : p = <<n + 1, j>>
        BY <2>6, <2>7
    <2>10. (\E i \in 1..n : \E j \in DOMAIN M[i] : p = <<i, j>>)
              <=> (\E i \in 1..n : \E j \in DOMAIN L[i] : p = <<i, j>>)
        BY <2>3
    <2>11. (\E j \in DOMAIN M[n + 1] : p = <<n + 1, j>>)
              <=> (\E j \in DOMAIN L[n + 1] : p = <<n + 1, j>>) \/ p = <<n + 1, k + 1>>
        BY <2>4
    <2> QED BY <2>1, <2>2, <2>5, <2>8, <2>9, <2>10, <2>11
<1>12. ASSUME NEW p \in Places(L)
       PROVE  /\ Message(M, p) = Message(L, p)
              /\ ~Earlier(<<n + 1, k + 1>>, p) /\ p # <<n + 1, k + 1>>
    <2>1. PICK i \in 1..(n + 1) : \E j \in DOMAIN L[i] : p = <<i, j>>
        BY <1>10
    <2>2. PICK j \in DOMAIN L[i] : p = <<i, j>>
        BY <2>1
    <2>3. CASE i = n + 1
        <3>1. j \in 1..k
            BY <1>2, <1>3, <2>3
        <3> QED BY <1>2, <1>3, <1>5, <1>9, <2>2, <2>3, <3>1 DEF Message, Earlier
    <2>4. CASE i # n + 1
        <3>1. i \in 1..n
            BY <1>2, <2>4
        <3> QED BY <1>2, <1>3, <1>9, <2>2, <3>1 DEF Message, Earlier
    <2> QED BY <2>3, <2>4
<1>13. Message(M, <<n + 1, k + 1>>) = m
    BY <1>2, <1>5, <1>9 DEF Message
<1>14. ~Earlier(<<n + 1, k + 1>>, <<n + 1, k + 1>>)
    BY <1>2 DEF Earlier
<1>15. Places(M) = Places(L) \cup {<<n + 1, k + 1>>} /\ <<n + 1, k + 1>> \notin Places(L)
    BY <1>11, <1>12
<1> QED BY <1>1, <1>12, <1>13, <1>14, <1>15 DEF OneMessage

\* A line is ended.
LEMMA LineEnded ==
    ASSUME NEW a \in Seq(Seq(Messages)), NEW o \in Seq(Messages)
    PROVE  SamePlaces(Append(a, o), Append(Append(a, o), <<>>))
<1>1. PICK L : L = Append(a, o)
    OBVIOUS
<1>2. PICK l : l = Len(L)
    OBVIOUS
<1>3. L \in Seq(Seq(Messages)) /\ l \in Nat /\ DOMAIN L = 1..l
    BY <1>1, <1>2
<1>4. PICK M : M = Append(L, <<>>)
    OBVIOUS
<1>5. DOMAIN M = 1..(l + 1) /\ DOMAIN M[l + 1] = {} /\ \A i \in 1..l : M[i] = L[i]
    BY <1>2, <1>3, <1>4
<1>6. ASSUME NEW p PROVE p \in Places(M) <=> p \in Places(L)
    <2>1. p \in Places(L) <=> \E i \in 1..l : \E j \in DOMAIN L[i] : p = <<i, j>>
        BY <1>3, PlaceIs
    <2>2. p \in Places(M) <=> \E i \in 1..(l + 1) : \E j \in DOMAIN M[i] : p = <<i, j>>
        BY <1>3, <1>5, PlaceIs
    <2>3. \A i \in 1..(l + 1) : i \in 1..l \/ i = l + 1
        BY <1>3
    <2>4. \A i \in 1..l : i \in 1..(l + 1)
        BY <1>3
    <2> QED BY <1>5, <2>1, <2>2, <2>3, <2>4
<1>7. ASSUME NEW p \in Places(L) PROVE Message(M, p) = Message(L, p)
    <2>1. PICK i \in 1..l : \E j \in DOMAIN L[i] : p = <<i, j>>
        BY <1>3, PlaceIs
    <2> QED BY <1>5, <2>1 DEF Message
<1>8. Places(M) = Places(L)
    BY <1>6
<1> QED BY <1>1, <1>4, <1>7, <1>8 DEF SamePlaces

LEMMA SameTells == ASSUME NEW L, NEW M, NEW T, Tells(L, T), SamePlaces(L, M) PROVE Tells(M, T)
<1>1. Told(M) = Told(L) /\ \A p \in Told(L) : Message(M, p) = Message(L, p)
    BY DEF SamePlaces, Told
<1>2. {Message(M, p) : p \in Told(M)} = {Message(L, p) : p \in Told(L)}
    BY <1>1
<1> QED BY <1>1, <1>2 DEF Tells

\* An error is no event.
LEMMA ErrorTells ==
    ASSUME NEW L, NEW M, NEW T, NEW m, Tells(L, T), OneMessage(L, M, m), m.id = 0
    PROVE  Tells(M, T)
<1>1. PICK new :
          /\ Places(M) = Places(L) \cup {new} /\ Message(M, new) = m
          /\ \A p \in Places(L) : Message(M, p) = Message(L, p)
    BY DEF OneMessage
<1>2. ~(Message(M, new).id > 0)
    BY <1>1
<1>3. Told(M) = Told(L) /\ \A p \in Told(L) : Message(M, p) = Message(L, p)
    BY <1>1, <1>2 DEF Told
<1>4. {Message(M, p) : p \in Told(M)} = {Message(L, p) : p \in Told(L)}
    BY <1>3
<1> QED BY <1>3, <1>4 DEF Tells

\* One more event, younger than those told.
LEMMA EventTells ==
    ASSUME NEW L, NEW M, NEW T, NEW m, Tells(L, T), OneMessage(L, M, m), m.id > 0,
           \A e \in T : e.id < m.id
    PROVE  Tells(M, T \cup {m})
<1>1. PICK new :
          /\ Places(M) = Places(L) \cup {new} /\ Message(M, new) = m
          /\ ~Earlier(new, new)
          /\ \A p \in Places(L) : Message(M, p) = Message(L, p) /\ ~Earlier(new, p)
    BY DEF OneMessage
<1>2. Told(M) = Told(L) \cup {new}
    BY <1>1 DEF Told
<1>3. \A p \in Told(L) : Message(M, p) = Message(L, p) /\ ~Earlier(new, p)
    BY <1>1 DEF Told
<1>4. {Message(M, p) : p \in Told(M)} = {Message(L, p) : p \in Told(L)} \cup {m}
    BY <1>1, <1>2, <1>3
<1>5. \A p \in Told(L) : Message(L, p).id < m.id
    BY DEF Tells
<1>6. ASSUME NEW p \in Told(M), NEW q \in Told(M), Earlier(p, q)
      PROVE  Message(M, p).id < Message(M, q).id
    <2>1. p \in Told(L)
        BY <1>1, <1>2, <1>3, <1>6
    <2>2. CASE q \in Told(L)
        BY <1>3, <1>6, <2>1, <2>2 DEF Tells
    <2>3. CASE q = new
        BY <1>1, <1>3, <1>5, <2>1, <2>3
    <2> QED BY <1>2, <2>2, <2>3
<1> QED BY <1>4, <1>6 DEF Tells

-----------------------------------------------------------------------------
(***************************************************************************)
(* RpcMode: the printer, the channel and the ends of the three tasks.      *)
(***************************************************************************)
RpcTyped ==
    /\ host \in [lines : Nat, stdin : {"open", "closed", "unreadable"}, stdout : {"open", "broken"}]
    /\ rpc \in {"reading", "controller", "printer", "ended", "error"}
    /\ core \in {"idle", "running", "cancelled", "ended", "failed"}
    /\ printer \in {"waiting", "newline", "ended", "failed"}
    /\ output \in [lines : Seq(Seq(Messages)), open : Seq(Messages)]
    /\ actions \in Seq(RpcCommands) /\ lines_in \in Seq(RpcCommands \cup {"blank", "garbage"})
    /\ events \in Seq(Messages) /\ sent \in Seq(Messages)
    /\ raced \in BOOLEAN

\* The last line is open only behind a long event, or behind what broke stdout.
LineOpen ==
    /\ printer \in {"waiting", "ended"} => output.open = <<>>
    /\ printer = "newline" => raced \/ Len(output.open) = 1
    /\ printer = "failed" => host.stdout # "open"
    /\ LinesWhole

\* Each task outlives what it reads from.
EndsInOrder ==
    /\ core = "ended" => actions = <<>> /\ rpc # "reading"
    /\ printer = "ended" => events = <<>> /\ core \in {"ended", "failed"}
    /\ rpc = "ended" => printer = "ended"

\* The channel E holds what was sent, S, behind the first n.
Holds(S, E, n) == Len(S) = n + Len(E) /\ \A k \in 1..Len(E) : E[k] = S[n + k]

\* The events told are the first n sent, and the channel holds the rest.
DeliveredTo(n) ==
    /\ Tells(Lines, {sent[i] : i \in 1..n})
    /\ printer # "failed" => Holds(sent, events, n)

Delivery ==
    /\ \A i \in 1..Len(sent) : sent[i].id = i
    /\ \E n \in 0..Len(sent) : DeliveredTo(n)

RpcInv == RpcTyped /\ LineOpen /\ EndsInOrder /\ Delivery

LEMMA RpcStart == RpcInit => RpcInv
<1> SUFFICES ASSUME RpcInit PROVE RpcInv
    OBVIOUS
<1>1. PICK m : m = Hello
    OBVIOUS
<1>2. m \in Messages /\ m.id = 0
    BY <1>1 DEF Hello, Messages
<1>3. PICK a : a = << <<m>> >>
    OBVIOUS
<1>4. /\ a \in Seq(Seq(Messages)) /\ Len(a) = 1 /\ a[1] = <<m>>
      /\ output.lines = a /\ output.open = <<>> /\ output = [lines |-> a, open |-> <<>>]
    BY <1>1, <1>2, <1>3 DEF RpcInit
<1>5. RpcTyped
    <2>1. <<>> \in Seq(Messages) /\ <<>> \in Seq(RpcCommands)
          /\ <<>> \in Seq(RpcCommands \cup {"blank", "garbage"})
        OBVIOUS
    <2> QED BY <1>4, <2>1 DEF RpcInit, RpcTyped
<1>6. LineOpen
    BY <1>3, <1>4 DEF RpcInit, LineOpen, LinesWhole
<1>7. EndsInOrder
    BY DEF RpcInit, EndsInOrder
<1>8. Delivery
    <2>1. PICK L : L = Lines
        OBVIOUS
    <2>2. DOMAIN L = 1..2 /\ L[1] = <<m>> /\ L[2] = <<>>
        <3>1. PICK o : o = output.open
            OBVIOUS
        <3>2. L = Append(a, o) /\ o = <<>> /\ o \in Seq(Messages)
            BY <1>4, <2>1, <3>1 DEF Lines
        <3>3. L = Append(a, o) /\ a \in Seq(Seq(Messages)) /\ o \in Seq(Messages)
            BY <1>4, <3>2
        <3>4. /\ DOMAIN L = 1..(Len(a) + 1) /\ L[Len(a) + 1] = o
              /\ \A i \in 1..Len(a) : L[i] = a[i]
            BY <3>3
        <3>5. Len(a) = 1 /\ a[1] = <<m>> /\ o = <<>>
            BY <1>4, <3>2
        <3> QED BY <3>4, <3>5
    <2>3. ASSUME NEW p \in Places(L) PROVE Message(L, p) = m
        <3>1. PICK i \in 1..2 : \E j \in DOMAIN L[i] : p = <<i, j>>
            BY <2>2, PlaceIs
        <3>2. PICK j \in DOMAIN L[i] : p = <<i, j>>
            BY <3>1
        <3>3. i = 1 /\ j = 1
            BY <2>2, <3>2
        <3> QED BY <2>2, <3>2, <3>3 DEF Message
    <2>4. Told(L) = {}
        BY <1>2, <2>3 DEF Told
    <2>5. sent = <<>> /\ events = <<>> /\ printer = "waiting"
        BY DEF RpcInit
    <2>6. {sent[i] : i \in 1..0} = {}
        OBVIOUS
    <2>7. {Message(L, p) : p \in Told(L)} = {}
        BY <2>4
    <2>8. Tells(Lines, {sent[i] : i \in 1..0})
        BY <2>1, <2>4, <2>6, <2>7 DEF Tells
    <2>9. Holds(sent, events, 0)
        BY <2>5 DEF Holds
    <2>10. DeliveredTo(0)
        BY <2>8, <2>9 DEF DeliveredTo
    <2>11. Len(sent) = 0 /\ 0 \in 0..Len(sent)
        BY <2>5
    <2> QED BY <2>10, <2>11 DEF Delivery
<1> QED BY <1>5, <1>6, <1>7, <1>8 DEF RpcInv

\* The steps of host, reader and controller that neither send nor write.
LEMMA QuietDelivery ==
    ASSUME Delivery, UNCHANGED <<output, sent, events, printer>> PROVE Delivery'
<1>1. Lines' = Lines
    BY DEF Lines
<1>2. PICK n \in 0..Len(sent) : DeliveredTo(n)
    BY DEF Delivery
<1>3. DeliveredTo(n)'
    BY <1>1, <1>2 DEF DeliveredTo
<1> QED BY <1>2, <1>3 DEF Delivery

LEMMA ErrorDelivery ==
    ASSUME RpcTyped, Delivery, ErrorWritten, UNCHANGED <<sent, events, printer>>
    PROVE  Delivery'
<1>1. CASE host.stdout # "open"
    BY <1>1, QuietDelivery DEF ErrorWritten
<1>2. CASE host.stdout = "open"
    <2>1. PICK a, o : a = output.lines /\ o = output.open
        OBVIOUS
    <2>2. PICK m : m = ErrorLine
        OBVIOUS
    <2>3. a \in Seq(Seq(Messages)) /\ o \in Seq(Messages) /\ m \in Messages /\ m.id = 0
        BY <2>1, <2>2 DEF RpcTyped, ErrorLine, Messages
    <2>4. Lines = Append(a, o) /\ Lines' = Append(Append(a, Append(o, m)), <<>>)
        <3>1. output'.lines = Append(a, Append(o, m)) /\ output'.open = <<>>
            BY <1>2, <2>1, <2>2 DEF ErrorWritten
        <3> QED BY <2>1, <3>1 DEF Lines
    <2>5. OneMessage(Lines, Lines', m)
        BY <2>3, <2>4, MessageAdded
    <2>6. PICK n \in 0..Len(sent) : DeliveredTo(n)
        BY DEF Delivery
    <2>7. PICK T : T = {sent[i] : i \in 1..n}
        OBVIOUS
    <2>8. Tells(Lines', T)
        BY <2>3, <2>5, <2>6, <2>7, ErrorTells DEF DeliveredTo
    <2>9. DeliveredTo(n)'
        BY <2>6, <2>7, <2>8 DEF DeliveredTo
    <2> QED BY <2>6, <2>9 DEF Delivery
<1> QED BY <1>1, <1>2

\* One event more at the end of both.
LEMMA HeldOneMore ==
    ASSUME NEW S \in Seq(Messages), NEW E \in Seq(Messages), NEW e \in Messages,
           NEW n \in 0..Len(S)
    PROVE  /\ Holds(S, E, n) => Holds(Append(S, e), Append(E, e), n)
           /\ {Append(S, e)[i] : i \in 1..n} = {S[i] : i \in 1..n}
           /\ n \in 0..Len(Append(S, e))
<1>1. PICK z : z = Append(S, e)
    OBVIOUS
<1>2. Len(z) = Len(S) + 1 /\ z[Len(S) + 1] = e /\ (\A i \in 1..Len(S) : z[i] = S[i])
      /\ Len(S) \in Nat
    BY <1>1
<1>3. PICK y : y = Append(E, e)
    OBVIOUS
<1>4. Len(y) = Len(E) + 1 /\ y[Len(E) + 1] = e /\ (\A i \in 1..Len(E) : y[i] = E[i])
      /\ Len(E) \in Nat
    BY <1>3
<1>5. \A i \in 1..n : z[i] = S[i]
    BY <1>2
<1>6. {z[i] : i \in 1..n} = {S[i] : i \in 1..n}
    BY <1>5
<1>7. ASSUME Holds(S, E, n) PROVE Holds(z, y, n)
    <2>1. Len(z) = n + Len(y)
        BY <1>2, <1>4, <1>7 DEF Holds
    <2>2. ASSUME NEW k \in 1..Len(y) PROVE y[k] = z[n + k]
        <3>1. CASE k = Len(E) + 1
            BY <1>2, <1>4, <1>7, <3>1 DEF Holds
        <3>2. CASE k # Len(E) + 1
            <4>1. k \in 1..Len(E) /\ n + k \in 1..Len(S)
                BY <1>2, <1>4, <1>7, <3>2 DEF Holds
            <4> QED BY <1>2, <1>4, <1>7, <4>1 DEF Holds
        <3> QED BY <3>1, <3>2
    <2> QED BY <2>1, <2>2 DEF Holds
<1> QED BY <1>1, <1>2, <1>3, <1>6, <1>7

\* An event is sent.
LEMMA SentKeeps ==
    ASSUME RpcTyped, Delivery, NEW size \in {"short", "long"}, SendEvent(size),
           UNCHANGED <<output, printer>>
    PROVE  Delivery' /\ events' \in Seq(Messages) /\ sent' \in Seq(Messages)
<1>1. CASE printer = "failed"
    BY <1>1, QuietDelivery DEF SendEvent, RpcTyped
<1>2. CASE printer # "failed"
    <2>1. PICK e : e = [id |-> Len(sent) + 1, size |-> size]
        OBVIOUS
    <2>2. events' = Append(events, e) /\ sent' = Append(sent, e)
        BY <1>2, <2>1 DEF SendEvent
    <2>3. e \in Messages /\ e.id = Len(sent) + 1
        BY <2>1 DEF Messages, RpcTyped
    <2>4. PICK n \in 0..Len(sent) : DeliveredTo(n)
        BY DEF Delivery
    <2>5. n \in 0..Len(sent') /\ {sent'[i] : i \in 1..n} = {sent[i] : i \in 1..n}
          /\ (Holds(sent, events, n) => Holds(sent', events', n))
        BY <2>2, <2>3, HeldOneMore DEF RpcTyped
    <2>6. Lines' = Lines
        BY DEF Lines
    <2>7. DeliveredTo(n)'
        BY <2>4, <2>5, <2>6 DEF DeliveredTo
    <2>8. \A i \in 1..Len(sent') : sent'[i].id = i
        <3>1. PICK z : z = sent'
            OBVIOUS
        <3>2. /\ Len(z) = Len(sent) + 1 /\ z[Len(sent) + 1] = e /\ Len(sent) \in Nat
              /\ \A i \in 1..Len(sent) : z[i] = sent[i]
            BY <2>2, <3>1 DEF RpcTyped
        <3>3. \A i \in 1..Len(z) : i \in 1..Len(sent) \/ i = Len(sent) + 1
            BY <3>2
        <3>4. \A i \in 1..Len(z) : z[i].id = i
            BY <2>3, <3>2, <3>3 DEF Delivery
        <3> QED BY <3>1, <3>4
    <2>9. events' \in Seq(Messages) /\ sent' \in Seq(Messages)
        BY <2>2, <2>3 DEF RpcTyped
    <2>10. Delivery'
        BY <2>5, <2>7, <2>8 DEF Delivery
    <2> QED BY <2>9, <2>10
<1> QED BY <1>1, <1>2

LEMMA HostTyped ==
    ASSUME RpcTyped, HostWrites \/ HostStops \/ HostGoesDeaf
    PROVE  /\ host' \in [lines : Nat, stdin : {"open", "closed", "unreadable"},
                         stdout : {"open", "broken"}]
           /\ host.stdout # "open" => host'.stdout # "open"
           /\ lines_in' \in Seq(RpcCommands \cup {"blank", "garbage"})
           /\ UNCHANGED <<rpc, actions, core, events, printer, output, sent, raced>>
<1>1. CASE HostWrites
    <2>1. PICK line \in RpcCommands \cup {"blank", "garbage"} : lines_in' = Append(lines_in, line)
        BY <1>1 DEF HostWrites
    <2>2. lines_in' \in Seq(RpcCommands \cup {"blank", "garbage"})
        BY <2>1 DEF RpcTyped
    <2>3. host' = [host EXCEPT !.lines = @ + 1]
          /\ UNCHANGED <<rpc, actions, core, events, printer, output, sent, raced>>
        BY <1>1 DEF HostWrites
    <2>4. PICK k \in Nat : k = host.lines + 1
        BY DEF RpcTyped
    <2>5. host' = [host EXCEPT !.lines = k]
        BY <2>3, <2>4
    <2>6. host' \in [lines : Nat, stdin : {"open", "closed", "unreadable"}, stdout : {"open", "broken"}]
        BY <2>5 DEF RpcTyped
    <2>7. host'.stdout = host.stdout
        BY <2>5 DEF RpcTyped
    <2> QED BY <2>2, <2>3, <2>6, <2>7
<1>2. CASE HostStops
    BY <1>2 DEF HostStops, RpcTyped
<1>3. CASE HostGoesDeaf
    BY <1>3 DEF HostGoesDeaf, RpcTyped
<1> QED BY <1>1, <1>2, <1>3

LEMMA HostKeeps ==
    ASSUME RpcInv, HostWrites \/ HostStops \/ HostGoesDeaf PROVE RpcInv'
<1>1. UNCHANGED <<rpc, actions, core, events, printer, output, sent, raced>>
    BY HostTyped DEF RpcInv
<1>2. RpcTyped'
    BY <1>1, HostTyped DEF RpcInv, RpcTyped
<1>3. LineOpen'
    BY <1>1, HostTyped DEF RpcInv, LineOpen, LinesWhole
<1>4. EndsInOrder'
    BY <1>1 DEF RpcInv, EndsInOrder
<1> QED BY <1>1, <1>2, <1>3, <1>4, QuietDelivery DEF RpcInv

\* An error ends a line: one of its own, or that of an event.
LEMMA ErrorLines ==
    ASSUME RpcTyped, LineOpen, ErrorWritten, UNCHANGED <<host, printer>>
    PROVE  /\ output' \in [lines : Seq(Seq(Messages)), open : Seq(Messages)]
           /\ raced' \in BOOLEAN /\ rpc' \in {"reading", "error"}
           /\ LineOpen'
<1>1. CASE host.stdout # "open"
    BY <1>1 DEF ErrorWritten, RpcTyped, LineOpen, LinesWhole
<1>2. CASE host.stdout = "open"
    <2>1. PICK a, o : a = output.lines /\ o = output.open
        OBVIOUS
    <2>2. PICK m : m = ErrorLine
        OBVIOUS
    <2>3. a \in Seq(Seq(Messages)) /\ o \in Seq(Messages) /\ m \in Messages
        BY <2>1, <2>2 DEF RpcTyped, ErrorLine, Messages
    <2>4. PICK w : w = Append(o, m)
        OBVIOUS
    <2>5. PICK b : b = Append(a, w)
        OBVIOUS
    <2>6. output' = [lines |-> b, open |-> <<>>] /\ raced' = (raced \/ o # <<>>)
          /\ rpc' = "reading"
        BY <1>2, <2>1, <2>2, <2>4, <2>5 DEF ErrorWritten
    <2>7. w \in Seq(Messages) /\ (o = <<>> => Len(w) = 1)
        BY <2>3, <2>4
    <2>8. b \in Seq(Seq(Messages)) /\ DOMAIN b = 1..(Len(a) + 1) /\ b[Len(a) + 1] = w
          /\ Len(a) \in Nat /\ DOMAIN a = 1..Len(a) /\ \A i \in 1..Len(a) : b[i] = a[i]
        BY <2>3, <2>5, <2>7
    <2>9. output'.lines = b /\ output'.open = <<>>
        BY <2>6
    <2>10. raced' \/ \A i \in DOMAIN b : Len(b[i]) = 1
        <3>1. SUFFICES ASSUME ~raced' PROVE \A i \in DOMAIN b : Len(b[i]) = 1
            OBVIOUS
        <3>2. ~raced /\ Len(w) = 1
            BY <2>6, <2>7, <3>1
        <3>3. \A i \in 1..Len(a) : Len(a[i]) = 1
            BY <2>1, <2>8, <3>2 DEF LineOpen, LinesWhole
        <3>4. \A i \in DOMAIN b : i \in 1..Len(a) \/ i = Len(a) + 1
            BY <2>8
        <3> QED BY <2>8, <3>2, <3>3, <3>4
    <2>11. printer = "newline" => raced'
        <3>1. CASE raced
            BY <2>6, <3>1
        <3>2. ASSUME Len(output.open) = 1 PROVE o # <<>>
            BY <2>1, <3>2
        <3> QED BY <2>6, <3>1, <3>2 DEF LineOpen
    <2>12. LineOpen'
        BY <1>2, <2>9, <2>10, <2>11 DEF LineOpen, LinesWhole
    <2>13. <<>> \in Seq(Messages)
        OBVIOUS
    <2>14. output' \in [lines : Seq(Seq(Messages)), open : Seq(Messages)]
        BY <2>6, <2>8, <2>13
    <2>15. raced' \in BOOLEAN
        BY <2>6 DEF RpcTyped
    <2> QED BY <2>6, <2>12, <2>14, <2>15
<1> QED BY <1>1, <1>2

LEMMA ReadKeeps == ASSUME RpcInv, ReadLine PROVE RpcInv'
<1>1. UNCHANGED <<host, core, events, printer, sent>> /\ rpc = "reading"
      /\ lines_in # <<>> /\ lines_in' = Tail(lines_in)
    BY DEF ReadLine
<1>2. lines_in' \in Seq(RpcCommands \cup {"blank", "garbage"})
    BY <1>1 DEF RpcInv, RpcTyped
<1>3. core # "ended"
    BY <1>1 DEF RpcInv, EndsInOrder
<1>4. CASE ErrorWritten /\ UNCHANGED actions
    <2>1. RpcTyped'
        BY <1>1, <1>2, <1>4, ErrorLines DEF RpcInv, RpcTyped
    <2>2. EndsInOrder'
        BY <1>1, <1>3, <1>4, ErrorLines DEF RpcInv, EndsInOrder
    <2> QED BY <1>1, <1>4, <2>1, <2>2, ErrorLines, ErrorDelivery DEF RpcInv
<1>5. CASE UNCHANGED <<output, raced>> /\ rpc' \in {"reading", "controller"}
           /\ actions' \in Seq(RpcCommands)
    <2>1. RpcTyped'
        BY <1>1, <1>2, <1>5 DEF RpcInv, RpcTyped
    <2>2. LineOpen'
        BY <1>1, <1>5 DEF RpcInv, LineOpen, LinesWhole
    <2>3. EndsInOrder'
        BY <1>1, <1>3, <1>5 DEF RpcInv, EndsInOrder
    <2> QED BY <1>1, <1>5, <2>1, <2>2, <2>3, QuietDelivery DEF RpcInv
<1>6. actions \in Seq(RpcCommands)
    BY DEF RpcInv, RpcTyped
<1>7. PICK line : \/ line = "blank" /\ UNCHANGED <<rpc, actions, output, raced>>
                  \/ ErrorWritten /\ UNCHANGED actions
                  \/ /\ line \in RpcCommands
                     /\ rpc' \in {"reading", "controller"} /\ UNCHANGED <<output, raced>>
                     /\ actions' = actions \/ actions' = Append(actions, line)
    BY <1>1 DEF ReadLine
<1>8. (UNCHANGED <<rpc, actions, output, raced>>) => actions' \in Seq(RpcCommands) /\ rpc' = "reading"
    BY <1>1, <1>6
<1>9. ASSUME NEW l \in RpcCommands PROVE Append(actions, l) \in Seq(RpcCommands)
    BY <1>6
<1> QED BY <1>4, <1>5, <1>6, <1>7, <1>8, <1>9

LEMMA JoinKeeps == ASSUME RpcInv, ReadEnd \/ JoinController \/ JoinPrinter PROVE RpcInv'
<1>1. UNCHANGED <<host, lines_in, actions, core, events, printer, output, sent, raced>>
      /\ rpc' \in {"controller", "printer", "ended", "error"}
      /\ (rpc' = "ended" => printer = "ended")
    BY DEF ReadEnd, JoinController, JoinPrinter
<1>2. RpcTyped'
    BY <1>1 DEF RpcInv, RpcTyped
<1>3. LineOpen' /\ EndsInOrder'
    BY <1>1 DEF RpcInv, LineOpen, LinesWhole, EndsInOrder
<1> QED BY <1>1, <1>2, <1>3, QuietDelivery DEF RpcInv

LEMMA CoreKeeps ==
    ASSUME RpcInv, TakeAction \/ RunTells \/ RunIsOver \/ CoreFails \/ SeeNoSender
    PROVE  RpcInv'
<1>1. /\ UNCHANGED <<host, lines_in, rpc, printer, output, raced>>
      /\ core \in {"idle", "running", "cancelled"}
      /\ core' \in {"idle", "running", "cancelled", "ended", "failed"}
      /\ core' = "ended" => actions' = <<>> /\ rpc # "reading"
    <2>1. CASE TakeAction
        <3>1. UNCHANGED <<host, lines_in, rpc, printer, output, raced>>
              /\ core \in {"idle", "running", "cancelled"}
            BY <2>1 DEF TakeAction, Alone
        <3>2. PICK action : core' = CASE action = "prompt" /\ core = "idle" -> "running"
                                      [] action = "abort" /\ core = "running" -> "cancelled"
                                      [] OTHER -> core
            BY <2>1 DEF TakeAction
        <3>3. core' \in {"idle", "running", "cancelled"}
            BY <3>1, <3>2
        <3> QED BY <3>1, <3>3
    <2>2. CASE RunTells \/ RunIsOver \/ CoreFails
        BY <2>2 DEF RunTells, RunIsOver, CoreFails, Alone
    <2>3. CASE SeeNoSender
        BY <2>3 DEF SeeNoSender, Alone
    <2> QED BY <2>1, <2>2, <2>3
<1>2. actions' \in Seq(RpcCommands)
    <2>1. actions \in Seq(RpcCommands)
        BY DEF RpcInv, RpcTyped
    <2>2. actions' = actions \/ (actions # <<>> /\ actions' = Tail(actions))
        BY DEF TakeAction, RunTells, RunIsOver, CoreFails, SeeNoSender
    <2> QED BY <2>1, <2>2
<1>3. Delivery' /\ events' \in Seq(Messages) /\ sent' \in Seq(Messages)
    <2>1. (\E size \in {"short", "long"} : SendEvent(size)) \/ UNCHANGED <<events, sent>>
        BY DEF TakeAction, RunTells, RunIsOver, CoreFails, SeeNoSender
    <2>2. CASE UNCHANGED <<events, sent>>
        BY <1>1, <2>2, QuietDelivery DEF RpcInv, RpcTyped
    <2>3. CASE \E size \in {"short", "long"} : SendEvent(size)
        BY <1>1, <2>3, SentKeeps DEF RpcInv
    <2> QED BY <2>1, <2>2, <2>3
<1>4. RpcTyped'
    BY <1>1, <1>2, <1>3 DEF RpcInv, RpcTyped
<1>5. LineOpen'
    BY <1>1 DEF RpcInv, LineOpen, LinesWhole
<1>6. EndsInOrder'
    BY <1>1 DEF RpcInv, EndsInOrder
<1> QED BY <1>3, <1>4, <1>5, <1>6 DEF RpcInv

\* The first event of the channel is told.
LEMMA EventDelivery ==
    ASSUME RpcTyped, Delivery, printer = "waiting", events # <<>>, UNCHANGED sent,
           events' = Tail(events), OneMessage(Lines, Lines', Head(events))
    PROVE  Delivery'
<1>1. PICK n \in 0..Len(sent) : DeliveredTo(n)
    BY DEF Delivery
<1>2. PICK S, E, m : S = sent /\ E = events /\ m = Head(events)
    OBVIOUS
<1>3. /\ S \in Seq(Messages) /\ E \in Seq(Messages) /\ E # <<>> /\ m = E[1]
      /\ Len(E) \in Nat /\ Len(E) > 0 /\ Len(S) \in Nat
    BY <1>2 DEF RpcTyped
<1>4. Holds(S, E, n)
    BY <1>1, <1>2 DEF DeliveredTo
<1>5. n + 1 \in 1..Len(S) /\ m = S[n + 1]
    BY <1>3, <1>4 DEF Holds
<1>6. \A i \in 1..Len(S) : S[i].id = i
    BY <1>2 DEF Delivery
<1>7. PICK T : T = {S[i] : i \in 1..n}
    OBVIOUS
<1>8. m.id = n + 1 /\ \A e \in T : e.id < m.id
    <2>1. \A i \in 1..n : S[i].id = i
        BY <1>5, <1>6
    <2> QED BY <1>5, <1>6, <1>7, <2>1
<1>9. T \cup {m} = {S[i] : i \in 1..(n + 1)}
    <2>1. \A i \in 1..(n + 1) : i \in 1..n \/ i = n + 1
        OBVIOUS
    <2>2. n + 1 \in 1..(n + 1) /\ \A i \in 1..n : i \in 1..(n + 1)
        OBVIOUS
    <2> QED BY <1>5, <1>7, <2>1, <2>2
<1>10. Tells(Lines', T \cup {m})
    BY <1>1, <1>2, <1>5, <1>7, <1>8, EventTells DEF DeliveredTo
<1>11. Holds(S, Tail(E), n + 1)
    <2>1. PICK F : F = Tail(E)
        OBVIOUS
    <2>2. Len(F) = Len(E) - 1 /\ \A k \in 1..Len(F) : F[k] = E[k + 1]
        BY <1>3, <2>1
    <2>3. Len(S) = (n + 1) + Len(F)
        BY <1>3, <1>4, <2>2 DEF Holds
    <2>4. ASSUME NEW k \in 1..Len(F) PROVE F[k] = S[(n + 1) + k]
        <3>1. k + 1 \in 1..Len(E) /\ n + (k + 1) = (n + 1) + k
            BY <1>3, <2>2
        <3> QED BY <1>4, <2>2, <3>1 DEF Holds
    <2> QED BY <2>1, <2>3, <2>4 DEF Holds
<1>12. DeliveredTo(n + 1)'
    BY <1>2, <1>9, <1>10, <1>11 DEF DeliveredTo
<1> QED BY <1>2, <1>5, <1>6, <1>12 DEF Delivery

\* A printer that fails has told what it has told.
LEMMA FailedDelivery ==
    ASSUME Delivery, UNCHANGED <<output, sent>>, printer' = "failed" PROVE Delivery'
<1>1. Lines' = Lines
    BY DEF Lines
<1>2. PICK n \in 0..Len(sent) : DeliveredTo(n)
    BY DEF Delivery
<1>3. DeliveredTo(n)'
    BY <1>1, <1>2 DEF DeliveredTo
<1> QED BY <1>2, <1>3 DEF Delivery

LEMMA PrintKeeps == ASSUME RpcInv, PrintEvent PROVE RpcInv'
<1>1. UNCHANGED <<host, lines_in, rpc, actions, core, sent, raced>> /\ printer = "waiting"
      /\ events # <<>> /\ events' = Tail(events)
    BY DEF PrintEvent, PrinterOnly
<1>2. events' \in Seq(Messages)
    BY <1>1 DEF RpcInv, RpcTyped
<1>3. output.open = <<>>
    BY <1>1 DEF RpcInv, LineOpen
<1>4. EndsInOrder'
    BY <1>1 DEF RpcInv, EndsInOrder, PrintEvent
<1>5. CASE host.stdout # "open"
    <2>1. printer' = "failed" /\ UNCHANGED output
        BY <1>5 DEF PrintEvent
    <2>2. RpcTyped'
        BY <1>1, <1>2, <2>1 DEF RpcInv, RpcTyped
    <2>3. LineOpen'
        BY <1>1, <1>5, <2>1 DEF RpcInv, LineOpen, LinesWhole
    <2> QED BY <1>1, <1>4, <2>1, <2>2, <2>3, FailedDelivery DEF RpcInv
<1>6. CASE host.stdout = "open"
    <2>1. PICK a, o, m : a = output.lines /\ o = output.open /\ m = Head(events)
        OBVIOUS
    <2>2. a \in Seq(Seq(Messages)) /\ o \in Seq(Messages) /\ o = <<>> /\ m \in Messages
        BY <1>1, <1>3, <2>1 DEF RpcInv, RpcTyped
    <2>3. PICK w : w = Append(o, m)
        OBVIOUS
    <2>4. w \in Seq(Messages) /\ Len(w) = 1
        BY <2>2, <2>3
    <2>5. PICK b : b = Append(a, w)
        OBVIOUS
    <2>6. b \in Seq(Seq(Messages)) /\ DOMAIN b = 1..(Len(a) + 1) /\ b[Len(a) + 1] = w
          /\ Len(a) \in Nat /\ DOMAIN a = 1..Len(a) /\ \A i \in 1..Len(a) : b[i] = a[i]
        BY <2>2, <2>4, <2>5
    <2>7. Lines = Append(a, o)
        BY <2>1 DEF Lines
    <2>8. CASE m.size = "short"
        <3>1. output' = [lines |-> b, open |-> <<>>] /\ printer' = printer
            BY <1>6, <2>1, <2>3, <2>5, <2>8 DEF PrintEvent
        <3>2. output'.lines = b /\ output'.open = <<>> /\ <<>> \in Seq(Messages)
            BY <3>1
        <3>3. RpcTyped'
            BY <1>1, <1>2, <2>6, <3>1, <3>2 DEF RpcInv, RpcTyped
        <3>4. LineOpen'
            <4>1. raced \/ \A i \in 1..Len(a) : Len(a[i]) = 1
                BY <2>1, <2>6 DEF RpcInv, LineOpen, LinesWhole
            <4>2. \A i \in DOMAIN b : i \in 1..Len(a) \/ i = Len(a) + 1
                BY <2>6
            <4>3. raced \/ \A i \in DOMAIN b : Len(b[i]) = 1
                BY <2>4, <2>6, <4>1, <4>2
            <4> QED BY <1>1, <3>1, <3>2, <4>3 DEF LineOpen, LinesWhole
        <3>5. Lines' = Append(Append(a, Append(o, m)), <<>>)
            BY <2>3, <2>5, <3>2 DEF Lines
        <3>6. OneMessage(Lines, Lines', m)
            BY <2>2, <2>7, <3>5, MessageAdded
        <3>7. Delivery'
            BY <1>1, <2>1, <3>6, EventDelivery DEF RpcInv
        <3> QED BY <1>4, <3>3, <3>4, <3>7 DEF RpcInv
    <2>9. CASE m.size # "short"
        <3>1. output' = [output EXCEPT !.open = Append(@, m)] /\ printer' = "newline"
            BY <1>6, <2>1, <2>9 DEF PrintEvent
        <3>2. output'.lines = a /\ output'.open = w
              /\ output' \in [lines : Seq(Seq(Messages)), open : Seq(Messages)]
            BY <2>1, <2>2, <2>3, <2>4, <3>1 DEF RpcInv, RpcTyped
        <3>3. RpcTyped'
            BY <1>1, <1>2, <3>1, <3>2 DEF RpcInv, RpcTyped
        <3>4. LineOpen'
            BY <1>1, <2>1, <2>4, <3>1, <3>2 DEF RpcInv, LineOpen, LinesWhole
        <3>5. Lines' = Append(a, Append(o, m))
            BY <2>3, <3>2 DEF Lines
        <3>6. OneMessage(Lines, Lines', m)
            BY <2>2, <2>7, <3>5, MessageAdded
        <3>7. Delivery'
            BY <1>1, <2>1, <3>6, EventDelivery DEF RpcInv
        <3> QED BY <1>4, <3>3, <3>4, <3>7 DEF RpcInv
    <2> QED BY <2>8, <2>9
<1> QED BY <1>5, <1>6

LEMMA NewlineKeeps == ASSUME RpcInv, PrintNewline PROVE RpcInv'
<1>1. UNCHANGED <<host, lines_in, rpc, actions, core, events, sent, raced>> /\ printer = "newline"
      /\ rpc # "ended"
    BY DEF PrintNewline, PrinterOnly, Over
<1>2. EndsInOrder'
    BY <1>1 DEF RpcInv, EndsInOrder, PrintNewline
<1>3. CASE host.stdout # "open"
    <2>1. printer' = "failed" /\ UNCHANGED output
        BY <1>3 DEF PrintNewline
    <2>2. RpcTyped'
        BY <1>1, <2>1 DEF RpcInv, RpcTyped
    <2>3. LineOpen'
        BY <1>1, <1>3, <2>1 DEF RpcInv, LineOpen, LinesWhole
    <2> QED BY <1>1, <1>2, <2>1, <2>2, <2>3, FailedDelivery DEF RpcInv
<1>4. CASE host.stdout = "open"
    <2>1. PICK a, o : a = output.lines /\ o = output.open
        OBVIOUS
    <2>2. a \in Seq(Seq(Messages)) /\ o \in Seq(Messages)
        BY <2>1 DEF RpcInv, RpcTyped
    <2>3. PICK b : b = Append(a, o)
        OBVIOUS
    <2>4. b \in Seq(Seq(Messages)) /\ DOMAIN b = 1..(Len(a) + 1) /\ b[Len(a) + 1] = o
          /\ Len(a) \in Nat /\ DOMAIN a = 1..Len(a) /\ \A i \in 1..Len(a) : b[i] = a[i]
        BY <2>2, <2>3
    <2>5. output' = [lines |-> b, open |-> <<>>] /\ printer' = "waiting"
        BY <1>4, <2>1, <2>3 DEF PrintNewline
    <2>6. output'.lines = b /\ output'.open = <<>> /\ <<>> \in Seq(Messages)
        BY <2>5
    <2>7. RpcTyped'
        BY <1>1, <2>4, <2>5, <2>6 DEF RpcInv, RpcTyped
    <2>8. LineOpen'
        <3>1. raced \/ (Len(o) = 1 /\ \A i \in 1..Len(a) : Len(a[i]) = 1)
            BY <1>1, <2>1, <2>4 DEF RpcInv, LineOpen, LinesWhole
        <3>2. \A i \in DOMAIN b : i \in 1..Len(a) \/ i = Len(a) + 1
            BY <2>4
        <3>3. raced \/ \A i \in DOMAIN b : Len(b[i]) = 1
            BY <2>4, <3>1, <3>2
        <3> QED BY <1>1, <2>5, <2>6, <3>3 DEF LineOpen, LinesWhole
    <2>9. Lines = Append(a, o) /\ Lines' = Append(Append(a, o), <<>>)
        BY <2>1, <2>3, <2>6 DEF Lines
    <2>10. SamePlaces(Lines, Lines')
        BY <2>2, <2>9, LineEnded
    <2>11. PICK n \in 0..Len(sent) : DeliveredTo(n)
        BY DEF RpcInv, Delivery
    <2>12. PICK T : T = {sent[i] : i \in 1..n}
        OBVIOUS
    <2>13. Tells(Lines', T)
        BY <2>10, <2>11, <2>12, SameTells DEF DeliveredTo
    <2>14. DeliveredTo(n)'
        BY <1>1, <2>11, <2>12, <2>13 DEF DeliveredTo
    <2>15. Delivery'
        BY <1>1, <2>11, <2>14 DEF RpcInv, Delivery
    <2> QED BY <1>2, <2>7, <2>8, <2>15 DEF RpcInv
<1> QED BY <1>3, <1>4

LEMMA DoneKeeps == ASSUME RpcInv, PrinterIsDone PROVE RpcInv'
<1>1. UNCHANGED <<host, lines_in, rpc, actions, core, events, output, sent, raced>>
      /\ printer = "waiting" /\ printer' = "ended" /\ events = <<>> /\ core \in {"ended", "failed"}
    BY DEF PrinterIsDone, PrinterOnly
<1>2. RpcTyped'
    BY <1>1 DEF RpcInv, RpcTyped
<1>3. LineOpen' /\ EndsInOrder'
    BY <1>1 DEF RpcInv, LineOpen, LinesWhole, EndsInOrder
<1>4. Lines' = Lines
    BY <1>1 DEF Lines
<1>5. PICK n \in 0..Len(sent) : DeliveredTo(n)
    BY DEF RpcInv, Delivery
<1>6. DeliveredTo(n)'
    BY <1>1, <1>4, <1>5 DEF DeliveredTo
<1>7. Delivery'
    BY <1>1, <1>5, <1>6 DEF RpcInv, Delivery
<1> QED BY <1>2, <1>3, <1>7 DEF RpcInv

LEMMA RpcStep == RpcInv /\ [RpcNext]_rpcVars => RpcInv'
<1> SUFFICES ASSUME RpcInv, [RpcNext]_rpcVars PROVE RpcInv'
    OBVIOUS
<1>1. CASE UNCHANGED rpcVars
    <2>1. UNCHANGED <<host, lines_in, rpc, actions, core, events, printer, output, sent, raced>>
        BY <1>1 DEF rpcVars
    <2>2. RpcTyped'
        BY <2>1 DEF RpcInv, RpcTyped
    <2>3. LineOpen' /\ EndsInOrder'
        BY <2>1 DEF RpcInv, LineOpen, LinesWhole, EndsInOrder
    <2> QED BY <2>1, <2>2, <2>3, QuietDelivery DEF RpcInv
<1> QED
    BY <1>1, HostKeeps, ReadKeeps, JoinKeeps, CoreKeeps, PrintKeeps, NewlineKeeps, DoneKeeps
       DEF RpcNext, RpcMain, Printer

\* A printer that has ended has told all: the channel is empty then.
LEMMA RpcInvSound == RpcInv => RpcSound
<1> SUFFICES ASSUME RpcInv PROVE RpcSound
    OBVIOUS
<1>1. PICK n \in 0..Len(sent) : DeliveredTo(n)
    BY DEF RpcInv, Delivery
<1>2. rpc = "ended" => n = Len(sent)
    <2>1. SUFFICES ASSUME rpc = "ended" PROVE n = Len(sent)
        OBVIOUS
    <2>2. printer # "failed" /\ events = <<>>
        BY <2>1 DEF RpcInv, EndsInOrder
    <2>3. Len(sent) = n + 0
        BY <1>1, <2>2 DEF DeliveredTo, Holds
    <2> QED BY <2>3
<1>3. EventsDelivered
    BY <1>1, <1>2 DEF EventsDelivered, DeliveredTo, Tells
<1> QED BY <1>3 DEF RpcInv, RpcSound, LineOpen, EndsInOrder, ActionsDrained

\* A host is told every event once and in order, of an orderly exit all of them, one
\* message a line unless an error broke into it, and no action is passed over.
THEOREM RpcTellsAll == RpcSpec => []RpcSound
BY RpcStart, RpcStep, RpcInvSound, PTL DEF RpcSpec

-----------------------------------------------------------------------------
\* Each part of the front ends moves by its own steps.
LEMMA PartsApart == [FrontEndsNext]_frontVars => [PrintNext]_printVars /\ [RpcNext]_rpcVars
<1> SUFFICES ASSUME [FrontEndsNext]_frontVars PROVE [PrintNext]_printVars /\ [RpcNext]_rpcVars
    OBVIOUS
<1>1. CASE UNCHANGED frontVars
    BY <1>1 DEF frontVars
<1>2. \/ PrintNext /\ Others("print")
      \/ RpcNext /\ Others("rpc")
      \/ UNCHANGED printVars /\ UNCHANGED rpcVars
      \/ UNCHANGED frontVars
    BY DEF FrontEndsNext, Others
<1> QED BY <1>1, <1>2 DEF Others

\* Both hosts without a terminal, beside everything else a user meets.
THEOREM HostsAreServed == FrontEndsSpec => []HostsServed
<1>1. FrontEndsInit => PrintInv /\ RpcInv
    BY PrintStart, RpcStart DEF FrontEndsInit
<1>2. PrintInv /\ RpcInv /\ [FrontEndsNext]_frontVars => PrintInv' /\ RpcInv'
    BY PartsApart, PrintStep, RpcStep
<1>3. PrintInv /\ RpcInv => HostsServed
    BY PrintInvSound, RpcInvSound DEF HostsServed
<1> QED BY <1>1, <1>2, <1>3, PTL DEF FrontEndsSpec
=============================================================================
