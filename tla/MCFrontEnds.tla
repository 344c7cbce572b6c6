---------------------------- MODULE MCFrontEnds ----------------------------
(* The parts around the controller that a user meets, each on its own        *)
(* bounded instance in one run: `part` says which one moves, the others stay *)
(* in one initial state.                                                     *)
EXTENDS PrintMode, RetryBackoff, Editor, TextLayout, ModelPicker, ProviderScreen, Onboarding,
        OAuthLogin, Discovery, RpcMode

\* RetryConfig::default.
DefaultConfig == [initial_delay_ms |-> 1000, max_delay_ms |-> 30000,
                  backoff_multiplier |-> 2, jitter |-> TRUE]

MCChars == {"/", "T", " ", "é"}
MCCommandList ==
    << [name |-> <<"t">>, values |-> << <<"o">>, <<"t">>, <<"t", "o">> >>],
       [name |-> <<"t", "o">>, values |-> <<>>], [name |-> <<"o">>, values |-> << <<"t">> >>] >>
MCFinished == {<<"/">>, <<"T", "é">>}

MCLists == {[i \in 1..10 |-> i], [i \in 1..9 |-> 10 - i], <<2, 6, 9>>, <<>>}
Found(tier, length, position, runs, starts) ==
    [tier |-> tier, length |-> length, position |-> position, runs |-> runs, starts |-> starts]
NotFound == Found("none", 0, 0, 0, 0)
MCHit ==
    [q \in {"", "a", "b", "c"} |->
        IF q = "a" THEN << Found("exact", 1, 0, 0, 0), Found("prefix", 9000, 0, 0, 0),
                           Found("word", 20, 900, 0, 0), Found("word", 6000, 2, 0, 0),
                           Found("inside", 40, 5, 0, 0), Found("inside", 7000, 800, 0, 0),
                           Found("scattered", 12, 0, 9, 20), Found("scattered", 8000, 0, 0, 1),
                           NotFound, Found("prefix", 8, 0, 0, 0) >>
        ELSE IF q = "b" THEN [i \in 1..10 |-> IF i = 3 THEN Found("inside", 4, 2, 0, 0)
                                              ELSE IF i = 9 THEN Found("exact", 4, 0, 0, 0)
                                              ELSE NotFound]
        ELSE [i \in 1..10 |-> NotFound]]

MCBuiltin == <<"m1", "m2">>

\* What servers list: entries with no window, with several, of no use to a chat.
Listed(id, windows) == [id |-> id, windows |-> windows, model |-> TRUE, tools |-> TRUE, chat |-> TRUE]
MCConfigured == [p \in {"openrouter", "ollama"} |-> IF p = "ollama" THEN {"qwen"} ELSE {"opus"}]
MCListings ==
    [p \in {"openrouter", "ollama"} |->
        IF p = "ollama" THEN {<<Listed("qwen", <<Nothing>>), Listed("llama", <<Nothing, 30>>)>>}
        ELSE {<<>>, <<Listed("opus", <<20, 9>>), [Listed("paint", <<20>>) EXCEPT !.tools = FALSE]>>,
              <<Listed("mini", <<Nothing>>)>>}]

VARIABLE part

Parts == {"print", "backoff", "editor", "layout", "picker", "providers", "onboarding", "login",
          "discovery", "rpc"}
frontVars ==
    <<part, printVars, backoffVars, pane, lvars, picker, psvars, onvars, loginVars, discoveryVars,
      rpcVars>>

FrontEndsInit ==
    /\ part \in Parts
    /\ IF part = "picker" THEN TRUE ELSE picker = NewPicker(<<>>, "")
    /\ IF part = "providers" THEN TRUE
       ELSE disk = [default |-> [name |-> 1, model |-> "m1"], tables |-> <<>>, keys |-> {}]
    /\ PrintInit /\ BackoffInit /\ EditorInit /\ LayoutInit
    /\ part # "picker" \/ PickerInit
    /\ part # "providers" => screen = NewScreen(disk) /\ jobs = <<>> /\ inbox = <<>> /\ told = disk.default
    /\ part = "providers" => ProvidersInit
    /\ OnboardingInit /\ OAuthLoginInit /\ DiscoveryInit /\ RpcInit
    /\ part # "discovery" => active.key = <<"ollama", "qwen">>

Others(p) ==
    /\ UNCHANGED part
    /\ IF p = "print" THEN TRUE ELSE UNCHANGED printVars
    /\ IF p = "backoff" THEN TRUE ELSE UNCHANGED backoffVars
    /\ IF p = "editor" THEN TRUE ELSE UNCHANGED pane
    /\ IF p = "layout" THEN TRUE ELSE UNCHANGED lvars
    /\ IF p = "picker" THEN TRUE ELSE UNCHANGED picker
    /\ IF p = "providers" THEN TRUE ELSE UNCHANGED psvars
    /\ IF p = "onboarding" THEN TRUE ELSE UNCHANGED onvars
    /\ IF p = "login" THEN TRUE ELSE UNCHANGED loginVars
    /\ IF p = "discovery" THEN TRUE ELSE UNCHANGED discoveryVars
    /\ IF p = "rpc" THEN TRUE ELSE UNCHANGED rpcVars

FrontEndsNext ==
    \/ part = "print" /\ PrintNext /\ Others("print")
    \/ part = "backoff" /\ BackoffNext /\ Others("backoff")
    \/ part = "editor" /\ EditorNext /\ Others("editor")
    \/ part = "layout" /\ LayoutNext /\ Others("layout")
    \/ part = "picker" /\ PickerNext /\ Others("picker")
    \/ part = "providers" /\ ProvidersNext /\ Others("providers")
    \/ part = "onboarding" /\ OnboardingNext /\ Others("onboarding")
    \/ part = "login" /\ OAuthLoginNext /\ Others("login")
    \/ part = "discovery" /\ DiscoveryNext /\ Others("discovery")
    \/ part = "rpc" /\ RpcNext /\ Others("rpc")

FrontEndsSpec ==
    /\ FrontEndsInit /\ [][FrontEndsNext]_frontVars
    /\ WF_printVars(part = "print" /\ ControllerStep)
    /\ WF_printVars(part = "print" /\ SendPrompt)
    /\ WF_printVars(part = "print" /\ PrinterEnds)
    /\ WF_psvars(part = "providers" /\ (WorkerEnds \/ ScreenTick))
    /\ WF_onvars(part = "onboarding" /\ (HelperEnds \/ OnboardingTick))
    /\ \A l \in Logins : WF_loginVars(part = "login" /\ DeadlinePasses(l))
    /\ \A l \in Logins : WF_loginVars(part = "login" /\ ReadTimesOut(l))
    /\ \A l \in Logins : WF_loginVars(part = "login" /\ CallbackTimesOut(l))
    /\ WF_discoveryVars(part = "discovery" /\ (TakeLock \/ Answer \/ Deliver))
    /\ WF_rpcVars(part = "rpc" /\ RpcMain) /\ WF_rpcVars(part = "rpc" /\ Printer)
    /\ WF_rpcVars(part = "rpc" /\ (TakeAction \/ SeeNoSender))
    /\ WF_rpcVars(part = "rpc" /\ core = "cancelled" /\ RunIsOver)

\* A process without a terminal ends when its work is done, not earlier, and its host
\* gets all there is to tell.
HostsServed == NoEarlyExit /\ RpcSound

\* The composer keeps the draft, and draws it.
ComposerSound == EditorSound /\ LayoutSound

\* Whatever tells the user to wait stops doing so: print mode with its prompt, the
\* provider screen, onboarding, a login in the browser, the picker's list, an RPC process
\* whose stdin is closed.
Waiting == PromptPending \/ ScreenWorks \/ SetupWaits \/ AwaitsCallback \/ PickerLoads
           \/ HostWaits
EveryWaitEnds == Waiting ~> ~Waiting
=============================================================================
