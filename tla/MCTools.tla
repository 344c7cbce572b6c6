------------------------------ MODULE MCTools ------------------------------
(* The tools side by side: a behaviour is one of the edit and write tools,    *)
(* the read tool, the search tools, the bash tool, or the web tools.          *)
EXTENDS FileTools, ReadTool, SearchTools, BashTool, WebTools

CONSTANTS c1, c2, c3, w1, w2

Edit(path, edits) == [tool |-> "edit", path |-> path, edits |-> edits, content |-> <<>>]
Write(path, content) == [tool |-> "write", path |-> path, edits |-> <<>>, content |-> content]
Replace(old, new) == [old |-> old, new |-> new]

(* "direct" and "link" name the same file.                                     *)
MCRequests ==
    { Edit("direct", <<Replace(<<"a">>, <<"b", "a">>)>>),
      Edit("link", <<Replace(<<"b", "n">>, <<"x", "n">>), Replace(<<"a", " ">>, <<"a">>)>>),
      Edit("direct", <<Replace(<<"x", " ", "a">>, <<>>)>>),
      Edit("link", <<Replace(<<"a">>, <<"a", "a">>), Replace(<<"a", "b">>, <<"x">>)>>),
      Edit("direct", <<Replace(<<"a", "r", "n", "b">>, <<"x">>)>>),
      Edit("direct", <<Replace(<<>>, <<"x">>)>>),
      Edit("link", <<Replace(<<"n">>, <<"n", "n", "n", "n">>)>>),
      Write("direct", <<"a", "n">>), Write("link", <<"b", "n", "a", " ", "a">>) }

MCTexts ==
    { <<>>, <<"a">>, <<"a", "b", "n">>, <<"b", "r", "n", "a", " ">>, <<"b", "n", "a", "t", " ", "b">>,
      <<"x", "t", "t", "a", "r", "b", "r">>, <<"a", "r", "n", "b", "n">>,
      <<"b", "n", "x", " ", " ", "a">>, <<"a", " ", "b", "n", "a">> }

Line(length) == [length |-> length, nul |-> FALSE]
MCFiles ==
    {[lines |-> l, closed |-> c] :
        l \in {<<>>} \cup UNION {[1..n -> {Line(1), Line(2), Line(4), Line(9)}] : n \in 1..4}
              \cup {<<Line(2), [length |-> 1, nul |-> TRUE]>>},
        c \in BOOLEAN}
    \cup {[lines |-> <<Line(1), Line(0), Line(0), Line(3)>>, closed |-> TRUE]}

Hit(bytes) == [kind |-> "match", bytes |-> bytes]
Near(kind) == [kind |-> kind, bytes |-> 2]
Entry(lines) == [hidden |-> FALSE, lines |-> lines]
MCTrees ==
    LET entries == {Entry(<<>>), Entry(<<Hit(2), Hit(9)>>), [hidden |-> TRUE, lines |-> <<Hit(1)>>],
                    Entry(<<Near("before"), Near("before"), Hit(1), Near("after")>>)}
    IN {<<>>} \cup UNION {[1..n -> entries] : n \in 1..3}
MCRequested ==
    {[tool |-> t, limit |-> l, hidden |-> h] : t \in {"grep", "find", "ls"}, l \in {0, 2, 9}, h \in BOOLEAN}

MCCommands ==
    { [names |-> {"make"}, matches |-> {}], [names |-> {"rm"}, matches |-> {}],
      [names |-> {"dd"}, matches |-> {"dd_of"}] }
MCDenyPatterns == <<"dd_of", "unbalanced">>
MCAllPatternsValid == {"dd_of", "unbalanced"}

(* "article" and "serp" are on hosts of their own; "router" must not be asked.  *)
WebCall(tool, page, js) == [tool |-> tool, page |-> page, javascript |-> js]
MCOriginOf == [p \in Pages |-> p]
MCHostOf == [p \in Pages |-> p]
MCRules == {{}, {"article", "serp"}}
MCWebRequests == {WebCall("read", "article", FALSE), WebCall("read", "serp", TRUE),
                  WebCall("read", "serp", FALSE), WebCall("search", "serp", FALSE)}
MCPairs ==
    {<<WebCall("read", "article", FALSE), WebCall("read", "article", FALSE)>>,
     <<WebCall("read", "serp", FALSE), WebCall("search", "serp", FALSE)>>,
     <<WebCall("read", "serp", TRUE), WebCall("search", "serp", FALSE)>>}

VARIABLE part

Parts == {"files", "read", "search", "bash", "web"}
toolVars == <<part, fileVars, readVars, searchVars, bashVars, webVars>>

Init ==
    /\ part \in Parts
    /\ IF part = "files" THEN TRUE
       ELSE file = Missing /\ request = [c \in Calls |-> Write("direct", <<"a", "n">>)]
    /\ IF part = "read" THEN TRUE ELSE reading = [lines |-> <<>>, closed |-> TRUE] /\ limitAsked = 0
    /\ IF part = "search" THEN TRUE
       ELSE tree = <<>> /\ search = [tool |-> "ls", limit |-> 9, hidden |-> FALSE]
    /\ IF part = "bash" THEN TRUE
       ELSE command = [names |-> {"make"}, matches |-> {}]
    /\ \E pair \in MCPairs :
         /\ part # "web" => pair = <<WebCall("read", "article", FALSE), WebCall("read", "article", FALSE)>>
         /\ web = [c \in WebCalls |-> Call(IF c = w1 THEN pair[1] ELSE pair[2])]
    /\ FileToolsInit /\ ReadToolInit /\ SearchToolsInit /\ BashToolInit /\ WebInit
    /\ part # "files" => directory

Others(p) ==
    /\ UNCHANGED part
    /\ IF p = "files" THEN TRUE ELSE UNCHANGED fileVars
    /\ IF p = "read" THEN TRUE ELSE UNCHANGED readVars
    /\ IF p = "search" THEN TRUE ELSE UNCHANGED searchVars
    /\ IF p = "bash" THEN TRUE ELSE UNCHANGED bashVars
    /\ IF p = "web" THEN TRUE ELSE UNCHANGED webVars

Next ==
    \/ part = "files" /\ FileToolsNext /\ Others("files")
    \/ part = "read" /\ ReadToolNext /\ Others("read")
    \/ part = "search" /\ SearchToolsNext /\ Others("search")
    \/ part = "bash" /\ BashToolNext /\ Others("bash")
    \/ part = "web" /\ WebNext /\ Others("web")

Spec ==
    /\ Init /\ [][Next]_toolVars
    /\ WF_bashVars(part = "bash" /\ Spawn)
    /\ WF_bashVars(part = "bash" /\ SeeCancel)
    /\ WF_bashVars(part = "bash" /\ (SeeChunk \/ SendUpdate \/ SeeExit \/ DrainChunk))
    /\ WF_bashVars(part = "bash" /\ DrainEnds)
    /\ WF_bashVars(part = "bash" /\ AgentTakesUpdate)
    /\ \A s \in Streams : WF_bashVars(part = "bash" /\ Forward(s))
    /\ \A c \in WebCalls : WF_webVars(part = "web" /\ SeeStop(c)) /\ WF_webVars(part = "web" /\ Fetch(c))
    /\ WF_webVars(part = "web" /\ Refill)

(* A bash call whose token was cancelled or whose shell exited is answered, and   *)
(* a web call is over, cancelled or not, unless the extractor keeps it.            *)
CallsAnswered ==
    (BashDue \/ part = "web") ~> ((part = "bash" => bash = "answered") /\ (part = "web" => WebCallsOver))
=============================================================================
