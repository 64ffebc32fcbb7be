----------------------------- MODULE MCPipeline -----------------------------
(***************************************************************************)
(* RunPipeline on small data: every kind of record alone or in a stream,   *)
(* a failure record before, after and without others, one longer stream    *)
(* that meets the event and output bounds, and one output tree on each     *)
(* side of every limit.                                                    *)
(***************************************************************************)
EXTENDS RunPipeline

Log(out, err) == [out |-> out, err |-> err]

LogSamples ==
  {Log(<<k>>, <<>>) : k \in Unreadable \cup {"Binary", "Failure"}}
    \cup {Log(<<k>>, <<"Text">>) : k \in {"Text", "Failure"}}
    \cup {Log(<<"Failure", k>>, <<>>) : k \in {"Other", "Text"}}
    \cup {Log(<<>>, <<"Text", k>>) : k \in BadStderr \cup {"Binary"}}
    \cup {Log(<<"Start", "Tool">>, <<"Text">>), Log(<<"Blocks", "Failure">>, <<>>),
          Log(<<"Part", "Other">>, <<>>), Log(<<"Start", "Text", "Text", "Text">>, <<>>)}

Tree(f, d, special, large) ==
  [files |-> f, dirs |-> d, special |-> special, large |-> large]

TreeSamples ==
  {Tree(2, 1, FALSE, FALSE), Tree(1, 0, TRUE, FALSE), Tree(1, 0, FALSE, TRUE),
   Tree(3, 0, FALSE, FALSE), Tree(2, 2, FALSE, FALSE), Tree(0, 0, FALSE, FALSE)}

Usual == Tree(2, 1, FALSE, FALSE)

MCOutputs ==
  [log : LogSamples, tree : {Usual}]
    \cup [log : {Log(<<>>, <<>>)}, tree : TreeSamples]

Task(runtime, caps, long) == [runtime |-> runtime, caps |-> caps, long |-> long]

MCTasks ==
  {Task("claude", {"filesystem.read"}, FALSE), Task("pi", {"filesystem.read", "filesystem.write"}, FALSE),
   Task("claude", {"filesystem.write"}, FALSE), Task("pi", {"filesystem.read", "network"}, FALSE)}
=============================================================================
