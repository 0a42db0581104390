---- MODULE MCLspServer ----
(* Two documents, texts with nothing to report and with a diagnostic that  *)
(* quotes the text, and every way to frame a message.                      *)
EXTENDS LspServer

TwoUris == {<<"file://", "a">>, <<"file://", "b">>}
Good == <<"struct", "NL">>
Bad == <<"bogus", "\"">>
TwoTexts == {Good, Bad}
Report(t) == IF t = Bad THEN <<[severity |-> 1, line |-> 1, col |-> 0, message |-> <<"\"", "bogus", "\"">>],
                               [severity |-> 3, line |-> 0, col |-> 4, message |-> <<"here">>]>>
             ELSE <<>>
AllPlain == {"initialize", "initialized", "shutdown", "exit", "textDocument/completion", "textDocument/hover",
             "workspace/symbol", "$/cancelRequest"}
AllHows == {"whole", "short", "long", "unframed", "broken"}
Spoilable == {"textDocument/hover"}
====
