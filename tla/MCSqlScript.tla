---------------------------- MODULE MCSqlScript ----------------------------
(* The instance of SqlScript: every script of up to three parts of any      *)
(* kind, and longer ones that change the delimiter around a trigger.        *)
EXTENDS SqlScript

One(kind, texts) == {<<<<kind, t>>>> : t \in texts}
Chars(texts) == {[i \in DOMAIN t |-> <<"character", <<t[i]>>>>] : t \in texts}
End == <<<<"end", <<>>>>>>

Code ==
  Chars({<<"a">>, <<"nl">>, <<"a", " ", "a">>, <<"-", "-", "a">>, <<"a", "-">>, <<"*", "/", "a">>,
         <<"!">>, <<"D", " ", "a">>, <<";">>})
    \cup One("literal",
           {<<"'", "'">>, <<"'", ";", "'">>, <<"'", "\\", "'", ";", "'">>, <<"'", "'", "'", ";", "'">>,
            <<"'", "\\", "\\", "'">>, <<"'", "\"", "nl", "D", " ", "a", "nl", "'">>,
            <<"\"", "-", "-", " ", "'", "#", "\"">>, <<"\"", "/", "*", "\"">>,
            <<"\"", "\"", "\"", "$", "\"">>})
    \cup One("kept", {<<"/", "*", "!", ";", "'", "*", "/">>, <<"/", "*", "!", "nl", "*", "/">>})

Comments ==
  One("line", {<<"-", "-", "nl">>, <<"-", "-", " ", ";", "'", "nl">>, <<"#", "/", "*", "nl">>,
               <<"#", "$", "nl">>, <<"#", "a">>})
    \cup One("block", {<<"/", "*", "*", "/">>, <<"/", "*", "/", "*", "/">>,
                       <<"/", "*", ";", "'", "nl", "D", " ", "a", "nl", "*", "/">>})

Ends == {End, End \o <<<<"character", <<"nl">>>>>>}
ChangeTo == One("change", {<<"$">>, <<"$", "$">>, <<"/", "/">>, <<";">>})
Cut == One("openLiteral", {<<"'", "a">>, <<"\"", "\\", "\"">>, <<"'", "\\">>})
         \cup One("openComment", {<<"/", "*", "a">>, <<"/", "*", "!", "nl">>})

Body == Chars({<<"a">>, <<";">>, <<"D", " ", "a">>}) \cup One("literal", {<<"'", "$", "'">>})

MCScripts ==
  {s \in {FlattenSeq(parts) :
            parts \in SeqOf(Code \cup Comments \cup Ends \cup ChangeTo \cup Cut, 3)
              \cup SeqOf(Body \cup Ends \cup One("change", {<<"$", "$">>, <<";">>}), 5)} :
     WellFormed(s)}
=============================================================================
