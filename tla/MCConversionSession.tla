------------------------ MODULE MCConversionSession ------------------------
(***************************************************************************)
(* A small alphabet for ConversionSession: the roman keys n and a and the  *)
(* kana KA typed directly.  "na" shows two graphemes, a group that an edit *)
(* can split, and an n waits for the key after it.  Names in lower case    *)
(* are hiragana, in upper case katakana; kanji are numbered.               *)
(***************************************************************************)
EXTENDS ConversionSession

MCKatakana == [h \in {"a-", "ni", "ya", "nn", "ka", "ga"} |->
    CASE h = "a-" -> "A" [] h = "ni" -> "NI" [] h = "ya" -> "YA" [] h = "nn" -> "NN"
      [] h = "ka" -> "KA" [] h = "ga" -> "GA"]

Keys(s) == [i \in DOMAIN s |-> Char(s[i])]
Mapping(key, value) == [key |-> key, value |-> value]

MCTables == [style \in {"roman", "frozen"} |->
    IF style = "frozen" THEN <<>>
    ELSE <<Mapping(Keys(<<"a">>), <<"a-">>),
           Mapping(Keys(<<"n", "a">>), <<"ni", "ya">>),
           Mapping(Keys(<<"n", "n">>), <<"nn">>),
           Mapping(<<Separator>>, <<>>),
           Mapping(<<Char("n"), Separator>>, <<"nn">>),
           Mapping(<<Char("n"), AnyKey>>, <<"nn", AnyValue>>)>>]

Roman(g) == Element(Char(g), "roman")
MCPieces == {Roman("a"), Roman("n"), Element(Char("ka"), Direct)}

\* 1285 is a noun (it starts a clause), 200 a particle.
Entry(ruby, word, class, base) ==
    [ruby |-> ruby, word |-> word, left |-> class, right |-> class,
     meaning |-> IF class = 1285 THEN 100 ELSE 500, base |-> base, source |-> "system"]

MCDictionary ==
    <<Entry(<<"NI">>, <<"k1">>, 1285, 0 - 12),
      Entry(<<"KA">>, <<"k2">>, 200, 0 - 6),
      Entry(<<"GA">>, <<"k3">>, 200, 0 - 4),
      Entry(<<"NI", "YA">>, <<"k4">>, 1285, 0 - 8),
      Entry(<<"A", "KA", "A">>, <<"k6">>, 1285, 0 - 10)>>

\* The words of one candidate, and a word only learning knows.
MCLearned(words) == [Entry(<<"KA", "A">>, words, 1285, 0 - 2) EXCEPT !.source = "learned"]
MCLearnable == {MCLearned(<<"k2", "a-">>), MCLearned(<<"k9">>)}
MCRemembered == {{MCLearned(<<"k9">>)}}
MCUser == <<[Entry(<<"KA">>, <<"k7">>, 1285, 0 - 20) EXCEPT !.source = "user"]>>
MCShortcuts == <<[Entry(<<"A">>, <<"k8">>, 1285, 0 - 9) EXCEPT !.source = "user"]>>

MCConnection(right, left) ==
    IF right = left THEN 0 - 5 ELSE IF right = 0 THEN 0 - 1 ELSE 0 - 3
MCMeaningCost(former, latter) == IF former = latter THEN 0 ELSE 0 - 1

MCDirectTypos == [k \in {"KA"} |-> {[value |-> "GA", weight |-> 14]}]
MCRomanTypos == [p \in {<<"n", "n">>} |-> <<"n", "a">>]
MCGenerated == {<<"KA">>}
MCModelPrefixes == {<<"k4">>}
MCUnusable == {}

=============================================================================
