------------------------------ MODULE MCZenzai ------------------------------
(***************************************************************************)
(* A small language for Zenzai: the kana x and y and the letter n, words   *)
(* of the characters a to d, and models that differ in what they choose    *)
(* first for each reading and after it.                                    *)
(***************************************************************************)
EXTENDS Zenzai

MCVocabulary == <<"a", "b", "c", "d", EOS, Separator>>
MCTokens == {"a", "b", "c", "d", "x", "y", "n", InTag, OutTag, EOS, Separator}

MCEntry(ruby, word, value, source) ==
    [ruby |-> ruby, word |-> word, value |-> value, source |-> source]

MCDictionary ==
    <<MCEntry(<<"x">>, <<"a">>, 20, "system"),
      MCEntry(<<"x">>, <<"b">>, 13, "learned"),
      MCEntry(<<"y">>, <<"c">>, 9, "system"),
      MCEntry(<<"y">>, <<"d">>, 3, "user"),
      MCEntry(<<"n">>, <<"n">>, 1, "system"),
      MCEntry(<<"x", "y">>, <<"d", "c">>, 24, "learned")>>

MCTargets ==
    {[input |-> i, full |-> i] : i \in {<<"x">>, <<"x", "y">>, <<"x", "n">>}}
    \cup {[input |-> <<"x">>, full |-> <<"x", "y">>]}
MCSessionsOf == [c \in Connections |-> IF c = "c1" THEN {"s1", "s2"} ELSE {"s3"}]
MCAccepted == {[ruby |-> <<"x">>, words |-> <<"b", "c">>]}
MCLeft == {<<>>}
MCNexts == [l \in {"n"} |-> {<<"y">>}]

\* A model: the character it starts with for a reading of one kana and for
\* a longer one, and the one it goes on with.
MCModels == {[short |-> "a", long |-> "a", after |-> "b"],
             [short |-> "b", long |-> "a", after |-> EOS],
             [short |-> "a", long |-> "b", after |-> "c"]}

MCBest(m, path) ==
    LET out == CHOOSE i \in DOMAIN path : path[i] = OutTag
        in == CHOOSE i \in DOMAIN path : path[i] = InTag
    IN  IF OutTag \notin ToSet(path) THEN "x"
        ELSE IF Len(path) > out THEN (IF path[Len(path)] \in {"a", "b"} THEN m.after ELSE EOS)
        ELSE IF path[out - 1] = "y" /\ out - in = 2 THEN m.after
        ELSE IF out - in > 2 THEN m.long ELSE m.short

MCLogits(m, path) ==
    LET best == MCBest(m, path)
    IN  [t \in ToSet(Vocabulary) |->
        IF t = best THEN 9
        ELSE CASE t = "b" -> 8 [] t = "c" -> 7 [] t = "d" -> 6 [] t = "a" -> 5
               [] t = Separator -> 4 [] OTHER -> 0]

MCLn(n) == 2
MCShift(prefix, token) == 0

=============================================================================
