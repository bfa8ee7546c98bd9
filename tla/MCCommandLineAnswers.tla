------------------------ MODULE MCCommandLineAnswers ------------------------
(* English (no translation: i18n_translate returns its argument), German  *)
(* and French tables, a Russian one, and every letter-case variant of the  *)
(* words involved, with the empty answer and a prefix.                     *)
EXTENDS CommandLineAnswers

English == [yes |-> Yes, no |-> No]
German  == [yes |-> <<"j", "a">>, no |-> <<"n", "e", "i", "n">>]
French  == [yes |-> <<"o", "u", "i">>, no |-> <<"n", "o", "n">>]
Russian == [yes |-> <<"cd", "ca">>, no |-> <<"cn", "ce", "ct">>]

CaseVariants(w) ==
  {[k \in 1..Len(w) |-> IF up[k] THEN UpperOf(w[k]) ELSE w[k]] : up \in [1..Len(w) -> BOOLEAN]}

MCAnswers ==
  UNION {CaseVariants(w) : w \in {<<"y">>, <<"n">>, Yes, No} \cup
                                  {tr(l, v) : l \in {English, German, French, Russian}, v \in {Yes, No}}}
    \cup {<<>>, <<"y", "e">>}
MCLanguagesLatin == {English, German, French}
MCLanguagesCyrillic == {Russian}
==============================================================================
