------------------------- MODULE CommandLineAnswers -------------------------
(***************************************************************************)
(* is_yes and is_no (command_line.cpp 39-71): an answer typed at a prompt *)
(* is yes when it is "y" or "Y", or equals "yes" or the translation of     *)
(* "yes" under boost's is_iequal; likewise for no.                         *)
(*                                                                         *)
(* A string is a sequence of letters.  A letter outside ASCII is one       *)
(* element although its UTF-8 form is several bytes: UTF-8 is prefix-free, *)
(* so comparing the bytes is comparing the letters.  is_iequal upper-cases *)
(* each char with std::toupper in the global locale; in the "C" locale and *)
(* the UTF-8 ones, a byte of a multi-byte letter is left as it is, so only *)
(* ASCII letters are folded.  i18n_translate is not in this repository:   *)
(* the translation table of the running language is a constant.            *)
(***************************************************************************)
EXTENDS Naturals, Sequences

\* Upper case of every lower-case letter used here: ASCII letters and the
\* Cyrillic letters d, a, n, e, t (cd, ca, cn, ce, ct).
CaseUp == [a |-> "A", e |-> "E", i |-> "I", j |-> "J", n |-> "N", o |-> "O",
           s |-> "S", u |-> "U", y |-> "Y",
           cd |-> "CD", ca |-> "CA", cn |-> "CN", ce |-> "CE", ct |-> "CT"]
Ascii == {"a", "e", "i", "j", "n", "o", "s", "u", "y",
          "A", "E", "I", "J", "N", "O", "S", "U", "Y"}
Letter == DOMAIN CaseUp \cup {CaseUp[c] : c \in DOMAIN CaseUp}

Yes == <<"y", "e", "s">>
No  == <<"n", "o">>

CONSTANTS Languages,   \* translation tables: [yes |-> word, no |-> word]
          Answers      \* the strings a user may type
ASSUME Languages \subseteq [yes : Seq(Letter), no : Seq(Letter)]
ASSUME Answers \subseteq Seq(Letter)

VARIABLES lang, answer
vars == <<lang, answer>>

\* tr(str): i18n_translate(str, "command_line") in the running language.
tr(l, w) == IF w = Yes THEN l.yes ELSE l.no

\* std::toupper on one char in the global locale.
ToUpperC(c) == IF c \in Ascii /\ c \in DOMAIN CaseUp THEN CaseUp[c] ELSE c

\* boost::algorithm::equals(a, b, is_iequal{}).
iequals(a, b) == Len(a) = Len(b) /\ \A k \in 1..Len(a) : ToUpperC(a[k]) = ToUpperC(b[k])

\* Faulty variant: the translation compared with ==.
is_yes_exact_tr(l, str) ==
  \/ str = <<"y">> \/ str = <<"Y">>
  \/ iequals(Yes, str)
  \/ tr(l, Yes) = str

is_yes(l, str) ==
  \/ str = <<"y">> \/ str = <<"Y">>
  \/ iequals(Yes, str)
  \/ iequals(tr(l, Yes), str)

is_no(l, str) ==
  \/ str = <<"n">> \/ str = <<"N">>
  \/ iequals(No, str)
  \/ iequals(tr(l, No), str)

\* The user, in some language, types an answer at a prompt.
Init == lang \in Languages /\ answer \in Answers

\* The caller asks again.
Ask == answer' \in Answers /\ UNCHANGED lang

Next == Ask

Spec == Init /\ [][Next]_vars

-----------------------------------------------------------------------------
\* The answer equals one of the words, ignoring the case of every letter.
UpperOf(c) == IF c \in DOMAIN CaseUp THEN CaseUp[c] ELSE c
AnyCaseOf(str, words) ==
  \E w \in words : Len(w) = Len(str) /\ \A k \in 1..Len(w) : UpperOf(w[k]) = UpperOf(str[k])

\* is_yes and is_no compare with an ignore_case comparator: an answer is
\* yes exactly when it is "y", "yes" or the translation of "yes" in any
\* letter case, and no likewise.
CaseInsensitiveAnswers ==
  /\ is_yes(lang, answer) <=> AnyCaseOf(answer, {<<"y">>, Yes, tr(lang, Yes)})
  /\ is_no(lang, answer) <=> AnyCaseOf(answer, {<<"n">>, No, tr(lang, No)})
==============================================================================
