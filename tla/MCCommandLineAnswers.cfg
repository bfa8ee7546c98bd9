\* Languages written in ASCII letters.
CONSTANT Languages <- MCLanguagesLatin
CONSTANT Answers <- MCAnswers
SPECIFICATION Spec
INVARIANT CaseInsensitiveAnswers
