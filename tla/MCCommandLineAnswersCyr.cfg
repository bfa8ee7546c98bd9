\* A language written in Cyrillic letters.
CONSTANT Languages <- MCLanguagesCyrillic
CONSTANT Answers <- MCAnswers
SPECIFICATION Spec
INVARIANT CaseInsensitiveAnswers
