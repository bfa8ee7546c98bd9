---------------------------- MODULE MCWindowsArgs ----------------------------
(* Command lines of up to five glyphs and spaces, and a two-glyph path.    *)
EXTENDS WindowsArgs

MCCmdLines == SeqOf(Glyph \cup {Space}, 5)
MCExePath == <<"a", "e3">>
==============================================================================
