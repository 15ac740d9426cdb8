----------------------------- MODULE MCTerminal -----------------------------
(* Constants of the model-checked instance of Terminal that a .cfg file    *)
(* cannot write down: names and texts are shorter than the ones of the     *)
(* build, in proportion to the screen; the directives are the same, with   *)
(* "%-4s" for "%-12s".                                                     *)
EXTENDS Terminal

NINE == ZERO + 9

MCLetters == {letter.c, NINE}
MCClear == <<letter.c>>
MCEcho == <<NINE>>
MCHistory == <<letter.c, letter.c>>
MCHelp == <<NINE, NINE>>

Command(name, category) == [name |-> name, description |-> <<letter.d>>, category |-> category]

MCCommands ==
  <<Command(MCHelp, <<letter.s>>), Command(MCClear, <<letter.s>>),
    Command(MCEcho, <<letter.x>>), Command(MCHistory, <<letter.s>>)>>

PercentS == <<PERCENT, letter.s>>

MCBanner == <<letter.b>>
MCUsage == <<letter.u>>
MCNoHistory == <<letter.e>>
MCHelpTitle == <<letter.a>>
MCTooLong == <<letter.l>>
MCPrompt == <<HASH>>
MCUnknownLine == <<COLON>> \o PercentS \o <<NEWLINE>>
MCHistoryLine == <<PERCENT, ZERO + 2, letter.d, MINUS>> \o PercentS \o <<NEWLINE>>
MCCategoryLine == <<NEWLINE, COLON>> \o PercentS \o <<NEWLINE>>
MCCommandLine == <<PERCENT, MINUS, ZERO + 4, letter.s>> \o PercentS \o <<NEWLINE>>
=============================================================================
