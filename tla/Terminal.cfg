CONSTANTS
  CMD_BUFFER_SIZE = 4
  MAX_HISTORY = 1
  Letters <- MCLetters
  commands <- MCCommands
  MaxTyped = 5
  CLEAR <- MCClear
  ECHO <- MCEcho
  HISTORY <- MCHistory
  HELP <- MCHelp
  BANNER <- MCBanner
  USAGE <- MCUsage
  NO_HISTORY <- MCNoHistory
  HELP_TITLE <- MCHelpTitle
  TOO_LONG <- MCTooLong
  PROMPT <- MCPrompt
  UNKNOWN_LINE <- MCUnknownLine
  HISTORY_LINE <- MCHistoryLine
  CATEGORY_LINE <- MCCategoryLine
  COMMAND_LINE <- MCCommandLine
  MAX_CATEGORIES = 2
  MAX_COLOR = 9
  INT_BITS = 7
  LONG_BITS = 9
  TEMP = 5
  width = 6
  height = 9
  FONT_WIDTH = 2
  FONT_HEIGHT = 3
SPECIFICATION TSpec
INVARIANTS LineIsTyped ScreenShowsLine PrintsAsAsked ReadsNumbers
PROPERTY RunsWhatWasTyped
