CONSTANT CmdLines <- MCCmdLines
CONSTANT ExePath <- MCExePath
SPECIFICATION FairSpec
INVARIANT TypeOK
INVARIANT FreesWhatItAllocated
PROPERTY WindowsArgsRefinement
PROPERTY Completes
\* get_windows_args has returned or thrown: the final states have no
\* successor by design.
CHECK_DEADLOCK FALSE
