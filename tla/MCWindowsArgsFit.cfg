\* The sizing comment at command_line.cpp:83 against the empty command line.
CONSTANT CmdLines <- MCCmdLines
CONSTANT ExePath <- MCExePath
SPECIFICATION Spec
INVARIANT FailsOnlyWithoutMemory
CHECK_DEADLOCK FALSE
