\* The ownership of the blocks get_windows_args obtains.
CONSTANT CmdLines <- MCCmdLines
CONSTANT ExePath <- MCExePath
SPECIFICATION Spec
INVARIANT NoLeakOnReturn
CHECK_DEADLOCK FALSE
