--------------------------- MODULE WindowsArgsAbs ---------------------------
(***************************************************************************)
(* What get_windows_args (command_line.cpp 74-101) promises its caller,   *)
(* with no buffer, pointer or size in it: the call ends, by returning or  *)
(* by an exception.  Returning true, it leaves in argptrs the UTF-8 form  *)
(* of every argument of the command line, in order; returning false, it   *)
(* leaves argptrs empty; leaving by an exception, it leaves the UTF-8     *)
(* forms of the first few arguments.  Argv is the splitting of the        *)
(* command line, Encode the conversion of one argument.                   *)
(***************************************************************************)
EXTENDS Naturals, Sequences

CONSTANTS CmdLines,    \* the command lines the process may have
          Argv(_),     \* the arguments of a command line
          Encode(_)    \* the UTF-8 bytes of an argument, without terminator

VARIABLES cmd,     \* the process's command line
          status,  \* "running", "returned" or "threw"
          result,  \* the value returned
          args     \* the strings argptrs points to, as the caller reads them
vars == <<cmd, status, result, args>>

\* The UTF-8 forms of the first n arguments of the command line.
Converted(n) == [k \in 1..n |-> Encode(Argv(cmd)[k])]

Init ==
  /\ cmd \in CmdLines
  /\ status = "running" /\ result = FALSE /\ args = <<>>

\* return true: every argument converted.
ReturnTrue ==
  /\ status = "running"
  /\ status' = "returned" /\ result' = TRUE
  /\ args' = Converted(Len(Argv(cmd)))
  /\ UNCHANGED cmd

\* return false: no argument handed out.
ReturnFalse ==
  /\ status = "running"
  /\ status' = "returned" /\ result' = FALSE /\ args' = <<>>
  /\ UNCHANGED cmd

\* An exception leaves the call after the first n arguments.
Throw ==
  /\ status = "running"
  /\ status' = "threw"
  /\ \E n \in 0..Len(Argv(cmd)) : args' = Converted(n)
  /\ UNCHANGED <<cmd, result>>

Next == ReturnTrue \/ ReturnFalse \/ Throw

Spec == Init /\ [][Next]_vars

\* The call does not run forever.
FairSpec == Spec /\ WF_vars(Next)
==============================================================================
