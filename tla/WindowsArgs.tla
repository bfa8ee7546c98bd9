----------------------------- MODULE WindowsArgs -----------------------------
(***************************************************************************)
(* get_windows_args (command_line.cpp 74-101): the process's UTF-16       *)
(* command line is split by CommandLineToArgvW and every argument is       *)
(* converted to UTF-8 into one heap buffer of wcslen * 3 + nArgs bytes,    *)
(* through a pointer strptr that advances by each conversion's length and  *)
(* a remaining size iSlen that shrinks by it.  argptrs receives a pointer  *)
(* per argument.                                                           *)
(*                                                                         *)
(* A command line is a sequence of glyphs and spaces.  A glyph is one      *)
(* character: "a" (ASCII, 1 UTF-16 unit, 1 UTF-8 byte), "e3" (a BMP        *)
(* character such as the euro sign, 1 unit, 3 bytes) or "s4" (a character  *)
(* outside the BMP, a surrogate pair of 2 units, 4 bytes).  The Win32      *)
(* calls are operators written from their documented contracts; the heap   *)
(* holds the two blocks the function obtains: "argv" from                  *)
(* CommandLineToArgvW and "buf" from new char[].  Offsets into "buf" are   *)
(* pointers.  size_t values stay far inside the int range here, so the     *)
(* implicit conversion of iSlen to WideCharToMultiByte's int cbMultiByte   *)
(* keeps the value, and a size_t below zero is the int it converts to.     *)
(***************************************************************************)
EXTENDS Integers, Sequences, SequencesExt

CONSTANTS CmdLines,   \* the command lines GetCommandLineW may return
          ExePath     \* the executable's path, as glyphs
Space == "sp"
Glyph == {"a", "e3", "s4"}
ASSUME CmdLines \subseteq Seq(Glyph \cup {Space})
ASSUME ExePath \in Seq(Glyph) /\ ExePath # <<>>

\* The value of a byte new char[] left uninitialised.
Undef == -1

VARIABLES cmd, szArgs, nArgs, heap, iSlen, bufSize, mem, strptr, i, argptrs,
          pc, result
vars == <<cmd, szArgs, nArgs, heap, iSlen, bufSize, mem, strptr, i, argptrs,
          pc, result>>

Blocks == {"argv", "buf"}

\* UTF-16 units and UTF-8 bytes of a glyph.
WCharsOf(g) == IF g = "s4" THEN 2 ELSE 1
Utf8Of(g) ==
  CASE g = "a"  -> <<97>>
    [] g = "e3" -> <<226, 130, 172>>
    [] g = "s4" -> <<240, 159, 152, 128>>
Utf8(arg) == FlattenSeq([k \in 1..Len(arg) |-> Utf8Of(arg[k])])

\* wcslen of a command line.
Wcslen(c) == FoldLeft(LAMBDA n, g : n + IF g = Space THEN 1 ELSE WCharsOf(g), 0, c)

\* CommandLineToArgvW: the program name is everything up to the first
\* space (empty if the line starts with one); the other arguments are the
\* non-empty runs between spaces.  An empty command line yields the path
\* of the executable.  Quotes and backslashes, which only remove units,
\* are left out.
Tokens(c) ==
  FoldLeft(LAMBDA ts, g : IF g = Space THEN Append(ts, <<>>)
                          ELSE [ts EXCEPT ![Len(ts)] = Append(@, g)],
           <<<<>>>>, c)
CommandLineToArgvW(c) ==
  IF c = <<>> THEN <<ExePath>>
  ELSE <<Head(Tokens(c))>> \o SelectSeq(Tail(Tokens(c)), LAMBDA t : t # <<>>)

\* WideCharToMultiByte(CP_UTF8, 0, arg, -1, dst, cb): the bytes with the
\* terminator when they fit in cb > 0, the size it would need when cb = 0
\* (nothing written), and 0 when cb is negative or too small.
Needed(arg) == Len(Utf8(arg)) + 1
WideCharToMultiByte(arg, cb) ==
  IF cb = 0 THEN Needed(arg)
  ELSE IF cb > 0 /\ Needed(arg) <= cb THEN Needed(arg) ELSE 0
Writes(arg, cb) == cb > 0 /\ WideCharToMultiByte(arg, cb) > 0

\* The memory from the block's start after the converted bytes of arg are
\* stored at strptr; bytes stored past the block's end lengthen it.
Store(arg) ==
  LET s   == Utf8(arg) \o <<0>>
      end == strptr + Len(s)
  IN [k \in 1..(IF end > Len(mem) THEN end ELSE Len(mem)) |->
        IF strptr < k /\ k <= end THEN s[k - strptr]
        ELSE IF k <= Len(mem) THEN mem[k] ELSE Undef]

\* The function's entry and GetCommandLineW.
Init ==
  /\ cmd \in CmdLines
  /\ szArgs = <<>> /\ nArgs = 0
  /\ heap = [b \in Blocks |-> "none"]
  /\ iSlen = 0 /\ bufSize = 0 /\ mem = <<>> /\ strptr = 0 /\ i = 0
  /\ argptrs = <<>>
  /\ pc = "start"
  /\ result = FALSE

\* CommandLineToArgvW returns nullptr (it could not allocate): return false.
ParseFail ==
  /\ pc = "start"
  /\ pc' = "returned" /\ result' = FALSE
  /\ UNCHANGED <<cmd, szArgs, nArgs, heap, iSlen, bufSize, mem, strptr, i, argptrs>>

\* CommandLineToArgvW returns the arguments in a block the caller owns.
Parse ==
  /\ pc = "start"
  /\ szArgs' = CommandLineToArgvW(cmd)
  /\ nArgs' = Len(szArgs')
  /\ heap' = [heap EXCEPT !["argv"] = "live"]
  /\ pc' = "alloc"
  /\ UNCHANGED <<cmd, iSlen, bufSize, mem, strptr, i, argptrs, result>>

\* Faulty variant: the buffer allocated without the nArgs terminators
\* that iSlen counts.
AllocShortBuffer ==
  /\ pc = "alloc"
  /\ iSlen' = Wcslen(cmd) * 3 + nArgs
  /\ bufSize' = Wcslen(cmd) * 3
  /\ mem' = [k \in 1..bufSize' |-> Undef]
  /\ heap' = [heap EXCEPT !["buf"] = "live"]
  /\ strptr' = 0 /\ i' = 0
  /\ pc' = "loop"
  /\ UNCHANGED <<cmd, szArgs, nArgs, argptrs, result>>

\* Faulty variant: two UTF-8 bytes budgeted per UTF-16 unit.
AllocTwoPerChar ==
  /\ pc = "alloc"
  /\ iSlen' = Wcslen(cmd) * 2 + nArgs
  /\ bufSize' = iSlen'
  /\ mem' = [k \in 1..iSlen' |-> Undef]
  /\ heap' = [heap EXCEPT !["buf"] = "live"]
  /\ strptr' = 0 /\ i' = 0
  /\ pc' = "loop"
  /\ UNCHANGED <<cmd, szArgs, nArgs, argptrs, result>>

\* iSlen = wcslen(sCmdArgs) * 3 + nArgs; strptr = new char[iSlen].
Alloc ==
  /\ pc = "alloc"
  /\ iSlen' = Wcslen(cmd) * 3 + nArgs
  /\ bufSize' = iSlen'
  /\ mem' = [k \in 1..iSlen' |-> Undef]
  /\ heap' = [heap EXCEPT !["buf"] = "live"]
  /\ strptr' = 0 /\ i' = 0
  /\ pc' = "loop"
  /\ UNCHANGED <<cmd, szArgs, nArgs, argptrs, result>>

\* new char[iSlen] throws std::bad_alloc, which leaves the function.
AllocThrow ==
  /\ pc = "alloc"
  /\ pc' = "threw"
  /\ UNCHANGED <<cmd, szArgs, nArgs, heap, iSlen, bufSize, mem, strptr, i, argptrs, result>>

\* Faulty variant: the pointer advanced by the string's length without
\* its terminator.
ConvertOkNoTerminator ==
  /\ pc = "loop" /\ i < nArgs
  /\ LET arg == szArgs[i + 1]
         ret == WideCharToMultiByte(arg, iSlen)
     IN /\ ret > 0
        /\ mem' = IF Writes(arg, iSlen) THEN Store(arg) ELSE mem
        /\ argptrs' = Append(argptrs, strptr)
        /\ strptr' = strptr + ret - 1
        /\ iSlen' = iSlen - ret + 1
  /\ i' = i + 1
  /\ UNCHANGED <<cmd, szArgs, nArgs, heap, bufSize, pc, result>>

\* Faulty variant: the loop counter not advanced, so the first argument
\* is converted again and again.
ConvertOkNoIncrement ==
  /\ pc = "loop" /\ i < nArgs
  /\ LET arg == szArgs[i + 1]
         ret == WideCharToMultiByte(arg, iSlen)
     IN /\ ret > 0
        /\ mem' = IF Writes(arg, iSlen) THEN Store(arg) ELSE mem
        /\ argptrs' = Append(argptrs, strptr)
        /\ strptr' = strptr + ret
        /\ iSlen' = iSlen - ret
  /\ i' = i
  /\ UNCHANGED <<cmd, szArgs, nArgs, heap, bufSize, pc, result>>

\* An iteration whose conversion returns ret > 0: emplace_back(strptr);
\* strptr += ret; iSlen -= ret.
ConvertOk ==
  /\ pc = "loop" /\ i < nArgs
  /\ LET arg == szArgs[i + 1]
         ret == WideCharToMultiByte(arg, iSlen)
     IN /\ ret > 0
        /\ mem' = IF Writes(arg, iSlen) THEN Store(arg) ELSE mem
        /\ argptrs' = Append(argptrs, strptr)
        /\ strptr' = strptr + ret
        /\ iSlen' = iSlen - ret
  /\ i' = i + 1
  /\ UNCHANGED <<cmd, szArgs, nArgs, heap, bufSize, pc, result>>

\* An iteration whose conversion succeeds but whose emplace_back throws
\* std::bad_alloc: the exception leaves the function with the buffer
\* written and the arguments converted so far in argptrs.
EmplaceThrow ==
  /\ pc = "loop" /\ i < nArgs
  /\ LET arg == szArgs[i + 1]
     IN /\ WideCharToMultiByte(arg, iSlen) > 0
        /\ mem' = IF Writes(arg, iSlen) THEN Store(arg) ELSE mem
  /\ pc' = "threw"
  /\ UNCHANGED <<cmd, szArgs, nArgs, heap, iSlen, bufSize, strptr, i, argptrs, result>>

\* An iteration whose conversion returns ret <= 0: argptrs.clear();
\* delete[] strptr; return false.  delete[] of anything but the pointer
\* new[] returned is undefined behaviour, recorded as a corrupt heap.
ConvertFail ==
  /\ pc = "loop" /\ i < nArgs
  /\ WideCharToMultiByte(szArgs[i + 1], iSlen) <= 0
  /\ argptrs' = <<>>
  /\ heap' = [heap EXCEPT !["buf"] = IF strptr = 0 THEN "freed" ELSE "corrupt"]
  /\ pc' = "returned" /\ result' = FALSE
  /\ UNCHANGED <<cmd, szArgs, nArgs, iSlen, bufSize, mem, strptr, i>>

\* The loop ends after nArgs conversions: return true.
LoopExit ==
  /\ pc = "loop" /\ i = nArgs
  /\ pc' = "returned" /\ result' = TRUE
  /\ UNCHANGED <<cmd, szArgs, nArgs, heap, iSlen, bufSize, mem, strptr, i, argptrs>>

Next == ParseFail \/ Parse \/ Alloc \/ AllocThrow \/ ConvertOk \/ EmplaceThrow
          \/ ConvertFail \/ LoopExit

Spec == Init /\ [][Next]_vars

\* get_windows_args runs on its caller's thread and never waits: while a
\* step of it is enabled, the thread takes one.
FairSpec == Spec /\ WF_vars(Next)

-----------------------------------------------------------------------------
\* Every variable holds a value of its C type.
TypeOK ==
  /\ cmd \in CmdLines
  /\ szArgs \in Seq(Seq(Glyph)) /\ nArgs = Len(szArgs)
  /\ heap \in [Blocks -> {"none", "live", "freed", "corrupt"}]
  /\ iSlen \in Int /\ bufSize \in Nat /\ mem \in [1..bufSize -> -1..255]
  /\ strptr \in Nat /\ i \in 0..nArgs
  /\ argptrs \in Seq(Nat)
  /\ pc \in {"start", "alloc", "loop", "returned", "threw"}
  /\ result \in BOOLEAN

\* The failure path's delete[] strptr (line 91) is given the pointer
\* new[] returned, not one the loop has advanced past earlier arguments:
\* a conversion can fail only before anything was converted.
FreesWhatItAllocated == heap["buf"] # "corrupt"

\* The string a caller reads through the char* p of argptrs: the bytes of
\* the buffer new[] returned from p up to the first terminator, and a
\* byte no conversion wrote (Undef) when the buffer ends before one.
StringAt(p) ==
  LET ends == {k \in (p + 1)..bufSize : mem[k] = 0}
  IN IF ends = {} THEN SubSeq(mem, p + 1, bufSize) \o <<Undef>>
     ELSE SubSeq(mem, p + 1, Min(ends) - 1)

Done == pc \in {"returned", "threw"}

\* get_windows_args as its caller sees it: the command line, whether and
\* how the call ended, and the strings argptrs points to once it has.
Abs == INSTANCE WindowsArgsAbs
         WITH Argv <- CommandLineToArgvW, Encode <- Utf8,
              status <- IF Done THEN pc ELSE "running",
              args <- IF Done THEN [k \in 1..Len(argptrs) |-> StringAt(argptrs[k])]
                      ELSE <<>>

\* get_windows_args implements WindowsArgsAbs: it ends, and returning true
\* it leaves in argptrs one pointer per argument of CommandLineToArgvW, in
\* order, each to that argument's UTF-8 bytes and a terminator inside the
\* buffer new[] returned, none overwritten by a later conversion;
\* returning false it leaves argptrs empty; leaving by an exception it
\* leaves pointers to the first arguments, each converted in full.
WindowsArgsRefinement == Abs!FairSpec

\* Every call on a non-empty command line returns, and returns true
\* unless CommandLineToArgvW could not allocate or new[] threw: the loop
\* at 85-98 converts every argument into the buffer sized at 83.
Completes ==
  cmd # <<>> ~> \/ pc = "returned" /\ (result \/ heap["argv"] = "none")
                \/ pc = "threw"

\* The comment at line 83: a buffer of wcslen * 3 + nArgs bytes
\* "guarantees fit for all BMP and SMP glyphs", so get_windows_args
\* returns false only when CommandLineToArgvW could not allocate.
FailsOnlyWithoutMemory == pc = "returned" /\ ~result => heap["argv"] = "none"

\* On every return, normal or by exception, each block the function
\* obtained is freed or owned by the caller: the argument buffer after
\* a successful return, which argptrs points into.
NoLeakOnReturn ==
  pc \in {"returned", "threw"} =>
    \A b \in Blocks : heap[b] = "live" => b = "buf" /\ pc = "returned" /\ result
==============================================================================
