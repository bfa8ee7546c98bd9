# TLA+ models of the Ombre proof-of-work hash battery

This directory holds TLA+ models of `src/src/crypto/pow_hash/aux_hash.c`
(the four fixed-length hash functions) and of `get_windows_args`, `is_yes`
and `is_no` in `src/src/common/command_line.cpp`. TLC checks the models.

## 1. The system

| Part | Source | State and operations |
|---|---|---|
| BLAKE-256 | `aux_hash.c` 55-178: `blake256_compress`, `blake256_hash` | Context `blake_ctx` (h[8], s[4], t[2]). Locals `v[16]` and `m[16]`. Round counter `i`. The driver runs 3 full blocks, a hand-built padding block, then the output. |
| Groestl-256 | `aux_hash.c` 180-406: `RND512P/Q`, `Transform`, `OutputTransformation`, `groestl_hash` | Context `chaining[16]`. `Transform`'s locals `Ptmp`, `z`, `y`. T tables. 3 blocks through `Transform`, a padding block, then the output transform. |
| JH-256 | `aux_hash.c` 408-610: `F8`, `jh_hash` | `state.x[8][2]` (64-bit). Local `buf[64]`. F8 is 42 rounds in 6 super-rounds of 7. There are 5 F8 calls, the last two on hand-built padding blocks. |
| Skein-512-256 | `aux_hash.c` 612-785: `Skein_512_Process_Block`, `skein_hash` | `skein_ctx` (T[2], X[8]). Locals `kw` (key and tweak schedule), `X0..X7`, `w[8]` and `b[64]`. Threefish-512 runs 72 rounds. UBI is called three times: 3 message blocks, the final block, the output block. |
| Command line | `common/command_line.cpp` | `is_yes`/`is_no` compare an answer with y/n, yes/no and their translations, ignoring case. `get_windows_args` converts each wide argument into one heap buffer through an advancing pointer. |
| RPC client | `common/rpc_client.h` | `t_rpc_client` makes three request forms over a per-request HTTP connection: `basic_json_rpc_request`, `json_rpc_request` and `rpc_request`, plus `check_connection`. The daemon and the network run concurrently with it. |
| Address validator, daemonizer, transaction info | `.h` files | Declarations only. |

**How the parts interact.** The four hash functions share no state. A
dispatcher that is not in this repository calls one of them on a 200-byte
buffer. Each function is sequential, allocation-free code on stack-local
state and read-only global tables. Concurrent calls therefore cannot
interfere, and there is no interleaving, crash or message to model in
them. What is hard about them is **bit-exactness**. That covers:

- the driver's hand-made padding and counters (or tweaks);
- the buffers it reuses;
- the order of steps that the code unrolls by hand;
- reads and writes through `uint32_t *`/`uint64_t *` casts, which depend on
  the host byte order.

A wrong constant or offset gives a digest that looks plausible, and the
only length the code supports is 200 bytes. Failure appears only in the
glue: `get_windows_args`'s conversion failure and allocation failures, and
the RPC client's connection and replies. Nothing in the repository runs
these concurrently with each other. The RPC client does run concurrently
with the daemon and the network it talks to.

## 2. How the hashes are modelled

**Words.** TLC's integers are 32-bit, so a C word is a tuple of bytes,
least significant byte first (`Word.tla`). Addition, XOR, AND, OR, the
shifts and the rotations are computed byte by byte and wrap modulo 2^w, as
C unsigned arithmetic does. A byte buffer is a tuple of bytes, addressed
with the C offsets (`At`, `Bytes`). Where the code accesses memory through
a cast, the result depends on the host's byte order (`Native`): a constant
`HostLittleEndian` in `Skein512` and `Groestl256`, and in `JH256` a variable
`hostLittleEndian` chosen from the constant `HostOrders` in the initial
state and never changed, so that one run checks both builds.

**One module per hash, a step per statement group.**

- Variables are the context, the compression function's locals, the
  driver's position and the caller's output buffer.
- Init is the function's entry, with the input drawn from a constant set
  `Inputs` of 200-byte messages.
- The actions are:
  - the driver's counter or tweak update, together with the entry code of
    the compression function (message load, working-state set-up);
  - one iteration of the round loop;
  - the feed-forward;
  - the output.
- The round constants and permutation tables are operators holding the
  code's tables.
- The abstract specification is a second module per hash. It is written
  from the algorithm's own definition, not from this file. It covers any
  message length, with generic padding, the counter or tweak rule, and
  the standard ordering.

**Refinement.** The driver is checked against the abstract specification
with `INSTANCE ... WITH` and the abstract `Spec` as a PROPERTY. Message,
chain value and block count map one to one. The abstract spec's single
"absorb a padded block" step corresponds to the code's last step of each
compression, and every other step is a stutter. This relates every
compression's result to a state several dozen steps earlier. It fails if
anything in the driver or the compression function goes wrong: a counter,
a padding byte, a rotation, a table entry, or the order of the G steps.

**Bounds.** There are three inputs: all zeros, all 0xFF (the two the
specification names), and a ramp `(7k + 3) mod 256` whose bytes differ
inside every word. The ramp exposes byte-order and word-order mistakes that
the two constant inputs hide. One behaviour per input already walks every
block and every round, so each action fires. The state count (198 for
BLAKE) comes from the length of the computation, not from branching. An
input is what the model enumerates, so more inputs would cost time without
reaching new code.

**Fairness and deadlock.** The hash functions are straight-line code with
bounded loops. They always terminate, so no liveness property is stated.
The final state ("done") has no successor because the function has
returned, so the configurations say `CHECK_DEADLOCK FALSE`.

`get_windows_args` runs on its caller's thread and never waits on anything,
so while one of its steps is enabled it takes one: `FairSpec` is `Spec`
with weak fairness on `Next`. Under it, `Completes` says that every call on
a non-empty command line reaches a return or a throw, and returns true
unless an allocation failed. The abstract `WindowsArgsAbs` has weak
fairness on its single step, so the refinement also carries termination
over. `is_yes`/`is_no` are single expressions; their
model only re-asks, so no liveness is stated for them.

The RPC client states no liveness. A call ends only because epee's
`invoke` gives up after `TIMEOUT()`, and neither that deadline nor
`t_http_connection` is in this repository. The model can only assume that
a timeout is always possible. Under that assumption, a property that every
call returns would hold whatever `rpc_client.h` did, so the model checks
only safety (`Spec`, no fairness).

## 3. Modules and runs

| Module | Models |
|---|---|
| `Word` | C word arithmetic on byte tuples. `RotR` is the `ROT` macro (line 96). |
| `Blake256` | `blake256_hash` and `blake256_compress`. The `FullBlock` and `LastBlock` actions cover lines 152-168 together with the entry of the compression (107-122). `Round` is one iteration of 123-133 (G is the macro at 97-105). `Feedforward` is 134-137 and `Output` is 169-177. |
| `Blake256Ref` | BLAKE-256 from its specification: any byte length, generic padding and counter, sigma taken mod 10, the standard G order, one step per block. |
| `MCBlake256` | The three inputs. |
| `Skein512` | `skein_hash` and `Skein_512_Process_Block`. `Call1`, `Call2` and `Call3` are the driver's three set-ups and calls (772-775, 776-779, 780-783), with `Call` the entry of the callee (673-674). `BlockEntry` is the top of the `do` loop up to the first subkey (677-707). `Rounds` is one `R512_8_rounds(R)` (733-752, with `Round512` and `I512`). `BlockExit` is the feed-forward, the clearing of FIRST and the loop test (754-765). `Output` is the `memcpy` at 784, in the byte order of the constant `HostLittleEndian`. The buffer `b` is a variable, so the output block sees what the earlier calls left in it. |
| `Skein512Ref` | Skein-512-256 from its specification: UBI over any byte length, the tweak computed from position, type and flags, Threefish-512 with the standard key schedule and word permutation, the IV computed as UBI of the configuration block (not copied from the code), and the output transform. |
| `MCSkein512` | The three inputs. |
| `GroestlTable` | The code's `T[512]` (line 195), as `W32` literals. |
| `GroestlMix` | The Groestl byte algebra from its specification: GF(2^8) multiplication, the S-box as inversion plus the affine map, and the MixBytes circulant. Also holds the S-box as a table for speed. |
| `Groestl256` | `groestl_hash`, `Transform`, `RND512P` and `RND512Q`. The `uint32_t` arrays (`context.chaining`, `Ptmp`, `Qtmp`, `y`, `z`, `temp`) are one variable `mem`. Each array is 16 words, and each word is its 4 bytes in address order. `Val` and `Mem` convert between bytes and value in the byte order of `HostLittleEndian`. `COLUMN` (202-238) reads bytes, and arithmetic works on values. `Init` is 371-376: memset, `u32BIG(256)`, and the entry of `Transform`. `BlockLoad` is the loop test and the loads of `z` and `Ptmp` (294-331). `RoundQ` and `RoundP` are one `RND512Q`/`RND512P` call each (332-351, 387-396). A call adds its constants to its source array in place and writes the next array. `Mix` is 352-367 with the loop increment. `LoopExit` is the loop test failing. `Pad` is 377-381, `OutStart` is 386, and `Finish` is 397-405. |
| `Groestl256Ref` | Groestl-256 from its specification: padding for any byte length, P and Q as AddRoundConstant, SubBytes, ShiftBytes and MixBytes on an 8x8 byte matrix, the compression `P(h+m)+Q(m)+h`, and the output transformation. |
| `MCGroestl256` | The three inputs. `MCSpec` first walks the 256 bytes, one per step, checking the table against `GroestlMix`, then runs `groestl_hash`; the walk's steps are stuttering steps of the refinement. |
| `JHTables` | The code's `JH256_H0` (423) and `E8_bitslice_roundconstant` (425-467) as byte literals. |
| `JH256` | `jh_hash` and `F8`. `x` is `state.x` as 8 x 2 `uint64_t` values; `Load64` reads a word of a byte buffer through a cast in the order of `hostLittleEndian`, `StateBytes` is the state's memory. `SS` and `L` are the macros at 484-506 and 475-483, one operator per statement group, on the two disjoint halves of the macro; `SWAP` is `SWAP1`..`SWAP32` (469-474). `Init` is the `memcpy` of `JH256_H0` and the first call (594-596). `CallData` is the calls on `data + 64` and `data + 128`. `F8Entry` is 510-512, `Round` one of the 42 `for (i ...)` blocks of 514-580 (the half swap of 575-580 after the seventh), `F8Exit` 582-589. `PadFirst` (599-603) and `PadSecond` (604-607) build the padding blocks in the variable `buf`, so the second sees the bytes the first left; `Output` is 608. `hIn`, the state's bytes at F8's entry, is a history variable for the refinement mapping. |
| `JH256Ref` | JH-256 from its specification: padding for any byte length, F8 with grouping, 42 rounds of R8 (S-boxes chosen by the constant bits, the linear map over GF(2^4), P8 = phi . P' . pi), degrouping, the constants generated from sqrt(2) - 1 by R6, and the IV computed as F8 of H(-1) (not copied from the code). |
| `MCJH256` | The three inputs; `HostOrders` is both byte orders. |
| `WindowsArgs` | `get_windows_args`. A command line is a sequence of glyphs (`"a"`: 1 UTF-16 unit and 1 UTF-8 byte; `"e3"`: 1 unit and 3 bytes; `"s4"`: a surrogate pair, 2 units and 4 bytes) and spaces. `CommandLineToArgvW` and `WideCharToMultiByte` are operators written from their documented contracts, including the executable path returned for an empty line and the size query made when `cbMultiByte` is 0. `heap` records the two blocks the function obtains, and `mem` is the buffer's bytes. `ParseFail`/`Parse` are 78-81, `Alloc`/`AllocThrow` are 83-84, `ConvertOk` is one iteration of 85-98 whose conversion succeeds, `EmplaceThrow` is an iteration whose conversion succeeds and whose `emplace_back` (95) throws `bad_alloc`, `ConvertFail` is 88-93, and `LoopExit` is 85 failing, then 100. A `delete[]` of a pointer other than the one `new[]` returned is recorded as a corrupt heap. |
| `WindowsArgsAbs` | What `get_windows_args` promises its caller, with no buffer, pointer or size: `cmd`, a `status` (running, returned, threw), `result` and `args`, the strings the caller reads through `argptrs`. `ReturnTrue` leaves the UTF-8 form of every argument, `ReturnFalse` none, and `Throw` the forms of the first n arguments for some n. `Argv` and `Encode` are operator constants; `WindowsArgs` substitutes `CommandLineToArgvW` and `Utf8`. |
| `MCWindowsArgs` | All 1365 command lines of at most five symbols over `a`, `e3`, `s4` and space. The executable path is `a e3`. Five symbols give up to three non-empty arguments, so a conversion follows two others: a pointer advanced wrongly by the first would show in the third. They also give arguments mixing one-, three- and four-byte glyphs, and empty runs between spaces. |
| `CommandLineAnswers` | `is_yes`, `is_no` and `tr` (39-71) as operators. A string is a sequence of letters; a Cyrillic letter is one element (UTF-8 is prefix-free, so comparing bytes is comparing letters). `ToUpperC` is `std::toupper` in a locale that folds only ASCII, and `iequals` is `boost::algorithm::equals` with `is_iequal`. The translation table is the constant `Languages`, since `i18n_translate` is not in the repository. `UpperOf`/`AnyCaseOf` are the reference: full case folding. |
| `MCCommandLineAnswers` | English, German, French and Russian tables; every case variant of y, n, yes, no and each translation, the empty answer and a prefix of yes. |
| `RpcClient` | `t_rpc_client` (`rpc_client.h`) and its environment. `Init` is the constructor (40-46), which only records the server. `Call(m)` is the caller invoking one of the four methods. `ConnectFail` is `is_open()` false (e.g. 76-83), `Connect` is `is_open()` true and `invoke` sending the request (e.g. 108), `Receive` is `invoke` returning a reply and the status test (e.g. 84-93), `Timeout` is `invoke` returning false (e.g. 60-65), and `CheckConnection` is 120-124. The three request methods have the same control, and `basic` skips the status test. `Return` is the `return` together with `~t_http_connection`, which closes the connection and so drops what is in flight to it. `t_http_connection`, epee's `invoke_http_json(_rpc)`, the network and the daemon are the environment: `DaemonServe` (acts and answers OK, or answers another status without acting), `LoseRequest` and `LoseReply`. `served` counts, per call, how often the daemon acted. |
| `TestInputs` | The inputs both MC modules use. |

| Run | Checks | Shows |
|---|---|---|
| `blake256` (`MCBlake256.cfg`) | `TypeOK`, `Blake256Refinement` | The specialised driver computes BLAKE-256 on every input: the counters 512/1024/1536/1600, the hand-built last block, and the reordered diagonal steps. |
| `skein512` (`MCSkein512.cfg`, little-endian build) | `TypeOK`, `Skein512Refinement` | `skein_hash` computes Skein-512-256 on every input. This covers the IV constant, the tweak sequence (FIRST|MSG, then FIRST cleared, FINAL or'ed in, the fresh OUT tweak with position 8), the byte counts 64/8/8, the hand-built final and output blocks, the unrolled rounds with their permutation and injections, and the digest bytes. |
| `skein512_big_endian` (`MCSkein512BE.cfg`, expected violation) | `Skein512Refinement` | On a big-endian build, every chaining value still matches, but the digest does not: the `memcpy` at 784 writes each 64-bit word in host order. See the finding below. |
| `groestl256` (`MCGroestl256.cfg`, little-endian build) | `TypeOK`, `TColumnOK`, `Groestl256Refinement` | For every byte b, `T[2b]` and `T[2b+1]` are rows 0-3 and 4-7 of the MixBytes column of S(b), and the S-box table of `GroestlMix` is S as well. `groestl_hash` computes Groestl-256 on every input. This covers the IV, the three blocks `Transform` takes from `data` while the 8-byte tail is ignored, the hand-built fourth block with count 4, the 128 word arguments of the `COLUMN` calls with their rotations and half swaps, the in-place round constants and the y/z ping-pong, and the output feed-forward of the lower half. |
| `groestl256_big_endian` (`MCGroestl256BE.cfg`, expected violation) | `Groestl256Refinement` | On a big-endian build, already the initial state is wrong: `u32BIG(256)` stores the bytes of the IV's last word in the wrong order. |
| `jh256` (`MCJH256.cfg`, both byte orders) | `TypeOK`, `JH256Refinement` | `jh_hash` computes JH-256 on every input, on either host. This covers the IV table, the constant table with its row and word indices, the bitsliced S-boxes and linear map, the seven SWAP granularities and the half swap, and the two padding blocks, the second built over the first. On a big-endian host every value read through a cast (block, state, constants) is byte-reversed alike, the bitwise operations do not care, and each SWAP exchanges aligned groups that byte reversal maps onto each other. |
| `windows_args` (`MCWindowsArgs.cfg`, `FairSpec`) | `TypeOK`, `FreesWhatItAllocated`, `WindowsArgsRefinement`, `Completes` | The failure path's `delete[]` only ever receives the base pointer: a conversion can fail only at the first argument. `get_windows_args` implements `WindowsArgsAbs`. The mapping reads each pointer of `argptrs` as the C string a caller sees (`StringAt`: the buffer's bytes up to the first 0, or an unwritten byte if the buffer ends first). So every return of true leaves one pointer per argument, in order, to that argument's UTF-8 bytes and a terminator inside the buffer, with none overwritten by a later conversion. A return of false leaves no pointer. An exception from `emplace_back` leaves only pointers to fully converted arguments. Every call on a non-empty line finishes, and returns true unless `CommandLineToArgvW`, `new[]` or `emplace_back` ran out of memory. |
| `rpc_client` (`MCRpcClient.cfg`: 3 calls, statuses OK and BUSY) | `RepliedOk` | `json_rpc_request` and `rpc_request` return true only when the daemon acted on that call's request, exactly once. A BUSY answer, a lost request and a timed-out call never count as success: the status tests at 85 and 109 make the difference. The methods never resend, so "at most once" is not stated separately. A late reply can never be read by a later call, because the model's connections are per call by construction. So `RepliedOk` does not test the close at line 52 (see "Not modelled"). `basic_json_rpc_request` returns true for any status: its caller must read `res.status`. |
| `windows_args_fit` (`MCWindowsArgsFit.cfg`, expected violation) | `FailsOnlyWithoutMemory` | An empty command line makes the function fail although no allocation failed. See the finding below. |
| `windows_args_leak` (`MCWindowsArgsLeak.cfg`, expected violation) | `NoLeakOnReturn` | The array from `CommandLineToArgvW` is still live when the function returns or throws. |
| `command_line_answers` (`MCCommandLineAnswers.cfg`, English/German/French) | `CaseInsensitiveAnswers` | `is_yes` and `is_no` accept exactly y, yes, n, no and the translation in any letter case, and nothing else. |
| `command_line_answers_cyrillic` (`MCCommandLineAnswersCyr.cfg`, Russian, expected violation) | `CaseInsensitiveAnswers` | An upper-case "ДА" is not yes. See the finding below. |

Every property has a mutant in `PROJECT.json`: a faulty variant of a
mapped definition (for example, the last block's counter advanced by 8
instead of 64) under which TLC finds the property violated.

**Finding.** On a big-endian host, `skein_hash` does not compute
Skein-512-256 (`aux_hash.c:784`). The message words are assembled byte by
byte (689-696), so they do not depend on the host. The digest, however, is
`memcpy`'d out of `uint64_t` words, so each of its four 8-byte groups comes
out byte-reversed. This contradicts two parts of the specification: its
conformance requirement (section 8, "for any 200-byte input") and its rule
against relying on the memory layout of wider integers (section 9). The
BLAKE driver, by contrast, writes its digest with `U32TO8` and does not
depend on the host.

**Finding.** On a big-endian host, `groestl_hash` does not compute
Groestl-256 (`aux_hash.c:375`). `u32BIG` is a byte swap, so it produces
the big-endian bytes of 256 only on a little-endian host. On a big-endian
host the IV is wrong before any block is processed. The same byte-order
assumption appears in the T table and in the `uint32_t` round constants.

**Finding.** The comment at `command_line.cpp:83` says the buffer size
`wcslen * 3 + nArgs` "guarantees fit for all BMP and SMP glyphs". For
every non-empty command line the model confirms it: each unit needs at
most 3 bytes, and each argument's terminator is paid for by `+ nArgs`.
Spaces between arguments leave slack, so the buffer is never exhausted
before the last argument. But for an empty command line,
`CommandLineToArgvW` returns the executable's path, while the size is
0 * 3 + 1 = 1. The first conversion fails, and `get_windows_args`
returns false although nothing failed to allocate.

**Finding.** `get_windows_args` never calls `LocalFree` on the array
`CommandLineToArgvW` returns (`command_line.cpp:78`). That holds on the
success path, the conversion-failure path and the `bad_alloc` path. This
is a small, one-time leak. When `emplace_back` (95) throws, the buffer
from `new[]` leaks as well.

**Finding.** `is_yes`/`is_no` compare the translated word with boost's
`is_iequal`, which applies `std::toupper` to one `char` at a time
(`command_line.cpp:53`, 67). A Cyrillic translation is multi-byte UTF-8,
whose bytes `toupper` leaves alone, so "да" is yes but "ДА" is not, while
both "yes" and "YES" are. TLC reports it in an initial state of the
Russian configuration; with Latin translations the property holds.

**Refinement mapping for JH.** `F8` changes `state.x` in place over 42
steps, while the specification's F8 is one step from the state at entry.
While F8 runs, the mapping hands the specification `hIn`, the state's
bytes recorded at `F8Entry`; at every other point it hands it `x`'s
bytes. The specification describes the length block as "the bit-count 6
and byte-count 64 markers"; the bytes 6 and 64 at 62-63 are one number,
0x0640 = 1600, the message's bit length, as the refinement confirms.

**Refinement mapping for Groestl.** The code's output step XORs `temp`
into the lower half of `context.chaining`. The specification's output step
leaves h unchanged. So in the final state the mapping undoes that XOR
(`ChainBytes`) and hands the specification h as it was.

The specification says Skein runs "18 rounds organized as 9
double-rounds". The code runs 72 rounds: 9 calls of `R512_8_rounds`, each
of 8 rounds. The reference spec runs 72 rounds too, and the refinement
holds, so the code is right and the sentence in the specification is
wrong.

**Evaluation depth.** TLC evaluates every `LET` definition on demand. A
round's data dependencies therefore become nested Java calls. The reference
specifications iterate with an accumulator (`RoundStates`, `Groups`), so
that each step starts from a value that has already been computed. `Zeros`
is a slice of one constant. Together these keep the deepest evaluation well
within TLC's default thread stack.

## 4. Plan

The order of the work, one module and one run at a time:

Done: BLAKE-256, Skein-512-256, Groestl-256, JH-256, `get_windows_args`
(with termination under weak fairness, and a refinement of the abstract
`WindowsArgsAbs`), `is_yes`/`is_no` and the RPC
client with its daemon and a lossy network.

Further work on the modelled parts:

1. Quoted arguments and backslashes in `CommandLineToArgvW`. They only
   remove units, so they add slack to the buffer. They would enlarge the
   command lines without reaching new code.
2. More inputs for the hash models, e.g. single-bit differences of the
   ramp. These cost time without reaching new code, since one input
   already fires every action.

Not modelled, and why:

- the address validator, daemonizer and transaction-info headers, which are
  declarations only: they hold no statement that changes state. The lines
  of the modelled files that the map does not name are licence comments,
  includes, namespace braces and declarations. Everything else in the
  repository is modelled, and what remains lies outside it;
- inside the RPC client's environment: `t_http_connection`, epee's
  `http_simple_client` and `invoke_http_json(_rpc)` are not in the
  repository. The model gives them only what the methods rely on: a
  connection per call, and a reply or a timeout. It does not model
  epee's HTTP and JSON handling, or what its client would do with a late
  reply on a connection left open. For this reason the hazard at
  `rpc_client.h:52` (a late reply read as the next call's answer) has no
  property. `RepliedOk` would catch it, but the model's connections are
  per call by construction, and no mutant of this repository's code can
  reuse one;
- the translation table behind `tr`: `i18n_translate` is not in the
  repository, so each language's table is a constant of the model;
- the dispatcher, which is not in the repository.
