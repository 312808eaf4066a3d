---------------------------- MODULE ExecuteBinary ----------------------------
(***************************************************************************)
(* The memory of one process from program to program: how YY_ExecuteBinary *)
(* checks, loads and starts a program (userapi.cpp, and parseElf and       *)
(* Elf::load of elf.cpp), what the program then does with its memory, and  *)
(* how the next program takes its place.  The list of free areas is        *)
(* UserVirtualAllocator.                                                   *)
(*                                                                         *)
(* A byte of the pages of the arguments is known by what was last written  *)
(* to it.  A program header has a type, the bytes it takes of memory from  *)
(* vaddr on, and the bytes it takes of the file.  Type "other" stands for  *)
(* every header parseElf refuses by itself, and a load that finds no       *)
(* frame, no list node or not the bytes it wants of the file is in Dies.   *)
(***************************************************************************)
EXTENDS UserVirtualAllocator

CONSTANTS
  Files,      (* the program headers of the files on the disk              *)
  Leftover,   (* ranges that a new ElfMemoryArea may happen to name        *)
  Pointer,    (* bytes of a pointer, 8                                     *)
  Low,        (* bytes of an address that may not be zero: memory the      *)
              (* program is given lies in the low 4 gigabytes              *)
  Stride,     (* what the code takes for it: sizeof(8) is 4                *)
  MaxCount,   (* YY_MaxArgCount                                            *)
  Lengths     (* lengths of the arguments programs pass                    *)

Words == 0 .. Space - 1
Headers == [type : {"null", "load", "other"}, vaddr : Words, memory : Words, bytes : Words]

ASSUME ExecuteAssumption ==
  /\ Files \subseteq Seq(Headers) /\ Leftover \subseteq Ranges64
  /\ Pointer \in Nat \ {0} /\ Low \in 1 .. Pointer /\ Stride \in 1 .. Pointer
  /\ MaxCount \in Nat /\ Lengths \subseteq Nat

VARIABLES
  stage,   \* "accepted", "loading", "copying", "started", "running", "dead"
  file,    \* the program headers of the binary
  loaded,  \* how many of them have been loaded
  lens,    \* the lengths of the arguments
  next,    \* the argument to copy
  values,  \* where its string goes, from the start of argsStorage
  argv,    \* the addresses stored in the array so far
  memory   \* what the bytes written so far hold

execVars == <<file, loaded, lens, next, values, argv, memory>>
vars == <<memoryVars, stage, execVars>>

-----------------------------------------------------------------------------
(* parseElf.                                                               *)
Base(h) == AlignDown(h.vaddr)
(* Mutant: the last page is left out unless it is full.                    *)
LimitDown(h) == AlignDown(Plus(h.vaddr, h.memory))
Limit(h) == AlignUp(Plus(h.vaddr, h.memory)) % Space

(* The end of memory wraps around, on the way to it or when it is rounded. *)
EndWraps(h) == Wraps(h.vaddr, h.memory + PageBytes - 1)

(* Where the last program header of memory before header i ends.           *)
PrevEnd(f, i) ==
  LET before == {j \in 1 .. i - 1 : f[j].type = "load"}
  IN  IF before = {} THEN PageBytes ELSE Limit(f[Max(before)])

(* Each header starts in a page at or behind the end of the one before.    *)
Parses(f) ==
  \A i \in DOMAIN f :
    \/ f[i].type = "null"
    \/ f[i].type = "load" /\ Base(f[i]) >= PrevEnd(f, i)

-----------------------------------------------------------------------------
(* The arguments.  A byte of a pointer, a letter of a string, or zero.     *)
Zero == [of |-> 0, at |-> 0]
PointerByte(i, k) == IF k < Low THEN [of |-> -i, at |-> k] ELSE Zero
StringByte(i, k) == IF k < lens[i] THEN [of |-> i, at |-> k] ELSE Zero

(* Where pointer i is, counted from 1, and a string of n letters.          *)
PointerStart(i) == Pointer * (i - 1)
PointerCells(i) == PointerStart(i) .. PointerStart(i) + Pointer - 1
StringCells(start, n) == start .. start + n

argc == Len(lens)

(* The bytes of the first n strings, each with its terminator.             *)
StringBytes(l) ==
  LET upTo[n \in 0 .. Len(l)] == IF n = 0 THEN 0 ELSE upTo[n - 1] + l[n] + 1
  IN  upTo

(* Mutant: no room for the array.                                          *)
RoomForStrings == StringBytes(lens)[argc]

(* fullsizeof before it is rounded up to pages.                            *)
Room == Pointer * (argc + 1) + StringBytes(lens)[argc]

(* Mutant: the strings start where the array does.                         *)
ValuesAtArray == 0

ValuesStart == Stride * (argc + 1)

-----------------------------------------------------------------------------
(* The call returns: too many arguments, one that cannot be copied, a file *)
(* that cannot be opened.  The loop that should validate the arguments     *)
(* validates the path again: only their number is checked.                 *)
ExecuteReturns == stage = "running" /\ UNCHANGED vars

(* The point of no return: the old memory is gone.                         *)
Execute ==
  /\ stage = "running"
  /\ Cleanup(Empty)
  /\ stage' = "accepted"
  /\ UNCHANGED execVars

(* The file that has been opened and the arguments that have been copied   *)
(* to the kernel; they are chosen here, where the old memory is gone, so   *)
(* that what may come next need not be looked at for each old memory.      *)
Parse ==
  /\ stage = "accepted" /\ stage' = "loading"
  /\ file' \in Files
  /\ \E n \in 0 .. MaxCount : lens' \in [1 .. n -> Lengths]
  /\ UNCHANGED <<memoryVars, loaded, next, values, argv, memory>>

(* Elf::load of the next header.  Where bytes of the file would go to      *)
(* pages that have not been mapped the kernel faults.                      *)
FilePages(h) == {PageOf(a) : a \in Span(h.vaddr, h.bytes)}

LoadSegment ==
  /\ stage = "loading" /\ Parses(file) /\ loaded < Len(file)
  /\ LET h == file[loaded + 1]
     IN  /\ h.type = "load"
         /\ FilePages(h) \subseteq mapped \cup PagesIn(Base(h), Limit(h))
         /\ Reserve(Base(h), Minus(Limit(h), Base(h)))
         /\ MapProgram(Base(h), Limit(h))
         /\ wrapped' = (wrapped \/ EndWraps(h))
  /\ loaded' = loaded + 1
  /\ UNCHANGED <<stage, file, lens, next, values, argv, memory>>

(* The area of a header of type "null" is never written, and reserved all  *)
(* the same, but not mapped.                                               *)
LoadNothing ==
  /\ stage = "loading" /\ Parses(file) /\ loaded < Len(file)
  /\ file[loaded + 1].type = "null"
  /\ \E a \in Leftover :
       Reserve(a.start, a.size) /\ wrapped' = (wrapped \/ Wraps(a.start, a.size))
  /\ loaded' = loaded + 1
  /\ UNCHANGED <<mapped, program, blocks, foreign>>
  /\ UNCHANGED <<stage, file, lens, next, values, argv, memory>>

AllocArguments ==
  /\ stage = "loading" /\ Parses(file) /\ loaded = Len(file)
  /\ AllocProgram(AlignUp(Room))
  /\ stage' = "copying" /\ values' = ValuesStart
  /\ UNCHANGED <<file, loaded, lens, next, argv, memory>>

(* One pointer and one string, with its terminator.                        *)
CopyArgument ==
  /\ stage = "copying" /\ next <= argc
  /\ memory' = [b \in DOMAIN memory \cup PointerCells(next) \cup StringCells(values, lens[next]) |->
       IF b \in StringCells(values, lens[next]) THEN StringByte(next, b - values)
       ELSE IF b \in PointerCells(next) THEN PointerByte(next, b - PointerStart(next))
       ELSE memory[b]]
  /\ argv' = Append(argv, values)
  /\ values' = values + lens[next] + 1
  /\ next' = next + 1
  /\ UNCHANGED <<memoryVars, stage, file, loaded, lens>>

Start ==
  /\ stage = "copying" /\ next > argc
  /\ stage' = "started"
  /\ UNCHANGED <<memoryVars, execVars>>

Forget ==
  /\ file' = <<>> /\ loaded' = 0
  /\ lens' = <<>> /\ next' = 1 /\ values' = 0 /\ argv' = <<>>
  /\ memory' = [b \in {} |-> Zero]

(* The program runs, and what it was started from is forgotten.            *)
Run ==
  /\ stage = "started"
  /\ stage' = "running" /\ Forget
  /\ UNCHANGED memoryVars

(* A bound: when the end or the size of a range has wrapped around, what   *)
(* the program does is followed no further than to its end or to the       *)
(* program that takes its place.                                           *)
Running(op) == stage = "running" /\ ~wrapped /\ op /\ UNCHANGED <<stage, execVars>>

(* The process exits or is killed; or a load fails past the point of no    *)
(* return, or YY_VirtualFree finds no list node.                           *)
Dies ==
  /\ stage # "dead" /\ stage' = "dead"
  /\ Cleanup(<<>>) /\ Forget

-----------------------------------------------------------------------------
(* Process 1: initProcess loads its program in the same way, for no        *)
(* arguments, and panics where a later program would die.                  *)
Init ==
  /\ areas = Empty /\ NothingMapped
  /\ stage = "loading" /\ file \in Files /\ loaded = 0
  /\ lens = <<>> /\ next = 1 /\ values = 0 /\ argv = <<>>
  /\ memory = [b \in {} |-> Zero]

Next ==
  \/ ExecuteReturns \/ Execute \/ Parse \/ LoadSegment \/ LoadNothing
  \/ AllocArguments \/ CopyArgument \/ Start \/ Run \/ Dies
  \/ \E n \in Sizes : Running(VirtualAlloc(n)) \/ Running(VirtualAllocUnmapped(n))
  \/ \E a \in Frees : Running(VirtualFree(a.start, a.size))

Spec == Init /\ [][Next]_vars

-----------------------------------------------------------------------------
(* As long as there is a process its list of free areas has the shape that *)
(* alloc, reserve and free of usrvmmngr.cpp take for granted, whatever     *)
(* ranges the program frees and however often, the kernel's included.      *)
(* Ranges whose end wraps around do break it: after one nothing is said.   *)
FreeListShape == stage # "dead" /\ ~wrapped => ListShape

(* Everything is written into the pages that were asked for, whatever the  *)
(* number and the lengths of the arguments (userapi.cpp 234-242, 272-278). *)
WritesInRoom == DOMAIN memory \subseteq 0 .. Room - 1

(* A program is started with the arguments it was given: rsi is argv.      *)
Arrived(i) ==
  /\ \A b \in PointerCells(i) : memory[b] = PointerByte(i, b - PointerStart(i))
  /\ \A b \in StringCells(argv[i], lens[i]) : memory[b] = StringByte(i, b - argv[i])

ArgumentsArrive == stage = "started" => \A i \in 1 .. argc : Arrived(i)

(* A single argument arrives whatever its length, although its string is   *)
(* put where the array should end.                                         *)
SingleArgumentArrives == argc = 1 => ArgumentsArrive

(* A program starts with every byte of its segments mapped, each segment   *)
(* in pages of its own, and with mapped memory for its arguments in pages  *)
(* that are none of theirs; whatever program headers the file has and      *)
(* whatever areas that were never written have taken out of the list, as   *)
(* long as no end of one wraps around.                                     *)
Bytes(h) == {PageOf(a) : a \in Span(h.vaddr, Max({h.memory, h.bytes}))}
SegmentsAreWhole ==
  stage = "started" /\ ~wrapped =>
    LET load == {i \in DOMAIN file : file[i].type = "load"}
        segments == UNION {Bytes(file[i]) : i \in load}
    IN  /\ segments \subseteq mapped
        /\ \A i, j \in load : i # j => Bytes(file[i]) \cap Bytes(file[j]) = {}
        /\ \E a \in program :
             /\ a.size >= Room /\ PagesIn(a.start, Stop(a)) \subseteq mapped \ segments
=============================================================================
