-------------------------------- MODULE Shell --------------------------------
(***************************************************************************)
(* The shell (src/YYUserspace/shell/shell.cpp and run of init.s): getline  *)
(* edits a line in buf, the line is cut into arguments in place, and the   *)
(* first of them is a builtin or a program.  What happens while a program  *)
(* runs is in UserSpace.                                                   *)
(*                                                                         *)
(* Keys are model values, '\0' can be one; the arrows are the last of      *)
(* the three keys the terminal sends for them.  What is printed is left    *)
(* out, and with it how the last program ended and the files builtins read *)
(***************************************************************************)
EXTENDS Integers, Sequences, FiniteSetsExt, Functions

CONSTANTS
  Keys,                                    (* what getc returns            *)
  Enter, Backspaces, Escape, Bracket,      (* '\r', {'\b', '\x7f'}, '\033' *)
  ArrowUp, ArrowDown, ArrowRight, ArrowLeft, (* 'A', 'B', 'C', 'D'         *)
  Space, Quotes, Zero,
  Ls, Cat, Exit, Status,                   (* the words "ls", "cat", "exit", "?" *)
  Others,                                  (* the other builtins' words    *)
  Size                                     (* of a line, 127               *)

ASSUME ShellAssumption ==
  Size \in Nat \ {0} /\ Space \notin Quotes

VARIABLES
  buf,     \* the 128 bytes, from 0 on
  pos, length,
  state,   \* where the shell is
  argv,    \* indices of the arguments in buf
  line     \* history: the line as it was entered

editVars == <<buf, pos, length>>
vars == <<editVars, state, argv, line>>

Cells == 0 .. Size

-----------------------------------------------------------------------------
(* getline.                                                                *)
Edited == [buf |-> buf, pos |-> pos, length |-> length]

(* Mutant: the last cell of what is moved is lost.                         *)
InsertedShort(e, c) ==
  IF e.length = Size THEN e
  ELSE [buf |-> [i \in Cells |-> IF i = e.pos THEN c
                                 ELSE IF i \in e.pos + 1 .. e.length - 1 THEN e.buf[i - 1]
                                 ELSE e.buf[i]],
        pos |-> e.pos + 1, length |-> e.length + 1]

(* insertChar(buf, pos++, length++, c), when there is room.                *)
Inserted(e, c) ==
  IF e.length = Size THEN e
  ELSE [buf |-> [i \in Cells |-> IF i = e.pos THEN c
                                 ELSE IF i \in e.pos + 1 .. e.length THEN e.buf[i - 1]
                                 ELSE e.buf[i]],
        pos |-> e.pos + 1, length |-> e.length + 1]

(* removeChar(buf, pos - 1, length--), pos--.                              *)
Removed(e) ==
  IF e.pos = 0 THEN e
  ELSE [buf |-> [i \in Cells |-> IF i \in e.pos - 1 .. e.length - 2 THEN e.buf[i + 1]
                                 ELSE e.buf[i]],
        pos |-> e.pos - 1, length |-> e.length - 1]

(* Everything but the left arrow goes right, a sequence nobody knows too.  *)
Moved(e, c) ==
  [e EXCEPT !.pos = IF c = ArrowLeft THEN Max({0, @ - 1})
                    ELSE IF c \in {ArrowUp, ArrowDown} THEN @
                    ELSE Min({e.length, @ + 1})]

Becomes(e) == buf' = e.buf /\ pos' = e.pos /\ length' = e.length

Key(c) ==
  /\ state = "key" /\ c # Enter
  /\ Becomes(IF c \in Backspaces THEN Removed(Edited)
             ELSE IF c = Escape THEN Edited ELSE Inserted(Edited, c))
  /\ state' = IF c = Escape THEN "escape" ELSE "key"
  /\ UNCHANGED <<argv, line>>

(* A character that does not begin an arrow is put in, whatever it is.     *)
AfterEscape(c) ==
  /\ state = "escape"
  /\ Becomes(IF c = Bracket THEN Edited ELSE Inserted(Edited, c))
  /\ state' = "arrow"
  /\ UNCHANGED <<argv, line>>

Arrow(c) ==
  /\ state = "arrow"
  /\ Becomes(Moved(IF c \in {ArrowUp, ArrowDown, ArrowRight, ArrowLeft} THEN Edited
                   ELSE Inserted(Inserted(Edited, Bracket), c), c))
  /\ state' = "key"
  /\ UNCHANGED <<argv, line>>

-----------------------------------------------------------------------------
(* Mutant: an argument in quotes ends at a space.                          *)
EndAtSpace(i) == Min({j \in i + 1 .. length - 1 : buf[j] = Space} \cup {length})

(* Where the argument that starts at i ends.                               *)
EndOfArgument(i) ==
  Min({j \in i + 1 .. length - 1 :
         IF buf[i] \in Quotes THEN buf[j] = buf[i] ELSE buf[j] = Space} \cup {length})

(* One turn of the loop over the line, unless the turn before has gone     *)
(* beyond i.  A quote that nobody closes drops its argument.               *)
CutAt(t, i) ==
  IF i < t.next \/ buf[i] = Space THEN t
  ELSE LET end == EndOfArgument(i)
       IN  [next |-> end + 1,
            buf  |-> [t.buf EXCEPT ![end] = Zero],
            argv |-> IF buf[i] \notin Quotes THEN Append(t.argv, i)
                     ELSE IF end < length THEN Append(t.argv, i + 1)
                     ELSE t.argv]

(* The line after i turns of the loop.                                     *)
Turns ==
  LET t[i \in 0 .. length] ==
        IF i = 0 THEN [next |-> 0, buf |-> buf, argv |-> << >>] ELSE CutAt(t[i - 1], i - 1)
  IN  t

Cut == Turns[length]

Text == [i \in 1 .. length |-> buf[i - 1]]

EnterLine ==
  /\ state = "key" /\ Enter \in Keys
  /\ buf' = Cut.buf /\ argv' = Cut.argv /\ line' = Text
  /\ state' = "command"
  /\ UNCHANGED <<pos, length>>

(* The string at index i of buf.                                           *)
Word(i) ==
  LET end == Min({j \in Cells : j >= i /\ buf[j] = Zero})
  IN  [k \in 1 .. end - i |-> buf[i + k - 1]]

-----------------------------------------------------------------------------
(* Back to the prompt by continue, or at the end of the loop, where buf is *)
(* cleared.                                                                *)
Prompt(cleared) ==
  /\ state' = "key" /\ pos' = 0 /\ length' = 0
  /\ buf' = IF cleared THEN [i \in Cells |-> Zero] ELSE buf
  /\ argv' = << >> /\ line' = << >>

Command == Word(argv[1])

EmptyLine ==
  /\ state = "command" /\ argv = << >>
  /\ Prompt(FALSE)

(* ls and cat need one argument, and a file they can open.                 *)
RefusedFile ==
  /\ state = "command" /\ argv # << >> /\ Command \in {Ls, Cat}
  /\ Prompt(FALSE)

ReadFile ==
  /\ state = "command" /\ argv # << >> /\ Command \in {Ls, Cat} /\ Len(argv) = 2
  /\ Prompt(TRUE)

ExitShell ==
  /\ state = "command" /\ argv # << >> /\ Command = Exit
  /\ IF Len(argv) = 1 THEN state' = "exited" /\ UNCHANGED <<editVars, argv, line>>
     ELSE Prompt(FALSE)

(* '?' prints how a program ended; echo, help, clear and date print, too.  *)
PrintSomething ==
  /\ state = "command" /\ argv # << >> /\ Command \in Others \cup {Status}
  /\ Prompt(Command # Status \/ Len(argv) = 1)

IsProgram == argv # << >> /\ Command \notin Others \cup {Ls, Cat, Exit, Status}

(* run comes back when the program has ended, however it has ended         *)
(* (UserSpace), or stops at je $ when there is no process for it.          *)
RunProgram ==
  /\ state = "command" /\ IsProgram
  /\ \/ Prompt(TRUE)
     \/ state' = "spins" /\ UNCHANGED <<editVars, argv, line>>

-----------------------------------------------------------------------------
Init ==
  /\ buf = [i \in Cells |-> Zero] /\ pos = 0 /\ length = 0
  /\ state = "key" /\ argv = << >> /\ line = << >>

Next ==
  \/ \E c \in Keys : Key(c) \/ AfterEscape(c) \/ Arrow(c)
  \/ EnterLine \/ EmptyLine
  \/ RefusedFile \/ ReadFile \/ ExitShell \/ PrintSomething
  \/ RunProgram

Spec == Init /\ [][Next]_vars

-----------------------------------------------------------------------------
(* The array with insertChar and removeChar is a text with a cursor:       *)
(* whatever is typed, erased and moved, and also after lines that left     *)
(* their characters in the buffer.                                         *)
Editor == INSTANCE TextLine WITH
            text <- IF state \in {"key", "escape", "arrow"} THEN Text ELSE line,
            cursor <- pos, entered <- state \notin {"key", "escape", "arrow"}
EditsText == Editor!Spec

(* Argument k is the part of the line before index behind: to a space or   *)
(* the line's end, or between two quotes of one kind.  As a string it goes *)
(* to the part's end, which is a '\0' in buf, or to a '\0' that was typed. *)
IsPart(k, behind) ==
  LET first == argv[k] + 1
      end   == first + Len(Word(argv[k]))
      part  == {line[j] : j \in first .. behind - 1}
  IN  /\ \E j \in Cells : j >= argv[k] /\ buf[j] = Zero
      /\ Word(argv[k]) = SubSeq(line, first, end - 1)
      /\ end = behind \/ (end < behind /\ line[end] = Zero)
      /\ k < Len(argv) => behind <= argv[k + 1]
      /\ \/ /\ first > 1 /\ line[first - 1] \in Quotes \ part
            /\ behind <= Len(line) /\ line[behind] = line[first - 1]
         \/ /\ first < behind /\ line[first] \notin Quotes /\ Space \notin part
            /\ behind > Len(line) \/ line[behind] = Space

Ends == 1 .. Len(line) + 1

(* Every argument is such a part, and they are in the order of the line.   *)
ArgumentsAreWords == \A k \in DOMAIN argv : \E behind \in Ends : IsPart(k, behind)

(* No character is lost: what is in no argument's part is a space, a       *)
(* quote, or behind a quote that is not closed.                            *)
NothingIsLost ==
  \A i \in DOMAIN line :
    \/ line[i] \in Quotes \cup {Space}
    \/ \E q \in 1 .. i - 1 :
         line[q] \in Quotes /\ \A j \in q + 1 .. Len(line) : line[j] # line[q]
    \/ \E k \in DOMAIN argv, behind \in Ends :
         IsPart(k, behind) /\ i \in argv[k] + 1 .. behind - 1

(* The line that was entered is cut into its words, and into nothing else, *)
(* whatever was typed and earlier lines have left in the buffer.           *)
LineIsCutIntoWords == state = "command" => ArgumentsAreWords /\ NothingIsLost
=============================================================================
