------------------------------- MODULE RamDisk -------------------------------
(***************************************************************************)
(* The ram disk of the YYSloth kernel (src/YYSloth/src/fs/ramdiskfs.cpp):  *)
(* an archive as tar writes it in the v7 format (src/builduserspace.sh),   *)
(* every directory before what it contains, is parsed once by mount into   *)
(* nodes, in which names are then looked up (Files).                       *)
(*                                                                         *)
(* parseHeader calls itself for the headers whose names begin with that of *)
(* a directory; its calls are the stack parsing here.  A path is a sequence*)
(* of names, relative to the root: names of directories end with a slash   *)
(* in the archive, so a prefix of a path is a prefix of the name.          *)
(***************************************************************************)
EXTENDS DynArray, SequencesExt

CONSTANTS
  Names,      (* names of files and directories                            *)
  Archives,   (* archives: sequences of [path, dir]                        *)
  EntryWidth, (* bytes of a RamdiskDirEntry, 24                            *)
  NodeWidth,  (* bytes of a pointer to a node, 8                           *)
  FileSize    (* bytes of every file                                       *)

Child(h, d) == h.dir /\ Len(d.path) = Len(h.path) + 1 /\ IsPrefix(h.path, d.path)

ASSUME DiskAssumption ==
  /\ {EntryWidth, NodeWidth} \subseteq Nat \ {0} /\ FileSize \in Nat
  /\ \A a \in Archives :
       /\ a \in Seq([path : Seq(Names), dir : BOOLEAN])
       /\ a # << >> /\ a[1] = [path |-> << >>, dir |-> TRUE]
       /\ \A i \in DOMAIN a :
            /\ i > 1 => \E j \in 1 .. i - 1 :
                 /\ Child(a[j], a[i])
                 /\ \A k \in j + 1 .. i - 1 : IsStrictPrefix(a[j].path, a[k].path)
            /\ \A j \in DOMAIN a : a[i].path = a[j].path => i = j

(* RamdiskDirEntry and RamdiskNode; new memory is neither.                 *)
DirEntry == [inode : Nat, name : Names]
DiskNode == [header : Nat, entries : [elems : Seq(DirEntry \cup {Junk}), capacity : Nat]]

ASSUME JunkAssumption == Junk \notin DirEntry \cup DiskNode

VARIABLES
  archive,
  cursor,    \* the header cur points to
  parsing,   \* calls of parseHeader for directories: [header, entries]
  nodes      \* the array of nodes: [header, entries]

diskVars == <<archive, cursor, parsing, nodes>>

-----------------------------------------------------------------------------
Top == parsing[Len(parsing)]

(* Mutant: a directory takes all headers that follow.                      *)
AnyInTop == cursor <= Len(archive)

(* The header belongs to the innermost directory that is being parsed.     *)
(* Blocks of zeros follow the last header.                                 *)
InTop ==
  /\ cursor <= Len(archive)
  /\ IsStrictPrefix(archive[Top.header].path, archive[cursor].path)

(* The stack after node num, that of header h, has been parsed.            *)
WithEntry(stack, num, h) ==
  IF stack = << >> THEN stack
  ELSE [stack EXCEPT ![Len(stack)].entries =
          PushBack(@, [inode |-> num, name |-> Last(archive[h].path)], EntryWidth)]

OpenDirectory ==
  /\ IF parsing = << >> THEN cursor = 1 ELSE InTop
  /\ archive[cursor].dir
  /\ parsing' = Append(parsing, [header |-> cursor, entries |-> EmptyArray])
  /\ cursor' = cursor + 1
  /\ UNCHANGED <<archive, nodes>>

AddFile ==
  /\ parsing # << >> /\ InTop /\ ~archive[cursor].dir
  /\ nodes' = PushBack(nodes, [header |-> cursor, entries |-> EmptyArray], NodeWidth)
  /\ parsing' = WithEntry(parsing, Len(nodes'.elems), cursor)
  /\ cursor' = cursor + 1
  /\ UNCHANGED archive

CloseDirectory ==
  /\ parsing # << >> /\ ~InTop
  /\ nodes' = PushBack(nodes, Top, NodeWidth)
  /\ parsing' = WithEntry(Front(parsing), Len(nodes'.elems), Top.header)
  /\ UNCHANGED <<archive, cursor>>

Mounted == parsing = << >> /\ cursor > 1

-----------------------------------------------------------------------------
GetRootNum == Len(nodes.elems)

(* nullptr is Junk too: neither can be used.                               *)
GetNode(num) == IF num \in DOMAIN nodes.elems THEN nodes.elems[num] ELSE Junk

(* The first entry with the name.                                          *)
Lookup(num, n) ==
  LET node  == GetNode(num)
      found == IF node = Junk THEN {}
               ELSE {i \in DOMAIN node.entries.elems :
                       LET e == node.entries.elems[i] IN e # Junk /\ e.name = n}
  IN  IF found = {} THEN 0 ELSE node.entries.elems[Min(found)].inode

(* Looking up the names of a path, one in the node of the one before.      *)
Resolve(path) ==
  LET at[k \in 0 .. Len(path)] ==
        IF k = 0 THEN GetRootNum ELSE Lookup(at[k - 1], path[k])
  IN  at[Len(path)]

IsDirectory(num) == archive[GetNode(num).header].dir

Size(num) == IF IsDirectory(num) THEN Len(GetNode(num).entries.elems) ELSE FileSize

DiskInit == archive \in Archives /\ cursor = 1 /\ parsing = << >> /\ nodes = EmptyArray

ParseHeader == OpenDirectory \/ AddFile \/ CloseDirectory

-----------------------------------------------------------------------------
DiskTypeOK ==
  /\ cursor \in 1 .. Len(archive) + 1
  /\ \A i \in DOMAIN parsing : parsing[i].header \in 1 .. cursor - 1
  /\ Len(nodes.elems) < nodes.capacity

(* "initrd - static data that needs to be located at the root of           *)
(* filesystem": once the disk is mounted every file and directory of the   *)
(* archive is found by its path, and is what the archive has there.        *)
EverythingIsFound ==
  Mounted => \A i \in DOMAIN archive :
    LET node == GetNode(Resolve(archive[i].path)) IN node # Junk /\ node.header = i
=============================================================================
