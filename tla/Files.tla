-------------------------------- MODULE Files --------------------------------
(***************************************************************************)
(* The file systems of the YYSloth kernel as its system calls see them:    *)
(* kmain mounts the ram disk and the devices, VFS::open builds directory   *)
(* entries (DEntry) on its way down a mounted tree and counts their users, *)
(* YY_OpenFile and YY_ExecuteBinary call it, and an IFile is read, listed  *)
(* and closed (src/YYSloth/src/fs/vfs.cpp, fs/devfs.cpp, fs/ramdiskfs.cpp, *)
(* drivers/serial/serialfs.cpp, proc/descriptor.cpp, proc/userapi.cpp).    *)
(*                                                                         *)
(* The mutexes do nothing (Mutex::lock waits for ProcessManager to be      *)
(* initialised, which no code marks) and a system call is never preempted, *)
(* so there is one walker; its path is chosen step by step.                *)
(***************************************************************************)
EXTENDS RamDisk

CONSTANTS
  Devices,       (* names registered in the device file system, in order   *)
  MaxEntries,    (* memory for entries; the first two are the roots        *)
  MaxUsed,       (* bound: no walk starts when a root's count is above,    *)
  MaxWalked,     (* nor on a disk with more headers                        *)
  MaxCount       (* bound: the most that is read or listed by a call       *)

Entries == 1 .. MaxEntries
Disk == 1        (* the root of Y:, the ram disk                           *)
Dev == 2         (* the root of D:, the devices                            *)
Roots == {Disk, Dev}
NoHandle == 0

ASSUME FilesAssumption ==
  /\ Devices \in Seq(Names) /\ \A i, j \in DOMAIN Devices : Devices[i] = Devices[j] => i = j
  /\ MaxEntries \in Nat \ {0, 1} /\ {MaxUsed, MaxWalked, MaxCount} \subseteq Nat \ {0}

VARIABLES
  devices,          \* DevFSSuperblock::devices: the names, all with a node
  sb, node, par, used, \* of each DEntry: its root, number of its node (0: no entry), ...
  disposals,        \* how often dispose has run for the entry in a place
  walker,           \* the entry VFS::open has reached, 0 if it is not running
  execute,          \* the caller is YY_ExecuteBinary
  file,             \* the entry of the IFile in use, 0 if none
  pos,              \* its fileOffset, currentEntryIndex or currentIndex
  objects,          \* IFile objects of each entry
  handles,          \* DescriptorTable::handles of the process
  path,             \* history: the names that lead to the walker or the file
  delivered,        \* history: what read or readdir has given since the file was opened
  given             \* history: descriptors YY_OpenFile has returned

treeVars == <<sb, node, par, used, disposals>>
fileVars == <<file, pos, delivered, objects>>
tableVars == <<handles, given>>
vars == <<diskVars, devices, treeVars, walker, execute, path, fileVars, tableVars>>

Live == {d \in Entries : node[d] # 0}
Ready == node[Dev] # 0

-----------------------------------------------------------------------------
(* The table: the lowest empty slot, or a new one at the end; a slot that  *)
(* is freed goes, with the empty ones before it, if it is the last.        *)
AllocDescriptor(t) ==
  LET free == {i \in DOMAIN t : t[i] = NoHandle}
  IN  IF free = {} THEN [fd |-> Len(t), table |-> Append(t, NoHandle)]
      ELSE [fd |-> Min(free) - 1, table |-> t]

ShrinkToFit(t) == SubSeq(t, 1, Max({i \in DOMAIN t : t[i] # NoHandle} \cup {0}))

FreeDescriptor(t, fd) == ShrinkToFit([t EXCEPT ![fd + 1] = NoHandle])

(* What YY_OpenFile does to the table, whether it succeeds or not.         *)
AllocAndFree ==
  handles' = LET a == AllocDescriptor(handles) IN FreeDescriptor(a.table, a.fd)

-----------------------------------------------------------------------------
(* DevFSRootNode::lookup: node 1 is the directory, the devices are 2, ...  *)
DevLookup(num, n) ==
  LET found == IF num = 1 THEN {i \in DOMAIN devices : devices[i] = n} ELSE {}
  IN  IF found = {} THEN 0 ELSE 1 + Min(found)

DevResolve(names) ==
  LET at[k \in 0 .. Len(names)] == IF k = 0 THEN 1 ELSE DevLookup(at[k - 1], names[k])
  IN  at[Len(names)]

(* Mutant: a child is looked up in the directory above.                    *)
LookupAbove(d, n) ==
  IF sb[d] = Disk THEN Lookup(node[par[d]], n) ELSE DevLookup(node[par[d]], n)

(* node->lookup of entry d.                                                *)
LookupIn(d, n) == IF sb[d] = Disk THEN Lookup(node[d], n) ELSE DevLookup(node[d], n)

IsDir(d) == IF sb[d] = Disk THEN IsDirectory(node[d]) ELSE node[d] = 1

-----------------------------------------------------------------------------
(* VFS::mount: the entry of a root is its own parent and is used once.     *)
Mount(root, num) ==
  /\ node' = [node EXCEPT ![root] = num]
  /\ used' = [used EXCEPT ![root] = 1]
  /\ UNCHANGED <<diskVars, sb, par, disposals, walker, execute, path, fileVars, tableVars>>

MountDisk == Mounted /\ node[Disk] = 0 /\ Mount(Disk, GetRootNum) /\ UNCHANGED devices

(* kmain goes on with the devices, and registers them.                     *)
MountDevices ==
  /\ node[Disk] # 0 /\ node[Dev] = 0
  /\ Mount(Dev, 1)
  /\ devices' = Devices

-----------------------------------------------------------------------------
(* The entries dropRec unlinks when d loses a user: d and, going up, each  *)
(* whose last user was the one below.                                      *)
Dropped(d) ==
  LET up[k \in 0 .. MaxEntries] == IF k = 0 THEN d ELSE par[up[k - 1]]
  IN  {up[k] : k \in {j \in 0 .. MaxEntries : \A i \in 0 .. j : used[up[i]] = 1}}

(* decrementUsedCount and dropRec.  dispose is called on d itself once for *)
(* every entry that is unlinked, and on none of the others.                *)
Release(d) ==
  LET gone == Dropped(d)
      stays == IF gone = {} THEN d ELSE CHOOSE e \in {par[g] : g \in gone} : e \notin gone
  IN  /\ used' = [e \in Entries |-> IF e \in gone THEN 0
                                    ELSE IF e = stays THEN used[e] - 1 ELSE used[e]]
      /\ node' = [e \in Entries |-> IF e \in gone THEN 0 ELSE node[e]]
      /\ disposals' = [disposals EXCEPT ![d] = @ + Cardinality(gone)]
      /\ UNCHANGED <<sb, par>>

(* An entry that is unlinked is disposed of, once; what happens after a    *)
(* second time is undefined, and nothing is claimed of it.                 *)
DisposedOnce == \A d \in Entries : disposals[d] <= 1

Idle == walker = 0 /\ file = 0

(* VFS::open, called with a path in one of the mounted trees.              *)
StartWalk(root) ==
  /\ Ready /\ Idle /\ DisposedOnce
  /\ used[root] <= MaxUsed /\ Len(archive) <= MaxWalked
  /\ walker' = root /\ path' = << >>
  /\ used' = [used EXCEPT ![root] = @ + 1]
  /\ execute' \in BOOLEAN
  /\ UNCHANGED <<diskVars, devices, sb, node, par, disposals, fileVars, tableVars>>

(* Mutant: the walker is not counted among the users of the parent.        *)
GoToParentUncounted ==
  /\ walker # 0 /\ walker' = par[walker]
  /\ path' = IF path = << >> THEN path ELSE Front(path)
  /\ IF walker \in Roots THEN UNCHANGED <<node, used, disposals>>
     ELSE /\ used' = [used EXCEPT ![walker] = 0, ![par[walker]] = @ - 1]
          /\ node' = [node EXCEPT ![walker] = 0]
          /\ disposals' = [disposals EXCEPT ![walker] = @ + 1]
  /\ UNCHANGED <<diskVars, devices, sb, par, execute, fileVars, tableVars>>

(* goToParent: a root is its own parent.  An entry other than a root was   *)
(* made by this walk, which is its only user: it is dropped and its        *)
(* parent, which gains the walker, loses the child.                        *)
GoToParent ==
  /\ walker # 0 /\ walker' = par[walker]
  /\ path' = IF path = << >> THEN path ELSE Front(path)
  /\ IF walker \in Roots THEN UNCHANGED <<node, used, disposals>>
     ELSE /\ used' = [used EXCEPT ![walker] = 0]
          /\ node' = [node EXCEPT ![walker] = 0]
          /\ disposals' = [disposals EXCEPT ![walker] = @ + 1]
  /\ UNCHANGED <<diskVars, devices, sb, par, execute, fileVars, tableVars>>

(* goToChild: the list of children is never filled, so softLookup finds    *)
(* nothing and hardLookup makes a new entry, which replaces the walker     *)
(* among the users of the current one.                                     *)
GoToChild(n) ==
  /\ walker # 0 /\ LookupIn(walker, n) # 0
  /\ \E d \in Entries \ (Live \cup Roots) :
       /\ d = Min(Entries \ (Live \cup Roots))
       /\ node' = [node EXCEPT ![d] = LookupIn(walker, n)]
       /\ sb' = [sb EXCEPT ![d] = sb[walker]]
       /\ par' = [par EXCEPT ![d] = walker]
       /\ used' = [used EXCEPT ![d] = 1]
       /\ disposals' = [disposals EXCEPT ![d] = 0]
       /\ walker' = d
  /\ path' = Append(path, n)
  /\ UNCHANGED <<diskVars, devices, execute, fileVars, tableVars>>

(* The name is not in the directory, the entry is no directory or there is *)
(* no memory.  The caller returns -1, YY_OpenFile with its slot freed.     *)
WalkFails ==
  /\ walker # 0
  /\ Release(walker)
  /\ walker' = 0 /\ path' = << >>
  /\ IF execute THEN UNCHANGED handles ELSE AllocAndFree
  /\ UNCHANGED <<diskVars, devices, execute, fileVars, given>>

(* A node of the ram disk refuses to be opened for writing, or there is no *)
(* memory for its view: open returns without giving back the count it has  *)
(* added.                                                                  *)
OpenRefused ==
  /\ walker # 0 /\ sb[walker] = Disk
  /\ used' = [used EXCEPT ![walker] = @ + 1]
  /\ walker' = 0 /\ path' = << >>
  /\ IF execute THEN UNCHANGED handles ELSE AllocAndFree
  /\ UNCHANGED <<diskVars, devices, sb, node, par, disposals, execute, fileVars, given>>

(* YY_OpenFile has its file but no memory for a handle: it deletes the     *)
(* file, which takes back what open added for it, but not the walk's use.  *)
HandleFails ==
  /\ walker # 0 /\ ~execute
  /\ walker' = 0 /\ path' = << >>
  /\ AllocAndFree
  /\ UNCHANGED <<diskVars, devices, treeVars, execute, fileVars, given>>

(* YY_OpenFile: the handle is made, but the slot is freed and not set; no  *)
(* one knows the file any more.                                            *)
OpenFile ==
  /\ walker # 0 /\ ~execute
  /\ used' = [used EXCEPT ![walker] = @ + 1]
  /\ objects' = [objects EXCEPT ![walker] = @ + 1]
  /\ walker' = 0 /\ path' = << >>
  /\ AllocAndFree
  /\ given' = given \cup {AllocDescriptor(handles).fd}
  /\ UNCHANGED <<diskVars, devices, sb, node, par, disposals, execute, file, pos, delivered>>

(* YY_ExecuteBinary has its file.                                          *)
OpenBinary ==
  /\ walker # 0 /\ execute
  /\ used' = [used EXCEPT ![walker] = @ + 1]
  /\ objects' = [objects EXCEPT ![walker] = @ + 1]
  /\ file' = walker /\ pos' = 0 /\ delivered' = << >> /\ walker' = 0
  /\ UNCHANGED <<diskVars, devices, sb, node, par, disposals, execute, path, tableVars>>

-----------------------------------------------------------------------------
(* The interface of an IFile.  The loader reads and seeks; a descriptor's  *)
(* reader would call the same functions.                                   *)

Unchanged == UNCHANGED <<diskVars, devices, treeVars, walker, execute, path, file, objects, tableVars>>

(* realSize and realCount of the ram disk.                                 *)
RealCount(count) ==
  IF pos + count > Size(node[file]) THEN Size(node[file]) - pos ELSE count

(* Mutant: every call starts at the beginning of the node.                 *)
ReadFromStart(count) ==
  /\ file # 0 /\ sb[file] = Disk
  /\ pos' = pos + RealCount(count)
  /\ delivered' = delivered \o
       [i \in 1 .. RealCount(count) |->
          IF IsDir(file) THEN GetNode(node[file]).entries.elems[i] ELSE i]
  /\ Unchanged

(* RamdiskFileView::read gives bytes, RamdiskDirView::readdir entries.     *)
Read(count) ==
  /\ file # 0 /\ sb[file] = Disk
  /\ pos' = pos + RealCount(count)
  /\ delivered' = delivered \o
       [i \in 1 .. RealCount(count) |->
          IF IsDir(file) THEN GetNode(node[file]).entries.elems[pos + i] ELSE pos + i]
  /\ Unchanged

(* DevFSRootFile::readdir: all entries go to the first place of the buffer.*)
ReadDevices(count) ==
  /\ file # 0 /\ sb[file] = Dev /\ IsDir(file)
  /\ LET listed == IF pos + count > Len(devices) THEN Len(devices) - pos ELSE count
     IN  /\ pos' = pos + listed
         /\ delivered' = delivered \o
              [i \in 1 .. listed |->
                 IF i = 1 THEN [inode |-> pos + listed + 1, name |-> devices[pos + listed]]
                 ELSE Junk]
  /\ Unchanged

(* Mutant: a position behind the end is taken.                             *)
AnyNotBefore(p) == p >= 0

(* Positions lseek accepts: the end of the file is one.                    *)
InFile(p) == p >= 0 /\ p <= FileSize

(* RamdiskFileView::lseek from the start, the position or the end.         *)
Lseek(offset, from) ==
  /\ file # 0 /\ sb[file] = Disk /\ ~IsDir(file)
  /\ InFile(offset + from)
  /\ pos' = offset + from /\ delivered' = [i \in 1 .. offset + from |-> i]
  /\ Unchanged

(* ~IFile: YY_ExecuteBinary deletes its file, whether the program can be   *)
(* loaded or not.                                                          *)
CloseBinary ==
  /\ file # 0
  /\ Release(file)
  /\ objects' = [objects EXCEPT ![file] = @ - 1]
  /\ file' = 0 /\ pos' = 0 /\ delivered' = << >> /\ path' = << >>
  /\ UNCHANGED <<diskVars, devices, walker, execute, tableVars>>

-----------------------------------------------------------------------------
Init ==
  /\ DiskInit /\ devices = << >>
  /\ sb = [d \in Entries |-> IF d = Dev THEN Dev ELSE Disk]
  /\ node = [d \in Entries |-> 0]
  /\ par = [d \in Entries |-> IF d = Dev THEN Dev ELSE Disk]
  /\ used = [d \in Entries |-> 0] /\ disposals = [d \in Entries |-> 0]
  /\ walker = 0 /\ execute = FALSE /\ path = << >>
  /\ file = 0 /\ pos = 0 /\ delivered = << >>
  /\ objects = [d \in Entries |-> 0]
  /\ handles = << >> /\ given = {}

Next ==
  \/ ParseHeader /\ UNCHANGED <<devices, treeVars, walker, execute, path, fileVars, tableVars>>
  \/ MountDisk \/ MountDevices
  \/ \E root \in Roots : StartWalk(root)
  \/ GoToParent \/ \E n \in Names : GoToChild(n)
  \/ WalkFails \/ OpenRefused \/ HandleFails \/ OpenFile \/ OpenBinary
  \/ \E count \in 0 .. MaxCount : Read(count) \/ ReadDevices(count)
  \/ \E offset \in -1 .. 1, from \in {0, pos, FileSize} : Lseek(offset, from)
  \/ CloseBinary

Spec == Init /\ [][Next]_vars

-----------------------------------------------------------------------------
(* The walker and the file are entries that exist, and a position is never *)
(* behind the end: what is left of a file is computed without a sign.      *)
TypeOK ==
  /\ DiskTypeOK
  /\ sb \in [Entries -> Roots] /\ par \in [Entries -> Entries]
  /\ walker \in Live \cup {0} /\ file \in Live \cup {0}
  /\ handles \in Seq(Entries \cup {NoHandle})
  /\ file # 0 => pos \in 0 .. (IF sb[file] = Disk THEN Size(node[file]) ELSE Len(devices))

Users(d) ==
  Cardinality({w \in {walker} : w = d}) + objects[d]
    + Cardinality({c \in Live \ Roots : par[c] = d}) + (IF d \in Roots THEN 1 ELSE 0)

(* An entry's count is never below the number of its users, so no entry is *)
(* freed while a walk is in it, a file is open on it or a child hangs on   *)
(* it, and the roots stay.                                                 *)
CountsCoverUsers ==
  Ready => \A d \in Entries : used[d] >= Users(d) /\ (Users(d) > 0 => d \in Live)

(* The file that is opened is the one the path names, however the path     *)
(* goes up and down the tree, fails elsewhere or was opened before: the    *)
(* walker's entry has the node found by its names from its root.           *)
OpensWhatThePathNames ==
  \A d \in {walker, file} \ {0} :
    node[d] = IF sb[d] = Disk THEN Resolve(path) ELSE DevResolve(path)

(* Calls of any size deliver a directory's entries in the archive's order, *)
(* each once, and a file's bytes in theirs, and stop at the end; the       *)
(* devices are listed in the order they were registered.                   *)
DeliveredInOrder ==
  file # 0 =>
    LET h    == GetNode(node[file]).header
        kids == {k \in DOMAIN archive : Child(archive[h], archive[k])}
        kid(i) == CHOOSE k \in kids : Cardinality({c \in kids : c < k}) = i - 1
        name(i) == IF sb[file] = Disk THEN Last(archive[kid(i)].path) ELSE devices[i]
    IN  /\ Len(delivered) = pos
        /\ \A i \in DOMAIN delivered :
             IF IsDir(file) THEN delivered[i] # Junk /\ delivered[i].name = name(i)
             ELSE delivered[i] = i

(* "Opens file.", "Reads from file.": a descriptor that YY_OpenFile has    *)
(* returned stands for a file until it is closed.                          *)
DescriptorsAreOpen ==
  \A fd \in given : fd + 1 \in DOMAIN handles /\ handles[fd + 1] # NoHandle
=============================================================================
