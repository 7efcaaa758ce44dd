------------------------------- MODULE Files -------------------------------
(***************************************************************************)
(* What kernel/src/filesystems reads off a volume, how main.cpp finds the    *)
(* volumes, and the table of open files in vfs.cpp.                          *)
(*                                                                          *)
(* The first four parts are what the readers compute from bytes somebody     *)
(* else has written; the layouts are those of the formats, scaled down: an   *)
(* LFN entry holds LfnChars characters instead of 13, a character is a       *)
(* number, 0 the terminator.  The last part is a state machine: threads open,*)
(* read and close files, and nothing locks the table.                        *)
(***************************************************************************)
EXTENDS Integers, Sequences, SequencesExt

CONSTANTS
  LfnChars,     \* characters of an fat32_lfn_entry_t
  MaxName,      \* bound: characters of a name
  ClusterSlots, \* directory entries of a cluster
  SectorBytes,  \* block_size of an ISO volume, in units of a record's length
  Mounts,       \* names of mount_points
  Logical       \* logical_to_mount_map

ASSUME FilesAssumption ==
  /\ LfnChars \in Nat \ {0} /\ MaxName \in Nat \ {0} /\ ClusterSlots \in Nat \ {0}
  /\ SectorBytes \in Nat \ {0}

Smaller(a, b) == IF a < b THEN a ELSE b
UpTo(s, c) == LET at == SelectInSeq(s, LAMBDA x : x = c) IN IF at = 0 THEN s ELSE SubSeq(s, 1, at - 1)

-----------------------------------------------------------------------------
(* FAT32 directories: the loop of fat32_find_node and fat32_list_directory.  *)
(* An entry is given by its long name, <<>> if it has none, by its short one *)
(* and by the cluster it leads to: NoCluster for the label of the volume,    *)
(* which has an entry of its own among the files of the root.  The two that  *)
(* a directory below begins with are called "." and "..".                    *)

NoCluster == 0
Dots == {<<46>>, <<46, 46>>}

Parts(name) == (Len(name) + LfnChars - 1) \div LfnChars
Part(name, k) == SubSeq(name, (k - 1) * LfnChars + 1, Smaller(k * LfnChars, Len(name)))

(* How a file is written: its long name last part first, then its own entry; *)
(* of a deleted one every entry is marked.                                   *)
EntriesOf(file) ==
  LET n == Parts(file.name)
      lfn == [k \in 1 .. n |-> [kind |-> "lfn", order |-> n - k + 1, part |-> Part(file.name, n - k + 1)]]
      all == Append(lfn, [kind |-> "name", short |-> file.short, cluster |-> file.cluster])
  IN IF file.deleted THEN [k \in DOMAIN all |-> [kind |-> "deleted"]] ELSE all

Clusters(files) ==
  LET all == FlattenSeq([i \in DOMAIN files |-> EntriesOf(files[i])])
      n == (Len(all) + ClusterSlots - 1) \div ClusterSlots
  IN [c \in 1 .. n |-> SubSeq(all, (c - 1) * ClusterSlots + 1, Smaller(c * ClusterSlots, Len(all)))
                       \o IF Len(all) < c * ClusterSlots THEN <<[kind |-> "end"]>> ELSE <<>>]

(* strncpy copies neither a terminator nor anything behind the part.         *)
Copied(buf, at, part) ==
  [i \in DOMAIN buf |-> IF i > at /\ i <= at + Len(part) THEN part[i - at] ELSE buf[i]]
NoName == [i \in 1 .. MaxName + LfnChars |-> 0]

(* Mutant: the name outlives the entry it belongs to. *)
NotForgotten(buf) == buf

Forgotten(buf) == [buf EXCEPT ![1] = 0]
NameIn(buf, short) == IF buf[1] # 0 THEN UpTo(buf, 0) ELSE short

(* The attributes of an entry are compared with those of an LFN entry only.  *)
EntryRead(acc, entry) ==
  IF acc.over THEN acc
  ELSE CASE entry.kind = "end" -> [acc EXCEPT !.over = TRUE]
         [] entry.kind = "deleted" -> [acc EXCEPT !.buf = Forgotten(@)]
         [] entry.kind = "lfn" -> [acc EXCEPT !.buf = Copied(@, (entry.order - 1) * LfnChars, entry.part)]
         [] entry.kind = "name" ->
              LET name == NameIn(acc.buf, entry.short)
              IN [acc EXCEPT !.out = @ \o IF name \in Dots THEN <<>>
                                           ELSE <<[name |-> name, cluster |-> entry.cluster]>>,
                             !.buf = Forgotten(@)]

(* The buffer is a local of the loop over the clusters.                      *)
ClusterRead(acc, cluster) == FoldLeft(EntryRead, [acc EXCEPT !.buf = NoName], cluster)
ListDirectory(files) == FoldLeft(ClusterRead, [buf |-> NoName, out |-> <<>>, over |-> FALSE], Clusters(files)).out
FindNode(files, target) ==
  LET list == ListDirectory(files)
      at == SelectInSeq(list, LAMBDA n : n.name = target)
  IN IF at = 0 THEN NoCluster ELSE list[at].cluster

(* A long name that is shorter than one before it in the cluster keeps the   *)
(* other's tail; one that crosses into the next cluster loses what it has.   *)
EndOf(files, i) == Len(FlattenSeq([k \in 1 .. i |-> EntriesOf(files[k])]))
ClusterOf(slot) == (slot - 1) \div ClusterSlots
Split(files, i) == files[i].name # <<>> /\ ClusterOf(EndOf(files, i)) # ClusterOf(EndOf(files, i - 1) + 1)
OverlaidBy(files, j, i) ==
  /\ j < i /\ ~files[j].deleted
  /\ Len(files[j].name) > Len(files[i].name)
  /\ ClusterOf(EndOf(files, j)) = ClusterOf(EndOf(files, i))
Spoilt(files, i) == files[i].name # <<>> /\ (Split(files, i) \/ \E j \in 1 .. i - 1 : OverlaidBy(files, j, i))
ProperName(file) == IF file.name = <<>> THEN file.short ELSE file.name

(* The label of the volume is listed, and found, like a file of that name.   *)
Labelled(files, i) == files[1].cluster = NoCluster /\ ProperName(files[i]) = files[1].short

(* A directory is listed file by file, and a file found by its name.         *)
DirectoryReadsBack(files) ==
  LET there == SelectSeq([i \in DOMAIN files |-> i],
                         LAMBDA i : ~files[i].deleted /\ files[i].short \notin Dots)
      list == ListDirectory(files)
  IN /\ Len(list) = Len(there)
     /\ \A k \in DOMAIN there :
          /\ list[k].cluster = files[there[k]].cluster
          /\ ~Spoilt(files, there[k]) => list[k].name = ProperName(files[there[k]])
     /\ (\A k \in DOMAIN there : ~Spoilt(files, there[k]))
          => \A k \in DOMAIN there : ~Labelled(files, there[k])
               => FindNode(files, ProperName(files[there[k]])) = files[there[k]].cluster

-----------------------------------------------------------------------------
(* FAT32 files: the loop of fat32_read.  Clusters of two bytes; the chain is *)
(* 1, 2, ...; a byte is named by its place.                                  *)

ClusterBytes == 2
EndOfChain == 0
ChainOf(size) == [c \in 1 .. (size + ClusterBytes - 1) \div ClusterBytes |->
                    IF c * ClusterBytes >= size THEN EndOfChain ELSE c + 1]

(* get_next_cluster takes a FAT it cannot read for the end of the chain.     *)
NextCluster(file, c) == IF c \in file.fatErrors THEN EndOfChain ELSE ChainOf(file.size)[c]

RECURSIVE ReadFrom(_, _, _)
ReadFrom(file, c, got) ==
  IF c = EndOfChain \/ Len(got) >= file.size THEN [ok |-> TRUE, data |-> got]
  ELSE IF c \in file.errors THEN [ok |-> FALSE, data |-> <<>>]
  ELSE ReadFrom(file, NextCluster(file, c),
                got \o [i \in 1 .. Smaller(ClusterBytes, file.size - Len(got)) |-> (c - 1) * ClusterBytes + i])
Fat32Read(file) == ReadFrom(file, IF file.size = 0 THEN EndOfChain ELSE 1, <<>>)

(* What a read returns is the file from its start, to its end unless a       *)
(* sector of the FAT was lost; a lost sector of data is an error.            *)
FileReadsBack(file) ==
  LET read == Fat32Read(file)
  IN /\ read.ok => read.data = [i \in 1 .. Len(read.data) |-> i]
     /\ file.fatErrors = {} => read.ok = (file.errors \intersect DOMAIN ChainOf(file.size) = {}) /\ (read.ok => Len(read.data) = file.size)

-----------------------------------------------------------------------------
(* ISO 9660 directories: the loop of iso9660_find_node and                   *)
(* iso9660_list_directory.  Records do not cross a sector; what is left of   *)
(* one is filled with zeros.                                                *)

Semicolon == 59

RECURSIVE Placed(_, _, _)
Placed(records, at, out) ==   \* how the records are written: <<offset, record>>
  IF records = <<>> THEN out
  ELSE LET r == Head(records)
           free == SectorBytes - (at % SectorBytes)
           start == IF r.length <= free THEN at ELSE at + free
       IN Placed(Tail(records), start + r.length, Append(out, [at |-> start, record |-> r]))

DirectorySize(records) ==   \* a whole number of sectors
  LET placed == Placed(records, 0, <<>>)
      end == IF placed = <<>> THEN 0 ELSE Last(placed).at + Last(placed).record.length
  IN ((end + SectorBytes - 1) \div SectorBytes) * SectorBytes

(* get_name: the first NM entry of the system use area, else the identifier  *)
(* without its version.                                                     *)
GetName(r) == LET nm == SelectInSeq(r.use, LAMBDA e : e.signature = "NM")
              IN IF nm # 0 THEN r.use[nm].text ELSE UpTo(r.identifier, Semicolon)

NextSector(at) == (at \div SectorBytes + 1) * SectorBytes

RECURSIVE RecordsFrom(_, _, _)
RecordsFrom(records, at, out) ==
  LET here == SelectInSeq(Placed(records, 0, <<>>), LAMBDA p : p.at = at)
      r == Placed(records, 0, <<>>)[here].record
  IN IF at >= DirectorySize(records) THEN out
     ELSE IF here = 0 THEN RecordsFrom(records, NextSector(at), out)   \* a length of 0
     ELSE IF r.length + at > DirectorySize(records) THEN out
     ELSE RecordsFrom(records, at + r.length, Append(out, GetName(r)))

(* Every record is listed once, in order, and under its name, unless that is *)
(* continued in a second NM entry.                                          *)
WholeName(r) == LET nm == SelectSeq(r.use, LAMBDA e : e.signature = "NM")
                IN IF nm = <<>> THEN UpTo(r.identifier, Semicolon)
                   ELSE FlattenSeq([i \in DOMAIN nm |-> nm[i].text])
Continued(r) == Len(SelectSeq(r.use, LAMBDA e : e.signature = "NM")) > 1
RecordsReadBack(records) ==
  LET list == RecordsFrom(records, 0, <<>>)
  IN /\ Len(list) = Len(records)
     /\ \A i \in DOMAIN records : ~Continued(records[i]) => list[i] = WholeName(records[i])

-----------------------------------------------------------------------------
(* Paths: str_split, vfs_get_mount_point_from_path and                       *)
(* get_mount_point_relative_path, on characters.                            *)

Slash == 47
LogicalPrefix == <<47, 47, 46, 47>>
None == <<>>

RECURSIVE StrSplit(_)
StrSplit(path) ==
  LET at == SelectInSeq(path, LAMBDA c : c # Slash)
      rest == SubSeq(path, at, Len(path))
      part == UpTo(rest, Slash)
  IN IF at = 0 THEN <<>> ELSE <<part>> \o StrSplit(SubSeq(rest, Len(part) + 1, Len(rest)))

IsLogical(path) == IsPrefix(LogicalPrefix, path)
Plain(path) == IF IsLogical(path) THEN SubSeq(path, 5, Len(path)) ELSE path

MountPointFromPath(path) ==
  LET parts == StrSplit(Plain(path))
  IN IF parts = <<>> THEN None
     ELSE IF ~IsLogical(path) THEN IF parts[1] \in Mounts THEN parts[1] ELSE None
     ELSE IF parts[1] \in DOMAIN Logical THEN Logical[parts[1]] ELSE None

LogicalName(mount) == CHOOSE l \in DOMAIN Logical : Logical[l] = mount
NameLength(path, mount) == Len(IF IsLogical(path) THEN LogicalName(mount) ELSE mount)
RelativePath(path, mount) ==
  LET size == NameLength(path, mount) + IF IsPrefix(<<Slash>>, Plain(path)) THEN 1 ELSE 0
  IN IF size >= Len(Plain(path)) THEN <<>> ELSE SubSeq(Plain(path), size + 1, Len(Plain(path)))

(* A path leads to the mount its first part names, and from there along the  *)
(* other parts; only one slash may stand in front, else the name is cut off  *)
(* at the wrong place.                                                      *)
DoubleSlash(path) == IsPrefix(<<Slash, Slash>>, Plain(path))
PathResolves(path) ==
  LET mount == MountPointFromPath(path)
  IN mount # None /\ ~DoubleSlash(path)
       => StrSplit(RelativePath(path, mount)) = Tail(StrSplit(Plain(path)))

-----------------------------------------------------------------------------
(* Volumes: mount_disks, mbr_is_entry_valid, get_filesystem.  A disk has a   *)
(* sector size, may be an ISO image, may have a boot sector with a FAT       *)
(* parameter block, and four partition entries.                             *)

AnyEntry(e) == e.type # 0 /\ e.count # 0
ValidEntry(e) == e.attributes \in {0, 128} /\ e.type # 0 /\ e.count # 0 /\ e.start # 0
PartitionsOf(disk) == SelectSeq(disk.entries, ValidEntry)

(* An ISO image shows in sectors of its own size; any boot sector is taken   *)
(* for a partition table.                                                   *)
BlockDevices(disk) ==
  IF disk.iso /\ disk.sector = 2048 THEN <<0>>
  ELSE IF ~disk.signature THEN <<0>>
  ELSE [i \in DOMAIN PartitionsOf(disk) |-> PartitionsOf(disk)[i].start]

(* fat32_validate refuses a block larger than the boot sector it knows.      *)
FatAt(disk, start) == disk.sector = 512 /\ start \in disk.fats /\ (start = 0 => disk.signature)
GetFilesystem(disk, start) ==
  IF disk.iso /\ start = 0 /\ disk.sector = 2048 THEN "iso"
  ELSE IF FatAt(disk, start) THEN "fat" ELSE "none"
Mounted(disk) ==
  LET found == BlockDevices(disk)
  IN {<<found[i], GetFilesystem(disk, found[i])>> : i \in {j \in DOMAIN found : GetFilesystem(disk, found[j]) # "none"}}

(* Every FAT volume the partition table names is mounted where it starts,    *)
(* nothing else is; a FAT volume that fills a disk is not found, its boot    *)
(* sector passes for a table.                                               *)
Proper(e) == e.start # 0 /\ e.count # 0 /\ e.type # 0 /\ e.attributes \in {0, 128}
VolumesAreFound(disk) ==
  Mounted(disk) =
    IF disk.iso /\ disk.sector = 2048 THEN {<<0, "iso">>}
    ELSE IF disk.sector = 512 /\ disk.signature
      THEN {<<disk.entries[i].start, "fat">> : i \in {j \in DOMAIN disk.entries :
              Proper(disk.entries[j]) /\ disk.entries[j].start \in disk.fats}}
    ELSE {}

-----------------------------------------------------------------------------
(* The table of open files.  A thread opens a file, reads it and closes it   *)
(* through its descriptor; file_handles is an array that shifts and grows.   *)

CONSTANTS
  Openers,    \* threads
  Paths,      \* paths that exist; a file is named by its path
  MaxOpens    \* bound: descriptors handed out

VARIABLES
  handles,    \* file_handles: <<descriptor, path>>
  lastFd,     \* last_fd
  opener,     \* per thread: its call, and how far it is
  holds,      \* the descriptors a thread was given, with what it opened
  overlapped  \* whether two calls were ever inside the table at once

fileVars == <<handles, lastFd, opener, holds, overlapped>>

NoCall == [pc |-> "idle", path |-> "", fd |-> 0, at |-> 0, data |-> ""]
FilesInit ==
  /\ handles = <<>> /\ lastFd = 0
  /\ opener = [o \in Openers |-> NoCall]
  /\ holds = [o \in Openers |-> {}]
  /\ overlapped = FALSE

Inside(o) == opener[o].pc \in {"count", "insert", "copy"}
Entering(o) == overlapped' = (overlapped \/ \E p \in Openers \ {o} : Inside(p))
Goes(o, call) == opener' = [opener EXCEPT ![o] = call]
IndexOf(fd) == SelectInSeq(handles, LAMBDA h : h[1] = fd)
Resting(o) == opener[o].pc \in {"idle", "read", "refused"}

(* vfs_open_file: the file is looked for on the disk ...                     *)
Opens(o) ==
  /\ Resting(o)
  /\ \E path \in Paths : Goes(o, [NoCall EXCEPT !.pc = "open", !.path = path])
  /\ UNCHANGED <<handles, lastFd, holds, overlapped>>

(* ... last_fd++ is a load and a store ...                                   *)
LoadsLastFd(o) ==
  /\ opener[o].pc = "open" /\ lastFd < MaxOpens /\ Entering(o)
  /\ Goes(o, [opener[o] EXCEPT !.pc = "count", !.fd = lastFd])
  /\ UNCHANGED <<handles, lastFd, holds>>

(* Mutant: the number of open files is the next descriptor. *)
FewestFd(fd) == Len(handles)

NextFd(fd) == fd + 1
StoresLastFd(o) ==
  /\ opener[o].pc = "count" /\ Entering(o)
  /\ lastFd' = NextFd(opener[o].fd)
  /\ Goes(o, [opener[o] EXCEPT !.pc = "insert"])
  /\ UNCHANGED <<handles, holds>>

(* ... and the path is inserted, or replaces that of the same descriptor.    *)
Inserts(o) ==
  LET fd == opener[o].fd
      at == IndexOf(fd)
  IN /\ opener[o].pc = "insert" /\ Entering(o)
     /\ handles' = IF at = 0 THEN Append(handles, <<fd, opener[o].path>>)
                   ELSE [handles EXCEPT ![at] = <<fd, opener[o].path>>]
     /\ holds' = [holds EXCEPT ![o] = @ \union {<<fd, opener[o].path>>}]
     /\ Goes(o, NoCall)
     /\ UNCHANGED lastFd

(* vfs_close_file: the handles behind the one removed move up.               *)
WithoutHandle(at) == RemoveAt(handles, at)
Closes(o) ==
  /\ Resting(o) /\ Entering(o)
  /\ \E h \in holds[o] :
       /\ holds' = [holds EXCEPT ![o] = @ \ {h}]
       /\ IF IndexOf(h[1]) = 0
          THEN Goes(o, [NoCall EXCEPT !.pc = "refused"]) /\ UNCHANGED handles
          ELSE Goes(o, NoCall) /\ handles' = WithoutHandle(IndexOf(h[1]))
  /\ UNCHANGED lastFd

(* vfs_read_file: the handle is found, and its path is read where it lies;   *)
(* another call could have moved it by then.                                *)
Finds(o) ==
  /\ Resting(o) /\ Entering(o)
  /\ \E h \in holds[o] :
       Goes(o, IF IndexOf(h[1]) = 0 THEN [NoCall EXCEPT !.pc = "refused"]
               ELSE [NoCall EXCEPT !.pc = "copy", !.at = IndexOf(h[1]), !.path = h[2]])
  /\ UNCHANGED <<handles, lastFd, holds>>

ReadsFile(o) ==
  /\ opener[o].pc = "copy" /\ Entering(o)
  /\ Goes(o, [NoCall EXCEPT !.pc = "read", !.path = opener[o].path, !.data = handles[opener[o].at][2]])
  /\ UNCHANGED <<handles, lastFd, holds>>

(* A behaviour is followed to its first overlap: behind it nothing is claimed. *)
FilesNext == ~overlapped /\ \E o \in Openers :
  \/ Opens(o) \/ LoadsLastFd(o) \/ StoresLastFd(o) \/ Inserts(o)
  \/ Closes(o) \/ Finds(o) \/ ReadsFile(o)

FilesTypeOK ==
  /\ handles \in Seq((0 .. MaxOpens) \X Paths) /\ lastFd \in 0 .. MaxOpens
  /\ \A o \in Openers : opener[o].fd \in 0 .. MaxOpens /\ holds[o] \subseteq (0 .. MaxOpens) \X Paths
  /\ overlapped \in BOOLEAN

(* A descriptor reads the file it was opened with until it is closed,        *)
(* whatever else was opened and closed meanwhile, and no two are the same.   *)
(* That holds as long as no two calls are inside the table at once: nothing  *)
(* keeps them apart, and two that are can get the same descriptor, or read   *)
(* the path of another.                                                     *)
HandlesKeepTheirFile ==
  ~overlapped =>
    /\ \A o \in Openers : opener[o].pc = "read" => opener[o].data = opener[o].path
    /\ \A o \in Openers : opener[o].pc # "refused"
    /\ \A o, p \in Openers : \A g \in holds[o], h \in holds[p] : g[1] = h[1] => o = p /\ g = h

=============================================================================
