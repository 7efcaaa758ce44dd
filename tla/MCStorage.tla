----------------------------- MODULE MCStorage -----------------------------
(* The drivers, the table of open files, and what is read off a volume, side *)
(* by side: a behaviour is one of the three, the others stay as they begin.  *)
EXTENDS Disk, Files

CONSTANTS MaxFiles, MaxFile, MaxPath

VARIABLES scene, volume

MCDriveOrder == <<"d0", "d1">>
MCMounts == {<<100>>, <<100, 49>>}
MCLogical == <<98, 111>> :> <<100>>

UpToLength(S, n) == UNION {[1 .. k -> S] : k \in 0 .. n}
Nameless(short) == [name |-> <<>>, short |-> short, cluster |-> NoCluster, deleted |-> FALSE]
FirstEntries == {<<>>, <<Nameless(<<46>>), Nameless(<<46, 46>>)>>, <<Nameless(<<76>>)>>, <<Nameless(<<90, 1>>)>>}
FatFiles == {[i \in DOMAIN lengths |-> [name |-> [k \in 1 .. lengths[i] |-> 96 + i], short |-> <<90, i>>,
                                          cluster |-> i, deleted |-> i \in gone]] :
               lengths \in UpToLength(0 .. MaxName, MaxFiles), gone \in SUBSET {1, 3}}
Directories == {first \o files : first \in FirstEntries, files \in FatFiles}
FirstOfPath == {<<>>, LogicalPrefix}
IsoRecords ==
  [length : {1, 2}, identifier : {<<97>>, <<97, Semicolon, 49>>},
   use : {<<>>} \union {<<[signature |-> s, text |-> <<98>>], [signature |-> t, text |-> <<99>>]>> :
                        s, t \in {"NM", "RR"}}]
Entries4 == [attributes : {0, 1}, type : {0, 12}, count : {0, 8}, start : {0, 4}]

Volumes ==
  [kind : {"directory"}, what : Directories]
  \union [kind : {"file"}, what : [size : 0 .. MaxFile, errors : SUBSET (1 .. MaxFile \div 2),
                                   fatErrors : SUBSET (1 .. MaxFile \div 2)]]
  \union [kind : {"records"}, what : UpToLength(IsoRecords, 2)]
  \union [kind : {"path"}, what : {first \o rest : first \in FirstOfPath,
                                   rest \in UpToLength({Slash, 46, 49, 98, 100, 111}, MaxPath)}]
  \union [kind : {"disk"}, what : [sector : {512, 2048}, iso : BOOLEAN, signature : BOOLEAN,
                                   fats : SUBSET {0, 4}, entries : UpToLength(Entries4, 2)]]
NoVolume == [kind |-> "none", what |-> <<>>]

Init ==
  /\ scene \in {"disk", "table", "volume"}
  /\ IF scene = "volume" THEN volume \in Volumes ELSE volume = NoVolume
  /\ DiskInit /\ (scene # "disk" => controller = "ide")
  /\ FilesInit

Next ==
  /\ UNCHANGED <<scene, volume>>
  /\ \/ scene = "disk" /\ DiskNext /\ UNCHANGED fileVars
     \/ scene = "table" /\ FilesNext /\ UNCHANGED diskVars

vars == <<scene, volume, diskVars, fileVars>>
Spec == Init /\ [][Next]_vars /\ (scene = "disk" => DiskFairness)

(* Directories, files, paths and partition tables are read as they were      *)
(* written, whatever their order, their sizes and what was deleted between.  *)
VolumesReadBack ==
  /\ volume.kind = "directory" => DirectoryReadsBack(volume.what)
  /\ volume.kind = "file" => FileReadsBack(volume.what)
  /\ volume.kind = "records" => RecordsReadBack(volume.what)
  /\ volume.kind = "path" => PathResolves(volume.what)
  /\ volume.kind = "disk" => VolumesAreFound(volume.what)

=============================================================================
