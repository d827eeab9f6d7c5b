------------------------------ MODULE MCFiles ------------------------------
(***************************************************************************)
(* The parts of the file system in one run: the inode table; the blocks of *)
(* files; the directories, once with more entries and once with symbolic   *)
(* links; the open files, once with the calls that use descriptors and     *)
(* once with those that read and write.  They share no state here: each    *)
(* behaviour is one of a single part, and in it the variables of the       *)
(* others stay as they are initially.                                      *)
(***************************************************************************)
EXTENDS InodeTable, FileBlocks, OpenFiles, Directories, TLC

CONSTANTS name1, name2

VARIABLE part

NamePaths == {<<name1>>, <<name2>>, <<name2, name1>>}
S == INSTANCE Directories WITH Operations <- Operations \union {"symlink"}, NrSlots <- 1
W == INSTANCE OpenFiles WITH Calls <- {"open", "fork", "lseek", "read", "write"}, Appends <- BOOLEAN

ASSUME FileBlocksAssumption
ASSUME DirectoriesAssumption /\ S!DirectoriesAssumption
ASSUME OpenFilesAssumption /\ W!OpenFilesAssumption

FilesInit ==
  /\ Init /\ BlocksInit /\ OpenInit
  /\ \/ part \in {"table", "blocks", "open", "write", "names"} /\ NamesInit
     \/ part = "symlinks" /\ S!NamesInit

Only(p) == part = p /\ part' = p

FilesNext ==
  \/ Only("table") /\ Next /\ UNCHANGED <<blockVars, nameVars, openVars>>
  \/ Only("blocks") /\ BlocksNext /\ UNCHANGED <<vars, nameVars, openVars>>
  \/ Only("names") /\ NamesNext /\ UNCHANGED <<vars, blockVars, openVars>>
  \/ Only("symlinks") /\ S!NamesNext /\ UNCHANGED <<vars, blockVars, openVars>>
  \/ Only("open") /\ OpenNext /\ UNCHANGED <<vars, blockVars, nameVars>>
  \/ Only("write") /\ W!OpenNext /\ UNCHANGED <<vars, blockVars, nameVars>>

FilesSpec == FilesInit /\ [][FilesNext]_<<part, vars, blockVars, nameVars, openVars>>

(* The tasks are alike in all parts but the last two, which have their own. *)
Symmetry == Permutations(Tasks) \union Permutations(DirInodes \ {RootDir})
=============================================================================
