-------------------------------- MODULE Vfs --------------------------------
(***************************************************************************)
(* Paths and the working directory, sys/fs/vfs/vfs.c, over the directories *)
(* of Ext2.  PATH_SIZE is the size of every path buffer in both files.     *)
(***************************************************************************)
EXTENDS Ext2, Format

ASSUME VfsAssumption == PATH_SIZE > 1

VARIABLE cwd_path

EndsInSlash(s) == Len(s) > 0 /\ Last(s) = SLASH

(* Without the slash at its end, unless that is all there is.              *)
Trim(s) == IF Len(s) > 1 /\ EndsInSlash(s) THEN Front(s) ELSE s

(* A bug to compare with: ".." only removes the slash that Push may have   *)
(* left.                                                                   *)
PopSlashOnly(tmp) == Trim(tmp)

(* The case "..": back to the slash before the last component.             *)
Pop(tmp) ==
  LET t == Trim(tmp)
  IN  SubSeq(t, 1, Max({i \in DOMAIN t : t[i] = SLASH}))

(* A component is added unless the buffer would overflow.                  *)
Push(tmp, comp) ==
  LET t == IF Len(tmp) > 1 /\ ~EndsInSlash(tmp) THEN Append(tmp, SLASH) ELSE tmp
  IN  IF Len(t) + Len(comp) >= PATH_SIZE THEN [tmp |-> t, full |-> TRUE]
      ELSE [tmp |-> t \o comp, full |-> FALSE]

(* One round of the loop over the tokens.                                  *)
Take(st, comp) ==
  IF st.full \/ comp = <<DOT>> THEN st
  ELSE IF comp = <<DOT, DOT>> THEN [st EXCEPT !.tmp = Pop(@)]
  ELSE Push(st.tmp, comp)

vfs_normalize_path(path) ==
  IF path = << >> THEN <<SLASH>>
  ELSE IF Head(path) # SLASH THEN path
  ELSE Trim(FoldLeft(Take, [tmp |-> <<SLASH>>, full |-> FALSE], Tokens(path)).tmp)

(* temp in vfs_resolve.  A "%s" takes no more than kvsnprintf has room for *)
(* in its own temp.                                                        *)
PercentS == <<PERCENT, letter.s>>

Joined(path) ==
  CASE path = << >> -> cwd_path
    [] path # << >> /\ Head(path) = SLASH -> path
    [] OTHER ->
         IF cwd_path = <<SLASH>>
         THEN ksnprintf(PATH_SIZE, <<SLASH>> \o PercentS, <<path>>)
         ELSE ksnprintf(PATH_SIZE, PercentS \o <<SLASH>> \o PercentS, <<cwd_path, path>>)

vfs_resolve(path) == vfs_normalize_path(Joined(path))

(* vfs_chdir: what it returns, and the working directory it leaves.        *)
chdir_rc(path, fault) ==
  LET dir == ext2_open(vfs_resolve(path), fault)
  IN  IF dir.rc # EXT2_OK THEN dir.rc
      ELSE IF ~IsDir(dir.copy) THEN -1
      ELSE 0

(* A bug to compare with: a file will do for a directory.                  *)
vfs_chdir_anywhere(path, fault) ==
  cwd_path' = IF ext2_open(vfs_resolve(path), fault).rc = EXT2_OK
              THEN vfs_resolve(path) ELSE cwd_path

vfs_chdir(path, fault) ==
  cwd_path' = IF chdir_rc(path, fault) = 0 THEN vfs_resolve(path) ELSE cwd_path
=============================================================================
