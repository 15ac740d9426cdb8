------------------------------- MODULE Files -------------------------------
(***************************************************************************)
(* The file commands of sys/shell/shell.c over Vfs and Ext2: cd, ls, fsize *)
(* and the part of cat before its reads, which are in Ext2File.  The       *)
(* kernel mounts once at boot and goes on whether or not that worked.      *)
(***************************************************************************)
EXTENDS Vfs

CONSTANTS
  Args,     \* the arguments explored: sequences of characters
  MaxPath   \* bound: length of the paths compared with their normal form

ASSUME ArgsAssumption == Args \subseteq Seq(Nat) /\ MaxPath \in Nat

(* The inode a directory has under a name, 0 if none.                      *)
Lookup(n, name) == Find([k \in 1..INODE |-> <<n, k - 1>>], name, NoFault)

(* What mkfs makes of a disk, which the kernel only reads: a directory has *)
(* itself under ".", and the directory it is in under "..".                *)
ASSUME TreeAssumption ==
  /\ Lookup(EXT2_ROOT_INODE, <<DOT, DOT>>) = EXT2_ROOT_INODE
  /\ \A n \in DOMAIN Inodes : Inodes[n].dir =>
       /\ Lookup(n, <<DOT>>) = n
       /\ \A k \in DOMAIN Inodes[n].block : Inodes[n].block[k] # "" =>
            \A i \in DOMAIN DirBlocks[Inodes[n].block[k]] :
              LET ent == DirBlocks[Inodes[n].block[k]][i]
              IN  /\ ent.inode # 0 /\ Inodes[ent.inode].dir
                  /\ ent.name \notin {<<DOT>>, <<DOT, DOT>>}
                  => Lookup(ent.inode, <<DOT, DOT>>) = n

VARIABLES
  alive,   \* FALSE from a divide error on, until the machine reboots
  last     \* the last command: what it was, how it ended, what it printed

filevars == <<mountvars, cwd_path, alive, last>>

Nothing == [cmd |-> "none", rc |-> 0]

(* start_kernel: ext2.mount(0), whose error is only logged.  A mount that  *)
(* waits for ever, or divides by zero, does not let the shell start.       *)
Boot ==
  /\ \E drive \in Drives, image \in Images, room \in BOOLEAN :
       LET outcome == ext2_mount(drive, image, room)
       IN  /\ outcome.end = "returns"
           /\ g_superblock = outcome.superblock /\ g_group_desc = outcome.group_desc
  /\ cwd_path = <<SLASH>>
  /\ alive = TRUE
  /\ last = Nothing

(* The path a command hands to ext2: ls, cat and fsize resolve only        *)
(* relative paths, ls takes the working directory for none, and cd the     *)
(* root.                                                                   *)
Named(arg) ==
  IF arg = << >> THEN cwd_path
  ELSE IF Head(arg) = SLASH THEN arg
  ELSE vfs_resolve(arg)

CdArg(arg) == IF arg = << >> THEN <<SLASH>> ELSE arg

Target(cmd, arg) == IF cmd = "cd" THEN vfs_resolve(CdArg(arg)) ELSE Named(arg)

(* cat and fsize ask for an argument; cd and ls do without.  A cd whose    *)
(* absolute path is longer than temp in vfs_resolve overruns it: what the  *)
(* kernel does then is not modelled.                                       *)
Commands(arg) ==
  {cmd \in {"cd", "ls", "cat", "fsize"} :
     /\ cmd \in {"cat", "fsize"} => arg # << >>
     /\ cmd = "cd" => \/ Len(arg) < PATH_SIZE
                      \/ Head(arg) # SLASH}

-----------------------------------------------------------------------------

cmd_cd(arg, fault) ==
  /\ vfs_chdir(CdArg(arg), fault)
  /\ last' = [cmd |-> "cd", rc |-> chdir_rc(CdArg(arg), fault)]

cmd_ls(arg, fault) ==
  /\ last' = [cmd |-> "ls", rc |-> ext2_list(Named(arg), fault).rc]
  /\ UNCHANGED cwd_path

(* cmd_cat up to its first read, and cmd_fsize.                            *)
cmd_open(cmd, arg, fault) ==
  /\ last' = [cmd |-> cmd, rc |-> ext2_open(Named(arg), fault).rc]
  /\ UNCHANGED cwd_path

Run(cmd, arg, fault) ==
  \/ cmd = "cd" /\ cmd_cd(arg, fault)
  \/ cmd = "ls" /\ cmd_ls(arg, fault)
  \/ cmd \in {"cat", "fsize"} /\ cmd_open(cmd, arg, fault)

(* A command that runs to its end.  With a zero superblock none does that  *)
(* comes to read an inode.                                                 *)
Command ==
  /\ alive
  /\ g_group_desc # "unread"
  /\ \E arg \in Args, fault \in Faults : \E cmd \in Commands(arg) :
       /\ g_superblock = "zero" => ~ReachesInode(Target(cmd, arg))
       /\ Run(cmd, arg, fault)
  /\ UNCHANGED <<mountvars, alive>>

(* With descriptors that were never read, an inode is whatever lies where  *)
(* they point: every result is possible, and any path may pass for a       *)
(* directory.                                                              *)
Codes == {EXT2_OK, EXT2_ERR_IO, EXT2_ERR_PATH_NOT_FOUND, EXT2_ERR_INVALID}

CommandAstray ==
  /\ alive
  /\ g_group_desc = "unread"
  /\ \E arg \in Args, rc \in Codes : \E cmd \in Commands(arg) :
       /\ ReachesInode(Target(cmd, arg)) \/ rc = EXT2_ERR_INVALID
       /\ last' = [cmd |-> cmd, rc |-> rc]
       /\ cwd_path' = IF cmd = "cd" /\ rc = EXT2_OK THEN Target(cmd, arg)
                      ELSE cwd_path
  /\ UNCHANGED <<mountvars, alive>>

(* The division by inodes_per_group raises an exception: isr_handler calls *)
(* panic.main, which does not return.                                      *)
DivideError ==
  /\ alive
  /\ DivisorMayBeZero
  /\ \E arg \in Args : \E cmd \in Commands(arg) : ReachesInode(Target(cmd, arg))
  /\ alive' = FALSE
  /\ UNCHANGED <<mountvars, cwd_path, last>>

(* acpi.reboot at the end of the panic: the kernel starts again.           *)
Reboot ==
  /\ ~alive
  /\ alive' = TRUE
  /\ cwd_path' = <<SLASH>>
  /\ last' = Nothing
  /\ UNCHANGED mountvars

FileStep == Command \/ CommandAstray \/ DivideError \/ Reboot

FileSpec == Boot /\ [][FileStep]_filevars

-----------------------------------------------------------------------------
(* Properties.  Names a path has: the reference the code is compared with  *)
(* takes a path apart into components and goes through them one by one.    *)

Chars == {SLASH, DOT, letter.a}

Paths == UNION {[1..n -> Chars] : n \in 0..MaxPath}

IsMounted == g_superblock = "read" /\ g_group_desc = "read"

Opens(path) == ext2_open(path, NoFault).rc = EXT2_OK

InodeOf(path) == ext2_open(path, NoFault).copy[1][1]

IsDirPath(path) == Opens(path) /\ IsDir(ext2_open(path, NoFault).copy)

(* The working directory is a directory of the disk by a path in normal    *)
(* form, whatever was typed and whatever failed: a cd that goes wrong      *)
(* leaves the old one (vfs.c, 112-126).  It fits its buffer.               *)
CwdIsDirectory ==
  /\ Len(cwd_path) < PATH_SIZE
  /\ vfs_normalize_path(cwd_path) = cwd_path
  /\ IsMounted => IsDirPath(cwd_path)

(* kread_inode copies the inode it was asked for, from whichever group,    *)
(* and whether or not it spans two blocks (ext2.c, 221-270).               *)
ReadsTheInode ==
  IsMounted => \A n \in DOMAIN Inodes :
             kread_inode(n, NoFault).copy = [k \in 1..INODE |-> <<n, k - 1>>]

(* A path that opens a file opens the same one in its normal form, which   *)
(* cd, and any command with a relative path, use in its place: the ".."    *)
(* taken out of the text agree with the ".." on the disk.                  *)
NormalKeepsTarget ==
  IsMounted => \A path \in Paths :
             LET normal == vfs_normalize_path(<<SLASH>> \o path)
             IN  Opens(<<SLASH>> \o path) =>
                   Opens(normal) /\ InodeOf(normal) = InodeOf(<<SLASH>> \o path)

(* The string functions under the path and directory code do what their    *)
(* names say, on memory where they may overlap and on tokens cut in place: *)
(* it is about no state, and is evaluated in the first ones.               *)
StringsAgree == Boot => StringCallsAgree

(* The entries of the directory end properly.                              *)
Sound(copy) ==
  \A i \in DOMAIN DirectBlocks(copy) : \A j \in DOMAIN DirBlocks[DirectBlocks(copy)[i]] :
    LET ent == DirBlocks[DirectBlocks(copy)[i]][j]
    IN  ent.shape # "too_long" /\ (ent.inode # 0 => ent.name # << >>)

(* What ls shows of a directory can be opened, though listing and lookup   *)
(* scan its blocks with code of their own, unless the path would be longer *)
(* than a path may be; a directory whose entries end properly hides        *)
(* nothing from ls that can be opened (ext2_open, kprocess_dir_block).      *)
ListingAgrees ==
  IsMounted => \A path \in Args :
    LET dir == Append(Named(path), SLASH)
        names == ext2_list(Named(path), NoFault).names
    IN  IsDirPath(Named(path)) =>
          /\ \A i \in DOMAIN names :
               Len(dir \o names[i]) < PATH_SIZE => Opens(dir \o names[i])
          /\ Sound(ext2_open(Named(path), NoFault).copy) =>
               \A name \in {<<letter.a>>, <<DOT>>, <<letter.a, letter.a>>, <<DOT, letter.a>>} :
                 Opens(dir \o name) => \E i \in DOMAIN names : names[i] = name

(* A failing read or an exhausted heap is reported as such: it never makes *)
(* a command say that a file is not there, nor open or list another one.   *)
FaultNotMisread ==
  IsMounted => \A path \in Args, fault \in Faults :
    /\ ext2_open(Named(path), fault)
         \in {Failed(EXT2_ERR_IO), ext2_open(Named(path), NoFault)}
    /\ LET listed == ext2_list(Named(path), fault)
           whole == ext2_list(Named(path), NoFault)
       IN  \/ listed = whole
           \/ listed.rc = EXT2_ERR_IO /\ IsPrefix(listed.names, whole.names)

(* "Change current working directory" (comment of cmd_cd): a cd goes where *)
(* the working directory and its argument together lead.                   *)
CdGoesThere ==
  IsMounted => \A path \in Args :
    path # << >> /\ Head(path) # SLASH /\ chdir_rc(path, NoFault) = 0 =>
      vfs_resolve(path) = vfs_normalize_path(cwd_path \o <<SLASH>> \o path)
=============================================================================
