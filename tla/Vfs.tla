-------------------------------- MODULE Vfs ---------------------------------
(***************************************************************************)
(* The file system of the kernel: kernel/fs/vfs.cc, inode.cc, ram_fs.cc,   *)
(* kernel/dev/dev_fs.cc and the system calls on paths and files.           *)
(*                                                                         *)
(* A directory has a lock of its own and a process has one, but nothing is *)
(* held from the lookup in Vfs::create to the insertion: processes         *)
(* interleave there, and between the creation of an anonymous file and its *)
(* binding.  An inode is a number, 1 is the root, 0 is nullptr.  A path is *)
(* the sequence of its parts; resolve_path skips the separators.           *)
(***************************************************************************)
EXTENDS Integers, Sequences, FiniteSets

CONSTANTS FsProcs,   \* processes
          FsPaths,   \* bound: paths that are opened and created
          MountPaths,\* bound: paths that are mounted on
          MaxInodes, \* bound: inodes
          MaxBytes,  \* bound: bytes of a file
          Bytes      \* bound: values that are written, without 0

VARIABLES vInodes,  \* all inodes
          vMounts,  \* s_data->mounts: host and root, in order
          vProcs,   \* of each process: the call it is in, m_cwd and a file handle
          vWritten, \* what was written to each file since it was truncated
          vStop     \* the kernel has stopped at ENSURE_NOT_REACHED

vfsVars == <<vInodes, vMounts, vProcs, vWritten, vStop>>

Zeros == [i \in 0 .. MaxBytes - 1 |-> 0]

Inode(type, fs, parent, name) ==
    [type |-> type, fs |-> fs, parent |-> parent, name |-> name, children |-> <<>>,
     memory |-> Zeros, size |-> 0, bound |-> FALSE]

Idle == [call |-> "none"]
NoFile == [inode |-> 0, offset |-> 0]

(* After kernel_init: the root, /dev with the device file system on it, a  *)
(* device in it; the root is its own parent.                               *)
VfsInit ==
    /\ vInodes = <<[Inode("dir", "ram", 1, "/") EXCEPT !.children = <<2>>],
                   Inode("dir", "ram", 1, "dev"),
                   [Inode("dir", "dev", 1, "dev") EXCEPT !.children = <<4>>],
                   [Inode("anon", "dev", 3, "dmesg") EXCEPT !.bound = TRUE]>>
    /\ vMounts = <<[host |-> 2, root |-> 3]>>
    /\ vProcs = [p \in FsProcs |-> [do |-> Idle, cwd |-> 1, file |-> NoFile]]
    /\ vWritten = [i \in 1 .. MaxInodes |-> Zeros]
    /\ vStop = FALSE
-----------------------------------------------------------------------------
(* Fault: the child that was added last is found first. *)
FindLast(children, name) ==
    LET found == {i \in DOMAIN children : vInodes[children[i]].name = name}
    IN  IF found = {} THEN 0 ELSE children[CHOOSE i \in found : \A k \in found : i >= k]

(* The loop over m_children, the same in both file systems *)
Find(children, name) ==
    LET found == {i \in DOMAIN children : vInodes[children[i]].name = name}
    IN  IF found = {} THEN 0 ELSE children[CHOOSE i \in found : \A k \in found : i <= k]

(* RamFsDirectoryInode::lookup, DevFsDirectoryInode::lookup *)
Lookup(d, name) ==
    CASE name = "." -> d
      [] name = ".." -> vInodes[d].parent
      [] OTHER -> Find(vInodes[d].children, name)

(* find_mount, once: the root of the first mount whose host this is *)
Mounted(inode) ==
    LET ms == {i \in DOMAIN vMounts : vMounts[i].host = inode}
    IN  IF ms = {} THEN inode ELSE vMounts[CHOOSE i \in ms : \A k \in ms : i <= k].root

(* resolve_path: the inode or 0, its parent and its name.  A lookup in an  *)
(* inode that is no directory does not return.                             *)
Resolve(path, base) ==
    LET r[i \in 0 .. Len(path.parts)] ==
            IF i = 0 THEN [inode |-> IF path.abs THEN 1 ELSE base, parent |-> 0, name |-> "",
                           end |-> FALSE, panic |-> FALSE]
            ELSE LET b == r[i - 1]
                     part == path.parts[i]
                     next == Lookup(b.inode, part)
                 IN  IF b.end THEN b
                     ELSE IF b.inode = 0 THEN [b EXCEPT !.parent = 0, !.end = TRUE]
                     ELSE IF vInodes[b.inode].type # "dir" THEN [b EXCEPT !.end = TRUE, !.panic = TRUE]
                     ELSE [b EXCEPT !.parent = b.inode, !.name = part,
                                    !.inode = IF next = 0 THEN 0 ELSE Mounted(next)]
    IN  r[Len(path.parts)]

(* ENSURE_NOT_REACHED in Inode::lookup stops the kernel. *)
Panics(path, base) == Resolve(path, base).panic

Panic == vStop' = TRUE /\ UNCHANGED <<vInodes, vMounts, vProcs, vWritten>>

Doing(p, call) == ~vStop /\ vProcs[p].do.call = call

Return(p) == [vProcs EXCEPT ![p].do = Idle]

(* Inode::open: an inode file, the bound file, or an error *)
Opened(p, inodes, i) ==
    IF inodes[i].type = "file" \/ (inodes[i].type = "anon" /\ inodes[i].bound)
    THEN [Return(p) EXCEPT ![p].file = [inode |-> i, offset |-> 0]] ELSE Return(p)
-----------------------------------------------------------------------------
(* Fault: the vector's storage is not cleared when it grows again. *)
WriteNoZero(i, offset, byte) ==
    [vInodes EXCEPT ![i].memory = [@ EXCEPT ![offset] = byte],
                    ![i].size = IF offset + 1 > @ THEN offset + 1 ELSE @]

(* RamFsInode::write of one byte: ensure_size fills the gap with zeros *)
Write(i, offset, byte) ==
    [vInodes EXCEPT ![i].memory = [k \in 0 .. MaxBytes - 1 |->
                                     IF k = offset THEN byte
                                     ELSE IF k >= vInodes[i].size /\ k < offset THEN 0 ELSE @[k]],
                    ![i].size = IF offset + 1 > @ THEN offset + 1 ELSE @]

(* RamFsInode::truncate clears the vector's size and leaves its storage. *)
Truncate(i) == [vInodes EXCEPT ![i].size = 0]

(* RamFsInode::read of one byte: how many are read *)
BytesRead(i, offset) == IF offset < vInodes[i].size THEN 1 ELSE 0

(* sys_open of a path that exists, with or without UB_OPEN_MODE_TRUNCATE *)
Open(p, path, truncate) ==
    LET i == Resolve(path, vProcs[p].cwd).inode
        canTruncate == vInodes[i].fs = "ram" /\ vInodes[i].type # "dir"
        inodes == IF truncate /\ canTruncate THEN Truncate(i) ELSE vInodes
    IN  /\ Doing(p, "none") /\ ~Panics(path, vProcs[p].cwd) /\ i # 0
        /\ vInodes' = inodes
        /\ vWritten' = IF truncate /\ canTruncate THEN [vWritten EXCEPT ![i] = Zeros] ELSE vWritten
        /\ vProcs' = IF truncate /\ ~canTruncate THEN vProcs ELSE Opened(p, inodes, i)
        /\ UNCHANGED <<vMounts, vStop>>

(* sys_open with UB_OPEN_MODE_CREATE of a path that is not there goes on to*)
(* Vfs::create, which resolves it again.                                   *)
OpenAbsent(p, path) ==
    /\ Doing(p, "none") /\ ~Panics(path, vProcs[p].cwd)
    /\ Resolve(path, vProcs[p].cwd).inode = 0
    /\ vProcs' = [vProcs EXCEPT ![p].do = [call |-> "open", path |-> path]]
    /\ UNCHANGED <<vInodes, vMounts, vWritten, vStop>>

(* Vfs::create up to the insertion: AlreadyExists, NonExistent, Invalid or go on *)
CreateResolve(p, path, type) ==
    LET r == Resolve(path, vProcs[p].cwd)
    IN  /\ ~r.panic
        /\ vProcs' = IF r.inode # 0 \/ r.parent = 0 \/ r.name = "" THEN Return(p)
                     ELSE [vProcs EXCEPT ![p].do = [call |-> "insert", parent |-> r.parent,
                                                    name |-> r.name, type |-> type]]
        /\ UNCHANGED <<vInodes, vMounts, vWritten, vStop>>

(* sys_open, sys_mkdir and sys_bind create a file, a directory and an anonymous file. *)
OpenCreates(p) == Doing(p, "open") /\ CreateResolve(p, vProcs[p].do.path, "file")
Mkdir(p, path) == Doing(p, "none") /\ CreateResolve(p, path, "dir")
BeginBind(p, path) == Doing(p, "none") /\ CreateResolve(p, path, "anon")

(* DevFsDirectoryInode::create takes no regular files. *)
Creates(fs, type) == fs = "dev" => type # "file"

(* The directory's create, under its lock.  The file is opened, and an     *)
(* anonymous one bound next.                                               *)
CreateInsert(p) ==
    LET do   == vProcs[p].do
        new  == Len(vInodes) + 1
        dir  == vInodes[do.parent]
        more == Append([vInodes EXCEPT ![do.parent].children = Append(@, new)],
                       Inode(do.type, dir.fs, do.parent, do.name))
    IN  /\ Doing(p, "insert") /\ new <= MaxInodes
        /\ IF ~Creates(dir.fs, do.type)
           THEN vProcs' = Return(p) /\ UNCHANGED vInodes
           ELSE /\ vInodes' = more
                /\ vProcs' = CASE do.type = "file" -> Opened(p, more, new)
                               [] do.type = "dir" -> Return(p)
                               [] do.type = "anon" -> [vProcs EXCEPT ![p].do = [call |-> "bind", inode |-> new]]
        /\ UNCHANGED <<vMounts, vWritten, vStop>>

(* sys_bind: bind_anonymous_file, whose inode must not be bound *)
Bind(p) ==
    LET i == vProcs[p].do.inode
    IN  /\ Doing(p, "bind")
        /\ vInodes' = [vInodes EXCEPT ![i].bound = TRUE]
        /\ vStop' = vInodes[i].bound
        /\ vProcs' = Return(p)
        /\ UNCHANGED <<vMounts, vWritten>>

(* sys_chdir, by open_directory: NonExistent and NotDirectory leave m_cwd. *)
Chdir(p, path) ==
    LET i == Resolve(path, vProcs[p].cwd).inode
    IN  /\ Doing(p, "none") /\ ~Panics(path, vProcs[p].cwd) /\ i # 0
        /\ vInodes[i].type = "dir"
        /\ vProcs' = [vProcs EXCEPT ![p].cwd = i]
        /\ UNCHANGED <<vInodes, vMounts, vWritten, vStop>>

(* sys_mount of a RamFs: its root has the host's parent and name *)
Mount(p, path) ==
    LET r == Resolve(path, 0)
    IN  /\ Doing(p, "none") /\ ~r.panic /\ r.inode # 0 /\ Len(vInodes) < MaxInodes
        /\ vInodes' = Append(vInodes, Inode("dir", "ram", r.parent, vInodes[r.inode].name))
        /\ vMounts' = Append(vMounts, [host |-> r.inode, root |-> Len(vInodes) + 1])
        /\ UNCHANGED <<vProcs, vWritten, vStop>>

(* A path through a file: Inode::lookup does not return. *)
LookupInFile(p, path) ==
    /\ Doing(p, "none") \/ (Doing(p, "open") /\ vProcs[p].do.path = path)
    /\ Panics(path, vProcs[p].cwd)
    /\ Panic

(* FileHandle::read and FileHandle::write move m_offset by what was done. *)
Moved(p, size) == [vProcs EXCEPT ![p].file.offset = @ + size]

(* sys_write, sys_read and sys_seek on an inode file *)
WriteFile(p, byte) ==
    LET f == vProcs[p].file
    IN  /\ Doing(p, "none") /\ f.inode # 0 /\ vInodes[f.inode].type = "file" /\ f.offset < MaxBytes
        /\ vInodes' = Write(f.inode, f.offset, byte)
        /\ vWritten' = [vWritten EXCEPT ![f.inode][f.offset] = byte]
        /\ vProcs' = Moved(p, 1)
        /\ UNCHANGED <<vMounts, vStop>>

ReadFile(p) ==
    LET f == vProcs[p].file
    IN  /\ Doing(p, "none") /\ f.inode # 0 /\ vInodes[f.inode].type = "file"
        /\ vProcs' = Moved(p, BytesRead(f.inode, f.offset))
        /\ UNCHANGED <<vInodes, vMounts, vWritten, vStop>>

Seek(p, offset) ==
    /\ Doing(p, "none") /\ vProcs[p].file.inode # 0
    /\ vProcs' = [vProcs EXCEPT ![p].file.offset = offset]
    /\ UNCHANGED <<vInodes, vMounts, vWritten, vStop>>

Close(p) ==
    /\ Doing(p, "none") /\ vProcs[p].file.inode # 0
    /\ vProcs' = [vProcs EXCEPT ![p].file = NoFile]
    /\ UNCHANGED <<vInodes, vMounts, vWritten, vStop>>

VfsNext ==
    \E p \in FsProcs :
        \/ \E path \in FsPaths : \/ \E t \in BOOLEAN : Open(p, path, t)
                                 \/ OpenAbsent(p, path) \/ Mkdir(p, path) \/ BeginBind(p, path)
                                 \/ Chdir(p, path) \/ LookupInFile(p, path)
        \/ \E path \in MountPaths : Mount(p, path)
        \/ \E byte \in Bytes : WriteFile(p, byte)
        \/ Seek(p, MaxBytes - 1)
        \/ OpenCreates(p) \/ CreateInsert(p) \/ Bind(p) \/ ReadFile(p) \/ Close(p)

VfsSpec == VfsInit /\ [][VfsNext]_vfsVars
-----------------------------------------------------------------------------
(* Two processes can create the same name, because Vfs::create looks it up *)
(* and inserts it without a lock.  Even so a name that has led to an inode *)
(* always leads to that inode: the file that came second is never found,   *)
(* and it never hides the first.                                           *)
NameStaysBound ==
    [][\A d \in DOMAIN vInodes : vInodes[d].type = "dir" =>
          \A k \in DOMAIN vInodes[d].children :
              LET name == vInodes[vInodes[d].children[k]].name
              IN  Lookup(d, name)' = Lookup(d, name)]_vfsVars

(* A file reads as what was written to it since it was truncated, and as   *)
(* zeros where nothing was written, although truncate leaves the storage   *)
(* and files are written at any offset through several handles.            *)
FilesReadBack ==
    \A i \in DOMAIN vInodes : \A k \in 0 .. MaxBytes - 1 :
        IF k < vInodes[i].size THEN vInodes[i].memory[k] = vWritten[i][k] ELSE vWritten[i][k] = 0
=============================================================================
