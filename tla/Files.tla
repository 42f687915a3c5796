-------------------------------- MODULE Files --------------------------------
(***************************************************************************)
(* uga_fs.c over a small file system: files, the process's table of open   *)
(* descriptors, the library's error, and another process that appends to   *)
(* the files and truncates them.                                           *)
(*                                                                         *)
(* One step is one call, but for uga_fs_read_file, which asks for the size *)
(* and reads in two system calls.  Whole-file calls keep the descriptor    *)
(* they open.  Where they end in UGA_RETURN_ON_ERR, printing the error     *)
(* clears it (see Errors).                                                 *)
(***************************************************************************)
EXTENDS Integers, SequencesExt

CONSTANTS Paths, Data,
          MaxTable,   \* descriptors the process may have open
          MaxLen,     \* bound: length of a file
          WholeFile,  \* the whole-file functions the client calls
          Short,      \* whether read and write may transfer less than they could
          Others,     \* whether another process changes the files
          Hole,       \* what a file reads as where nothing was written
          NoFile      \* content of a path without file

ASSUME FilesConstants ==
  /\ MaxTable \in Nat /\ MaxLen \in Nat
  /\ WholeFile \subseteq {"read_file", "read_file_into", "write_file", "append_file"}
  /\ Short \in BOOLEAN /\ Others \in BOOLEAN
  /\ Hole \notin Data /\ NoFile \notin Data

VARIABLES files,   \* content by path
          table,   \* open descriptors: path, position and flags
          given,   \* the ones the client was given and has not closed
          errtype, \* uga_current_errtype()
          last,    \* the call that returned last, and its result
          pc,      \* "client", or where uga_fs_read_file is
          fd,      \* its descriptor
          size     \* its filesize

filesVars == <<files, table, given, errtype, last, pc, fd, size>>

Buffers == UNION {[1 .. n -> Data] : n \in 1 .. MaxLen}

\* What a call returned: wanted is what there was to move, failed the system
\* call in it that failed.
Outcome(op, path, wanted, got, data, failed) ==
  [op |-> op, path |-> path, wanted |-> wanted, got |-> got, data |-> data, failed |-> failed]

Nothing == Outcome("none", NoFile, 0, 0, <<>>, "none")

InitFiles ==
  /\ files = [p \in Paths |-> NoFile]
  /\ table = <<>> /\ given = {}
  /\ errtype = "NONE" /\ last = Nothing
  /\ pc = "client" /\ fd = 0 /\ size = 0

Idle == pc = "client" /\ UNCHANGED <<pc, fd, size>>

\* Any system call may fail: -1 and _uga_check_std_errno.
Fails(op, p, wanted, failed) ==
  errtype' = "STD" /\ last' = Outcome(op, p, wanted, -1, <<>>, failed)

-----------------------------------------------------------------------------
(* open(2), as the four uga_fs_open functions use it. *)
Flags(creat, read, write, append) ==
  [creat |-> creat, read |-> read, write |-> write, append |-> append]

OpenRead   == Flags(FALSE, TRUE, FALSE, FALSE)
OpenWrite  == Flags(TRUE, FALSE, TRUE, FALSE)

\* Mutant: append without O_APPEND.
OpenAppendAtStart == Flags(TRUE, FALSE, TRUE, FALSE)

OpenAppend == Flags(TRUE, FALSE, TRUE, TRUE)
OpenFull   == Flags(TRUE, TRUE, TRUE, FALSE)

FreeFd == (1 .. MaxTable) \ DOMAIN table

CanOpen(p, flags) == FreeFd # {} /\ (flags.creat \/ files[p] # NoFile)

NewFd == CHOOSE f \in FreeFd : \A g \in FreeFd : f <= g

Opened(p, flags, pos) ==
  [f \in DOMAIN table \union {NewFd} |->
     IF f = NewFd THEN [path |-> p, pos |-> pos, flags |-> flags] ELSE table[f]]

Created(p) == IF files[p] = NoFile THEN <<>> ELSE files[p]

-----------------------------------------------------------------------------
(* read(2) and write(2): how much may be transferred, and the file after.  *)
Transferred(most) == IF Short /\ most > 0 THEN 1 .. most ELSE {most}

Smaller(a, b) == IF a < b THEN a ELSE b

\* What can be read of the content from a position on.
Rest(content, pos) == SubSeq(content, pos + 1, Len(content))

Written(content, pos, data) ==
  [k \in 1 .. (IF pos + Len(data) > Len(content) THEN pos + Len(data) ELSE Len(content)) |->
     IF k \in pos + 1 .. pos + Len(data) THEN data[k - pos]
     ELSE IF k <= Len(content) THEN content[k] ELSE Hole]

Start(open, content) == IF open.flags.append THEN Len(content) ELSE open.pos

\* By how much the position moves: not at all if the call failed.
Advanced(got) == IF got > 0 THEN got ELSE 0

-----------------------------------------------------------------------------
(* uga_fs_open_file and its four callers. *)

OpenFile(p, flags) ==
  /\ Idle
  /\ \/ /\ CanOpen(p, flags)
        /\ table' = Opened(p, flags, 0) /\ given' = given \union {NewFd}
        /\ files' = [files EXCEPT ![p] = Created(p)]
        /\ errtype' = "NONE" /\ last' = Outcome("open", p, 0, NewFd, <<>>, "none")
     \/ Fails("open", p, 0, "open") /\ UNCHANGED <<files, table, given>>

\* uga_fs_close: nothing is cleared; the client closes what it was given, which
\* is gone even when close(2) fails.
Close(f) ==
  /\ Idle
  /\ f \in given
  /\ table' = [g \in DOMAIN table \ {f} |-> table[g]] /\ given' = given \ {f}
  /\ \/ last' = Nothing /\ UNCHANGED errtype
     \/ Fails("close", table[f].path, 0, "close")
  /\ UNCHANGED files

\* Mutant: only the end of the file is a partial read.
ReadErrAtEnd(wanted, got) == IF got < wanted /\ got = 0 THEN "PARTIAL_READ" ELSE "NONE"

ReadErr(wanted, got)  == IF got < wanted THEN "PARTIAL_READ" ELSE "NONE"
WriteErr(wanted, got) == IF got < wanted THEN "PARTIAL_WRITE" ELSE "NONE"

\* uga_fs_read_fd on a descriptor of p at pos, into a string of the capacity.
Read(op, p, pos, capacity, wanted) ==
  \/ \E n \in Transferred(Smaller(capacity, Len(Rest(files[p], pos)))) :
       /\ errtype' = ReadErr(capacity, n)
       /\ last' = Outcome(op, p, wanted, n, SubSeq(Rest(files[p], pos), 1, n), "none")
  \/ Fails(op, p, wanted, "read")

\* What there is to read.
There(p, pos, capacity) == Smaller(capacity, Len(Rest(files[p], pos)))

ReadFd(f, capacity) ==
  /\ Idle
  /\ f \in given
  /\ LET p == table[f].path
         wanted == There(p, table[f].pos, capacity) IN
     IF table[f].flags.read
     THEN Read("read_fd", p, table[f].pos, capacity, wanted)
     ELSE Fails("read_fd", p, wanted, "read")
  /\ table' = [table EXCEPT ![f].pos = @ + Advanced(last'.got)]
  /\ UNCHANGED <<files, given>>

\* uga_fs_write_fd of the data at a position of a file with the content.
Write(op, p, content, pos, data) ==
  \/ \E n \in Transferred(Len(data)) :
       /\ pos + n <= MaxLen
       /\ files' = [files EXCEPT ![p] = Written(content, pos, SubSeq(data, 1, n))]
       /\ errtype' = WriteErr(Len(data), n)
       /\ last' = Outcome(op, p, Len(data), n, SubSeq(data, 1, n), "none")
  \/ /\ files' = [files EXCEPT ![p] = content]
     /\ Fails(op, p, Len(data), "write")

WriteFd(f, data) ==
  /\ Idle
  /\ f \in given
  /\ LET p == table[f].path
         pos == Start(table[f], files[p]) IN
     \/ /\ table[f].flags.write
        /\ Write("write_fd", p, files[p], pos, data)
        /\ table' = IF last'.got > 0 THEN [table EXCEPT ![f].pos = pos + last'.got] ELSE table
     \/ /\ ~table[f].flags.write
        /\ Fails("write_fd", p, Len(data), "write") /\ UNCHANGED <<files, table>>
  /\ UNCHANGED given

\* Mutant: the descriptor is not closed.
FilesizeKeepsOpen(p) ==
  /\ Idle
  /\ \/ /\ CanOpen(p, OpenRead)
        /\ table' = Opened(p, OpenRead, 0)
        /\ errtype' = "NONE" /\ last' = Outcome("filesize", p, 0, Len(files[p]), <<>>, "none")
     \/ Fails("filesize", p, 0, "open") /\ UNCHANGED table
  /\ UNCHANGED <<files, given>>

\* uga_fs_filesize: opens with O_PATH, asks, closes.
Filesize(p) ==
  /\ Idle
  /\ \/ /\ CanOpen(p, OpenRead)
        /\ \/ errtype' = "NONE" /\ last' = Outcome("filesize", p, 0, Len(files[p]), <<>>, "none")
           \/ errtype' = "STD" /\ last' = Outcome("filesize", p, 0, Len(files[p]), <<>>, "close")
           \/ Fails("filesize", p, 0, "stat")
     \/ Fails("filesize", p, 0, "open")
  /\ UNCHANGED <<files, table, given>>

\* uga_fs_file_exists: 1 or 0, and an error with the 0.
FileAccess(p) ==
  /\ Idle
  /\ \/ /\ files[p] # NoFile
        /\ errtype' = "NONE" /\ last' = Outcome("access", p, 0, 1, <<>>, "none")
     \/ errtype' = "STD" /\ last' = Outcome("access", p, 0, 0, <<>>, "access")
  /\ UNCHANGED <<files, table, given>>

-----------------------------------------------------------------------------
(* The whole-file functions. *)

\* UGA_RETURN_ON_ERR: what failed is printed away.
ReturnPrinted(op, p, wanted, failed) ==
  errtype' = "NONE" /\ last' = Outcome(op, p, wanted, -1, <<>>, failed)

\* uga_fs_read_file.  If the open fails, fstat of -1 and an allocation of -1 do too.
ReadFile(p) ==
  /\ "read_file" \in WholeFile /\ pc = "client"
  /\ \/ /\ CanOpen(p, OpenRead)
        /\ table' = Opened(p, OpenRead, 0)
        /\ pc' = "stat" /\ fd' = NewFd
        /\ errtype' = "NONE" /\ last' = Nothing
     \/ ReturnPrinted("read_file", p, 0, "open") /\ UNCHANGED <<table, pc, fd>>
  /\ UNCHANGED <<files, given, size>>

\* The size, and a string for it: an allocation of -1 if fstat fails.
ReadFileStat ==
  /\ pc = "stat"
  /\ \/ /\ size' = Len(files[table[fd].path]) /\ pc' = "read"
        /\ UNCHANGED <<errtype, last, fd>>
     \/ /\ \E failed \in {"stat", "allocate"} :
             ReturnPrinted("read_file", table[fd].path, 0, failed)
        /\ pc' = "client" /\ fd' = 0 /\ UNCHANGED size
  /\ UNCHANGED <<files, table, given>>

ReadFileRead ==
  /\ pc = "read"
  /\ Read("read_file", table[fd].path, 0, size, size)
  /\ table' = [table EXCEPT ![fd].pos = Advanced(last'.got)]
  /\ pc' = "client" /\ fd' = 0 /\ size' = 0
  /\ UNCHANGED <<files, given>>

ReadFileInto(p, capacity) ==
  /\ "read_file_into" \in WholeFile /\ Idle
  /\ \/ /\ CanOpen(p, OpenRead)
        /\ Read("read_file_into", p, 0, capacity, There(p, 0, capacity))
        /\ table' = Opened(p, OpenRead, Advanced(last'.got))
     \/ ReturnPrinted("read_file_into", p, 0, "open") /\ UNCHANGED table
  /\ UNCHANGED <<files, given>>

\* uga_fs_write_file and uga_fs_append_file.
PutFile(op, flags, p, data) ==
  /\ op \in WholeFile /\ Idle
  /\ \/ /\ CanOpen(p, flags)
        /\ LET start == IF flags.append THEN Len(Created(p)) ELSE 0 IN
           /\ Write(op, p, Created(p), start, data)
           /\ table' = Opened(p, flags, IF last'.got > 0 THEN start + last'.got ELSE 0)
     \/ ReturnPrinted(op, p, Len(data), "open") /\ UNCHANGED <<files, table>>
  /\ UNCHANGED given

\* Mutant: written with the flags of the other.
WriteFileAppends(p, data) == PutFile("write_file", OpenAppend, p, data)

WriteFile(p, data)  == PutFile("write_file", OpenWrite, p, data)
AppendFile(p, data) == PutFile("append_file", OpenAppend, p, data)

-----------------------------------------------------------------------------
(* Another process. *)
OtherAppends(p, d) ==
  /\ Others /\ files[p] # NoFile /\ Len(files[p]) < MaxLen
  /\ files' = [files EXCEPT ![p] = Append(@, d)] /\ last' = Nothing
  /\ UNCHANGED <<table, given, errtype, pc, fd, size>>

OtherTruncates(p) ==
  /\ Others /\ files[p] # NoFile
  /\ files' = [files EXCEPT ![p] = <<>>] /\ last' = Nothing
  /\ UNCHANGED <<table, given, errtype, pc, fd, size>>

NextFiles ==
  \/ \E p \in Paths :
       \/ \E flags \in {OpenRead, OpenWrite, OpenAppend, OpenFull} : OpenFile(p, flags)
       \/ Filesize(p) \/ FileAccess(p)
       \/ ReadFile(p) \/ \E capacity \in 1 .. MaxLen : ReadFileInto(p, capacity)
       \/ \E data \in Buffers : WriteFile(p, data) \/ AppendFile(p, data)
       \/ OtherTruncates(p) \/ \E d \in Data : OtherAppends(p, d)
  \/ ReadFileStat \/ ReadFileRead
  \/ \E f \in given :
       \/ Close(f)
       \/ \E capacity \in 1 .. MaxLen : ReadFd(f, capacity)
       \/ \E data \in Buffers : WriteFd(f, data)

FilesSpec == InitFiles /\ [][NextFiles]_filesVars

-----------------------------------------------------------------------------
(***************************************************************************)
(* What a whole-file call returned or wrote is at the place in the file    *)
(* where it should be: a file read is the content from its beginning, a    *)
(* file written begins with the data, a file appended to ends with them.   *)
(***************************************************************************)
WholeFileExact ==
  last.got > 0 =>
    /\ last.op \in {"read_file", "read_file_into", "write_file"} =>
         IsPrefix(last.data, files[last.path])
    /\ last.op = "append_file" => IsSuffix(last.data, files[last.path])

(***************************************************************************)
(* Appending, through uga_fs_append_file or a descriptor opened by         *)
(* uga_fs_open_append, never changes what is in the file, even when        *)
(* another process appends in between.                                     *)
(***************************************************************************)
AppendsOnly ==
  [][\A p \in Paths :
       /\ files[p] # NoFile
       /\ \/ \E data \in Buffers : AppendFile(p, data)
          \/ \E f \in given : table[f].path = p /\ table[f].flags = OpenAppend
                             /\ \E data \in Buffers : WriteFd(f, data)
       => IsPrefix(files[p], files'[p])]_filesVars

(***************************************************************************)
(* README on errors: "After a call to a library function, you can check    *)
(* for errors by calling uga_had_errs()".  In a call that left no error no *)
(* system call failed, and all there was to move was moved, although read  *)
(* and write may stop early and the file may have shrunk since             *)
(* uga_fs_read_file took its size.  Except where a whole-file call ends in *)
(* UGA_RETURN_ON_ERR: that the file could not be opened, or no string be   *)
(* made for it, is printed away, and only the -1 or the empty string tells.*)
(***************************************************************************)
FileFailureTold ==
  errtype = "NONE" =>
    \/ last.failed = "none" /\ last.got >= last.wanted
    \/ /\ last.op \in WholeFile /\ last.got = -1
       /\ \/ last.failed = "open"
          \/ last.op = "read_file" /\ last.failed \in {"stat", "allocate"}

(***************************************************************************)
(* examples/files.c reads a whole file into a string one larger than the   *)
(* file and aborts on any error: a call that moved all there was and in    *)
(* which no system call failed leaves none.  uga_fs_read_fd takes less     *)
(* than the capacity for a partial read, so the example always aborts.     *)
(***************************************************************************)
AllReadIsNoError ==
  last.op = "read_file_into" /\ last.failed = "none" /\ last.got = last.wanted => errtype = "NONE"

(***************************************************************************)
(* A descriptor stays open for good when a whole-file call opened it, and  *)
(* no other call leaves one open that its client was not given to close.   *)
(***************************************************************************)
Unowned == DOMAIN table \ given

DescriptorsKept ==
  [][/\ Unowned \subseteq Unowned'
     /\ Unowned' # Unowned => pc' = "stat" \/ last'.op \in WholeFile]_filesVars
=============================================================================
