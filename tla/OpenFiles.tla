----------------------------- MODULE OpenFiles -----------------------------
(***************************************************************************)
(* Descriptors, open files and what they refer to: fs/open.c, fs/fcntl.c,  *)
(* sys_pipe, and what fork, exec and exit do with them; file_read and      *)
(* file_write of a file that several tasks use (fs/file_dev.c).            *)
(*                                                                         *)
(* A task may lose the processor wherever it resolves a name, puts an      *)
(* inode, gets a page or a block; a step goes from one such place to the   *)
(* next.  pwd stands for root as well, and executable for library, which   *)
(* are treated alike.  Contents, permissions and devices are left out.     *)
(*                                                                         *)
(* file_read takes the block from f_pos and, after a sleep, the place in   *)
(* the block from f_pos again: when another task that shares the file has  *)
(* moved it, what is read is of neither place. The model stops there       *)
(* (posRaced).                                                             *)
(***************************************************************************)
EXTENDS Integers, FiniteSets, FiniteSetsExt

CONSTANTS
  Processes, First,        \* the tasks, and the one that runs first
  NR_OPEN, NR_FILE,
  InodeNrs, Pipes, Pwd,    \* the inodes, those that may become pipes, the first one of a pwd
  BLOCK_SIZE, MaxSize,
  Calls,                   \* the system calls that are made
  Appends,                 \* whether files are opened with O_APPEND: subset of BOOLEAN
  Nil

OpenFilesAssumption ==
  /\ First \in Processes /\ Pwd \in InodeNrs \ Pipes /\ Pipes \subseteq InodeNrs
  /\ Appends \subseteq BOOLEAN
  /\ {NR_OPEN, NR_FILE, BLOCK_SIZE, MaxSize} \subseteq Nat \ {0} /\ Nil \notin InodeNrs \union 1..NR_FILE
  /\ IsFiniteSet(Processes)

VARIABLES
  filp, close_on_exec, pwd, executable,   \* of a task
  taskState,     \* "none", "forked" (copied from another, which still sleeps), "running"
  f_count, f_inode, f_pos, f_append,      \* of an entry of file_table
  i_count, i_size,
  written,       \* history: how far an inode has been written since it was truncated
  syscall,       \* where a task is in a system call
  posRaced

taskVars == <<filp, close_on_exec, pwd, executable, taskState>>
fileVars == <<f_count, f_inode, f_pos, f_append>>
inodeVars == <<i_count, i_size, written>>
openVars == <<taskVars, fileVars, inodeVars, syscall, posRaced>>

Fds == 0..NR_OPEN - 1
FileTable == 1..NR_FILE

-----------------------------------------------------------------------------
Free(t) == {fd \in Fds : filp[t][fd] = Nil}
FreeFiles == {f \in FileTable : f_count[f] = 0}
Out == [pc |-> "out"]
Sleeps(t, r) == syscall' = [syscall EXCEPT ![t] = r]
Done(t) == Sleeps(t, Out)
(* Puts an inode, which may sleep first, and goes on. *)
PutThen(t, i, r) == Sleeps(t, [pc |-> "iput", inode |-> i, then |-> r])

At(t, pc) == taskState[t] = "running" /\ syscall[t].pc = pc /\ ~posRaced
Starts(t, name) == name \in Calls /\ At(t, "out")

(* Files that are used no more; f_inode is Nil as well until it is known: what
   is left there of the last use is never read. *)
Cleared(files) ==
  /\ f_count' = [f \in FileTable |-> IF f \in files THEN 0 ELSE f_count[f]]
  /\ f_inode' = [f \in FileTable |-> IF f \in files THEN Nil ELSE f_inode[f]]
  /\ f_pos' = [f \in FileTable |-> IF f \in files THEN 0 ELSE f_pos[f]]
  /\ f_append' = [f \in FileTable |-> IF f \in files THEN FALSE ELSE f_append[f]]

Iputs(t) ==
  /\ At(t, "iput")
  /\ i_count' = [i_count EXCEPT ![syscall[t].inode] = @ - 1]
  /\ Sleeps(t, syscall[t].then)
  /\ UNCHANGED <<taskVars, fileVars, i_size, written, posRaced>>

(* sys_open, until open_namei sleeps, and after it. *)
Open(t) ==
  /\ Starts(t, "open") /\ Free(t) # {}
  /\ LET fd == Min(Free(t))
         f == Min(FreeFiles)
     IN  /\ close_on_exec' = [close_on_exec EXCEPT ![t] = @ \ {fd}]
         /\ IF FreeFiles = {} THEN UNCHANGED <<filp, f_count, syscall>>
            ELSE /\ filp' = [filp EXCEPT ![t][fd] = f]
                 /\ f_count' = [f_count EXCEPT ![f] = @ + 1]
                 /\ Sleeps(t, [pc |-> "opening", fd |-> fd])
  /\ UNCHANGED <<pwd, executable, taskState, f_inode, f_pos, f_append, inodeVars, posRaced>>

NotOpened(t) ==
  /\ At(t, "opening")
  /\ filp' = [filp EXCEPT ![t][syscall[t].fd] = Nil]
  /\ Cleared({filp[t][syscall[t].fd]})
  /\ Done(t)
  /\ UNCHANGED <<close_on_exec, pwd, executable, taskState, inodeVars, posRaced>>

Opened(t) ==
  /\ At(t, "opening")
  /\ \E i \in InodeNrs \ Pipes, trunc \in BOOLEAN, append \in Appends :
       LET f == filp[t][syscall[t].fd] IN
       /\ i_count' = [i_count EXCEPT ![i] = @ + 1]
       /\ i_size' = [i_size EXCEPT ![i] = IF trunc THEN 0 ELSE @]
       /\ written' = [written EXCEPT ![i] = IF trunc THEN 0 ELSE @]
       /\ f_count' = [f_count EXCEPT ![f] = 1]
       /\ f_inode' = [f_inode EXCEPT ![f] = i]
       /\ f_pos' = [f_pos EXCEPT ![f] = 0]
       /\ f_append' = [f_append EXCEPT ![f] = append]
  /\ Done(t)
  /\ UNCHANGED <<taskVars, posRaced>>

(* sys_close of a descriptor that is open; then goes on with r. *)
Closed(t, fd, r) ==
  LET f == filp[t][fd] IN
  /\ close_on_exec' = [close_on_exec EXCEPT ![t] = @ \ {fd}]
  /\ filp' = [filp EXCEPT ![t][fd] = Nil]
  /\ IF f_count[f] > 1
     THEN f_count' = [f_count EXCEPT ![f] = @ - 1] /\ Sleeps(t, r) /\ UNCHANGED <<f_inode, f_pos, f_append>>
     ELSE Cleared({f}) /\ PutThen(t, f_inode[f], r)
  /\ UNCHANGED <<pwd, taskState, inodeVars, posRaced>>

CloseFd(t) ==
  /\ Starts(t, "close") /\ \E fd \in Fds \ Free(t) : Closed(t, fd, Out)
  /\ UNCHANGED executable

(* dupfd: the first free descriptor from arg on. *)
Above(t, arg) == {fd \in Free(t) : fd >= arg}

DupFd_NotCounted(t, fd, arg) ==      \* faulty
  IF fd \in Free(t) \/ Above(t, arg) = {} THEN UNCHANGED <<filp, close_on_exec, f_count>>
  ELSE /\ filp' = [filp EXCEPT ![t][Min(Above(t, arg))] = filp[t][fd]]
       /\ close_on_exec' = [close_on_exec EXCEPT ![t] = @ \ {Min(Above(t, arg))}]
       /\ UNCHANGED f_count

DupFd(t, fd, arg) ==
  IF fd \in Free(t) \/ Above(t, arg) = {} THEN UNCHANGED <<filp, close_on_exec, f_count>>
  ELSE /\ filp' = [filp EXCEPT ![t][Min(Above(t, arg))] = filp[t][fd]]
       /\ close_on_exec' = [close_on_exec EXCEPT ![t] = @ \ {Min(Above(t, arg))}]
       /\ f_count' = [f_count EXCEPT ![filp[t][fd]] = @ + 1]

Dup(t) ==
  /\ Starts(t, "dup")
  /\ \E fd, arg \in Fds : DupFd(t, fd, arg)
  /\ UNCHANGED <<pwd, executable, taskState, f_inode, f_pos, f_append, inodeVars, syscall, posRaced>>

(* sys_dup2 closes newfd, which may sleep, before it looks at oldfd. *)
Dup2(t) ==
  /\ Starts(t, "dup2")
  /\ \E old, new \in Fds :
       LET r == [pc |-> "dup2", old |-> old, new |-> new] IN
       IF new \in Free(t)
       THEN Sleeps(t, r) /\ UNCHANGED <<filp, close_on_exec, pwd, taskState, fileVars, inodeVars, posRaced>>
       ELSE Closed(t, new, r)
  /\ UNCHANGED executable

Dup2Closed(t) ==
  /\ At(t, "dup2")
  /\ DupFd(t, syscall[t].old, syscall[t].new)
  /\ Done(t)
  /\ UNCHANGED <<pwd, executable, taskState, f_inode, f_pos, f_append, inodeVars, posRaced>>

SetCloexec(t) ==
  /\ Starts(t, "fcntl")
  /\ \E fd \in Fds \ Free(t), on \in BOOLEAN :
       close_on_exec' = [close_on_exec EXCEPT ![t] = IF on THEN @ \union {fd} ELSE @ \ {fd}]
  /\ UNCHANGED <<filp, pwd, executable, taskState, fileVars, inodeVars, syscall, posRaced>>

-----------------------------------------------------------------------------
(* sys_pipe: two files and two descriptors, or none; then get_pipe_inode may
   sleep, and fail. *)
Pipe(t) ==
  /\ Starts(t, "pipe")
  /\ Cardinality(FreeFiles) > 1 /\ Cardinality(Free(t)) > 1
  /\ LET f0 == Min(FreeFiles)
         f1 == Min(FreeFiles \ {f0})
         fd0 == Min(Free(t))
         fd1 == Min(Free(t) \ {fd0})
     IN  /\ f_count' = [f_count EXCEPT ![f0] = 1, ![f1] = 1]
         /\ filp' = [filp EXCEPT ![t] = [@ EXCEPT ![fd0] = f0, ![fd1] = f1]]
         /\ Sleeps(t, [pc |-> "pipe", fds |-> {fd0, fd1}])
  /\ UNCHANGED <<close_on_exec, pwd, executable, taskState, f_inode, f_pos, f_append, inodeVars, posRaced>>

PipeFiles(t) == {filp[t][fd] : fd \in syscall[t].fds}

NotPiped(t) ==
  /\ At(t, "pipe")
  /\ filp' = [filp EXCEPT ![t] = [fd \in Fds |-> IF fd \in syscall[t].fds THEN Nil ELSE filp[t][fd]]]
  /\ Cleared(PipeFiles(t))
  /\ Done(t)
  /\ UNCHANGED <<close_on_exec, pwd, executable, taskState, inodeVars, posRaced>>

Piped(t) ==
  /\ At(t, "pipe")
  /\ \E i \in Pipes :
       /\ i_count[i] = 0
       /\ i_count' = [i_count EXCEPT ![i] = 2]
       /\ f_inode' = [f \in FileTable |-> IF f \in PipeFiles(t) THEN i ELSE f_inode[f]]
  /\ Done(t)
  /\ UNCHANGED <<taskVars, f_count, f_pos, f_append, i_size, written, posRaced>>

(* sys_chdir. namei has found i, and has counted it. *)
Chdir(t) ==
  /\ Starts(t, "chdir")
  /\ \E i \in InodeNrs \ Pipes, isDirectory \in BOOLEAN :
       /\ i_count' = [i_count EXCEPT ![i] = @ + 1]
       /\ IF isDirectory THEN PutThen(t, pwd[t], [pc |-> "pwd", inode |-> i]) ELSE PutThen(t, i, Out)
  /\ UNCHANGED <<taskVars, fileVars, i_size, written, posRaced>>

Chdired(t) ==
  /\ At(t, "pwd")
  /\ pwd' = [pwd EXCEPT ![t] = syscall[t].inode]
  /\ Done(t)
  /\ UNCHANGED <<filp, close_on_exec, executable, taskState, fileVars, inodeVars, posRaced>>

(* do_execve, for the files: the new executable, then close_on_exec. *)
Exec(t) ==
  /\ Starts(t, "exec")
  /\ \E i \in InodeNrs \ Pipes :
       /\ i_count' = [i_count EXCEPT ![i] = @ + 1]
       /\ LET r == [pc |-> "exec", inode |-> i] IN
          \/ PutThen(t, i, Out)                        \* exec_error2
          \/ executable[t] = Nil /\ Sleeps(t, r)
          \/ executable[t] # Nil /\ PutThen(t, executable[t], r)
  /\ UNCHANGED <<taskVars, fileVars, i_size, written, posRaced>>

Execed(t) ==
  /\ At(t, "exec")
  /\ executable' = [executable EXCEPT ![t] = syscall[t].inode]
  /\ LET close == close_on_exec[t] \ Free(t) IN
     IF close # {} THEN Closed(t, Min(close), syscall[t])
     ELSE /\ close_on_exec' = [close_on_exec EXCEPT ![t] = {}]
          /\ Done(t)
          /\ UNCHANGED <<filp, pwd, taskState, fileVars, inodeVars, posRaced>>

(* copy_process: the task structure is copied, and the references in it are
   counted when copy_mem, which may sleep, has worked. *)
Fork(t) ==
  /\ Starts(t, "fork")
  /\ \E c \in Processes :
       /\ taskState[c] = "none" /\ taskState' = [taskState EXCEPT ![c] = "forked"]
       /\ filp' = [filp EXCEPT ![c] = filp[t]] /\ close_on_exec' = [close_on_exec EXCEPT ![c] = close_on_exec[t]]
       /\ pwd' = [pwd EXCEPT ![c] = pwd[t]] /\ executable' = [executable EXCEPT ![c] = executable[t]]
       /\ Sleeps(t, [pc |-> "fork", child |-> c])
  /\ UNCHANGED <<fileVars, inodeVars, posRaced>>

NoFiles == [fd \in Fds |-> Nil]
(* A task that is not, or not any more. *)
Removed(c) ==
  /\ filp' = [filp EXCEPT ![c] = NoFiles] /\ close_on_exec' = [close_on_exec EXCEPT ![c] = {}]
  /\ pwd' = [pwd EXCEPT ![c] = Nil] /\ executable' = [executable EXCEPT ![c] = Nil]
  /\ taskState' = [taskState EXCEPT ![c] = "none"]

NotForked(t) ==
  /\ At(t, "fork")
  /\ Removed(syscall[t].child)
  /\ Done(t)
  /\ UNCHANGED <<fileVars, inodeVars, posRaced>>

Forked(t) ==
  /\ At(t, "fork")
  /\ LET c == syscall[t].child IN
     /\ taskState' = [taskState EXCEPT ![c] = "running"]
     /\ f_count' = [f \in FileTable |-> f_count[f] + Cardinality({fd \in Fds : filp[c][fd] = f})]
     /\ i_count' = [i \in InodeNrs |->
          i_count[i] + (IF pwd[c] = i THEN 1 ELSE 0) + (IF executable[c] = i THEN 1 ELSE 0)]
  /\ Done(t)
  /\ UNCHANGED <<filp, close_on_exec, pwd, executable, f_inode, f_pos, f_append, i_size, written, posRaced>>

(* do_exit: each file, then the other references. *)
Exits(t) ==
  \/ Starts(t, "exit") /\ \E u \in Processes \ {t} : taskState[u] = "running"
  \/ At(t, "exit")

ExitFiles(t) ==
  /\ Exits(t) /\ Free(t) # Fds
  /\ Closed(t, Min(Fds \ Free(t)), [pc |-> "exit"])
  /\ UNCHANGED executable

ExitPwd(t) ==
  /\ Exits(t) /\ Free(t) = Fds
  /\ pwd' = [pwd EXCEPT ![t] = Nil]
  /\ PutThen(t, pwd[t], [pc |-> "executable"])
  /\ UNCHANGED <<filp, close_on_exec, executable, taskState, fileVars, inodeVars, posRaced>>

ExitExecutable(t) ==
  /\ At(t, "executable")
  /\ executable' = [executable EXCEPT ![t] = Nil]
  /\ IF executable[t] = Nil THEN Sleeps(t, [pc |-> "zombie"])
     ELSE PutThen(t, executable[t], [pc |-> "zombie"])
  /\ UNCHANGED <<filp, close_on_exec, pwd, taskState, fileVars, inodeVars, posRaced>>

Zombie(t) ==
  /\ At(t, "zombie")
  /\ Removed(t)
  /\ Done(t)
  /\ UNCHANGED <<fileVars, inodeVars, posRaced>>

-----------------------------------------------------------------------------
(* file_read and file_write, a block at a time. *)
Seek(t) ==
  /\ Starts(t, "lseek")
  /\ \E fd \in Fds \ Free(t), pos \in 0..MaxSize : f_pos' = [f_pos EXCEPT ![filp[t][fd]] = pos]
  /\ UNCHANGED <<taskVars, f_count, f_inode, f_append, inodeVars, syscall, posRaced>>

InBlock(pos) == BLOCK_SIZE - (pos % BLOCK_SIZE)
Least(m, n) == IF m < n THEN m ELSE n

StartRead(t) ==
  /\ Starts(t, "read")
  /\ \E fd \in Fds \ Free(t), n \in 1..MaxSize :
       LET f == filp[t][fd]
           left == Least(n, i_size[f_inode[f]] - f_pos[f])
       IN  left > 0 /\ Sleeps(t, [pc |-> "read", file |-> f, left |-> left, block |-> f_pos[f] \div BLOCK_SIZE])
  /\ UNCHANGED <<taskVars, fileVars, inodeVars, posRaced>>

(* bread has returned. *)
ReadBlock(t) ==
  /\ At(t, "read")
  /\ LET c == syscall[t]
         pos == f_pos[c.file]
         n == Least(c.left, InBlock(pos))
     IN  /\ posRaced' = (pos \div BLOCK_SIZE # c.block)
         /\ f_pos' = [f_pos EXCEPT ![c.file] = pos + n]
         /\ IF n = c.left THEN Done(t)
            ELSE Sleeps(t, [pc |-> "read", file |-> c.file, left |-> c.left - n, block |-> (pos + n) \div BLOCK_SIZE])
  /\ UNCHANGED <<taskVars, f_count, f_inode, f_append, inodeVars>>

StartWrite(t) ==
  /\ Starts(t, "write")
  /\ \E fd \in Fds \ Free(t), n \in 1..MaxSize :
       LET f == filp[t][fd]
           pos == IF f_append[f] THEN i_size[f_inode[f]] ELSE f_pos[f]
       IN  pos + n <= MaxSize /\ Sleeps(t, [pc |-> "write", file |-> f, pos |-> pos, left |-> n])
  /\ UNCHANGED <<taskVars, fileVars, inodeVars, posRaced>>

Size_OfLastWrite(size, pos) == pos   \* faulty
Size(size, pos) == IF pos > size THEN pos ELSE size

WriteBlock(t) ==
  /\ At(t, "write")
  /\ LET c == syscall[t]
         i == f_inode[c.file]
         n == Least(c.left, InBlock(c.pos))
         pos == c.pos + n
     IN  /\ i_size' = [i_size EXCEPT ![i] = Size(i_size[i], pos)]
         /\ written' = [written EXCEPT ![i] = IF pos > written[i] THEN pos ELSE written[i]]
         /\ IF n = c.left THEN Sleeps(t, [pc |-> "written", file |-> c.file, pos |-> pos])
            ELSE Sleeps(t, [pc |-> "write", file |-> c.file, pos |-> pos, left |-> c.left - n])
  /\ UNCHANGED <<taskVars, fileVars, i_count, posRaced>>

(* There is no block, or it cannot be read. *)
NotWritten(t) ==
  /\ At(t, "write")
  /\ Sleeps(t, [pc |-> "written", file |-> syscall[t].file, pos |-> syscall[t].pos])
  /\ UNCHANGED <<taskVars, fileVars, inodeVars, posRaced>>

WriteDone(t) ==
  /\ At(t, "written")
  /\ LET f == syscall[t].file IN
     f_pos' = [f_pos EXCEPT ![f] = IF f_append[f] THEN @ ELSE syscall[t].pos]
  /\ Done(t)
  /\ UNCHANGED <<taskVars, f_count, f_inode, f_append, inodeVars, posRaced>>

OpenInit ==
  /\ filp = [t \in Processes |-> NoFiles]
  /\ close_on_exec = [t \in Processes |-> {}]
  /\ pwd = [t \in Processes |-> IF t = First THEN Pwd ELSE Nil]
  /\ executable = [t \in Processes |-> Nil]
  /\ taskState = [t \in Processes |-> IF t = First THEN "running" ELSE "none"]
  /\ f_count = [f \in FileTable |-> 0] /\ f_inode = [f \in FileTable |-> Nil]
  /\ f_pos = [f \in FileTable |-> 0] /\ f_append = [f \in FileTable |-> FALSE]
  /\ i_count = [i \in InodeNrs |-> IF i = Pwd THEN 1 ELSE 0]
  /\ i_size = [i \in InodeNrs |-> 0] /\ written = [i \in InodeNrs |-> 0]
  /\ syscall = [t \in Processes |-> Out]
  /\ posRaced = FALSE

OpenNext ==
  \E t \in Processes :
    \/ Iputs(t) \/ Open(t) \/ NotOpened(t) \/ Opened(t) \/ CloseFd(t) \/ Dup(t) \/ Dup2(t) \/ Dup2Closed(t)
    \/ SetCloexec(t) \/ Pipe(t) \/ NotPiped(t) \/ Piped(t) \/ Chdir(t) \/ Chdired(t) \/ Exec(t) \/ Execed(t)
    \/ Fork(t) \/ NotForked(t) \/ Forked(t) \/ ExitFiles(t) \/ ExitPwd(t) \/ ExitExecutable(t) \/ Zombie(t)
    \/ Seek(t) \/ StartRead(t) \/ ReadBlock(t) \/ StartWrite(t) \/ WriteBlock(t) \/ NotWritten(t) \/ WriteDone(t)

OpenSpec == OpenInit /\ [][OpenNext]_openVars

-----------------------------------------------------------------------------
Running == {t \in Processes : taskState[t] = "running"}

(* The references of a task: its pwd and its executable, which are the new ones
   as soon as the old ones are put, and one it is about to put. *)
Puts(t) == syscall[t].pc = "iput"
Resumes(t) == IF Puts(t) THEN syscall[t].then ELSE syscall[t]
PwdOf(t) == IF Resumes(t).pc = "pwd" THEN Resumes(t).inode ELSE pwd[t]
ExecutableOf(t) == IF Resumes(t).pc = "exec" THEN Resumes(t).inode ELSE executable[t]

(* f_count is the number of descriptors of a file, and i_count that of the
   files, pwds and executables of an inode, through every way a call may fail or
   sleep: a file or an inode is neither used by two nor lost (open.c:205-257,
   fcntl.c:33, pipe.c:84-110, fork.c:135-145, exit.c:276-290). *)
Descriptors(f) == {p \in Running \X Fds : filp[p[1]][p[2]] = f}

References(i) ==
  Cardinality({f \in FileTable : f_inode[f] = i})
  + Cardinality({t \in Running : PwdOf(t) = i})
  + Cardinality({t \in Running : ExecutableOf(t) = i})
  + Cardinality({t \in Running : Puts(t) /\ syscall[t].inode = i})

CountsAreExact ==
  /\ \A f \in FileTable : f_count[f] = Cardinality(Descriptors(f))
  /\ \A i \in InodeNrs : i_count[i] = References(i)

(* A file is as long as what was written to it, whoever else writes, appends
   or truncates it meanwhile (file_dev.c:70-98). *)
SizeCoversWrites == \A i \in InodeNrs : written[i] <= i_size[i]
=============================================================================
