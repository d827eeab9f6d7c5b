----------------------------- MODULE ProcessTree -----------------------------
(***************************************************************************)
(* The process table and the process tree: find_empty_process and          *)
(* copy_process of kernel/fork.c, do_exit, release and sys_waitpid of      *)
(* kernel/exit.c.                                                          *)
(*                                                                         *)
(* A task structure is a page; task[] points to the pages in use, and the  *)
(* pages point to each other: p_pptr to the parent, p_cptr to the youngest *)
(* child, p_osptr and p_ysptr to the next older and younger sibling.       *)
(*                                                                         *)
(* The kernel is not preemptive: `current' is the task that has not slept  *)
(* since its last step, NULL when any task may run. While memory is short, *)
(* get_free_page swaps and sleeps: in the middle of a fork. Two forks may  *)
(* then have found the same slot, and the task of one is taken out of      *)
(* task[] again: schedule() does not see it any more.                      *)
(*                                                                         *)
(* Process groups, and the stopping of processes, are not modelled here.   *)
(***************************************************************************)
EXTENDS Integers, FiniteSets

CONSTANTS
  TaskPages,    \* the pages task structures can be in
  Idle, Init1,  \* those of task[0] and of task[1], the init process
  NR_TASKS,
  MaxPid,       \* bound: pids wrap after it, as they do after 2^31 - 1
  MemoryShort,  \* does get_free_page have to swap?
  Masks,        \* the tasks that may block SIGCHLD
  WaitForPid,   \* do tasks wait for a child by its pid too?
  NULL

ProcessTreeAssumption ==
  /\ IsFiniteSet(TaskPages)
  /\ Init1 \in TaskPages /\ Idle \notin TaskPages /\ NULL \notin TaskPages \cup {Idle}
  /\ NR_TASKS \in Nat /\ NR_TASKS > 1
  /\ MaxPid \in Nat /\ MaxPid >= NR_TASKS
  /\ MemoryShort \in BOOLEAN /\ Masks \subseteq TaskPages /\ WaitForPid \in BOOLEAN

ASSUME ProcessTreeConstants == ProcessTreeAssumption

TaskSlots == 1..NR_TASKS - 1   \* task[0] is Idle

VARIABLES
  task,       \* task[]
  used,       \* pages that get_free_page has given out
  state,      \* "running", "interruptible", "uninterruptible" or "zombie"
  pid, last_pid,
  p_pptr, p_cptr, p_ysptr, p_osptr,
  sigchld,    \* is SIGCHLD pending?
  blocked,    \* does the task block SIGCHLD?
  pc,         \* "user", "fork", "copy", "wait", "asleep"
  nr, child,  \* the slot and the page of a fork
  wanted,     \* the child waitpid is called for, or -1
  current     \* Idle when the kernel has panicked: nobody runs again

links == <<p_pptr, p_cptr, p_ysptr, p_osptr>>
signals == <<sigchld, blocked>>
control == <<pc, nr, child, wanted>>
treeVars == <<task, used, state, pid, last_pid, links, signals, control, current>>

-----------------------------------------------------------------------------
All == TaskPages \cup {Idle}

Listed == {task[i] : i \in TaskSlots} \ {NULL}

(* schedule() looks for runnable tasks in task[]. *)
CanRun(p) == current \in {p, NULL} /\ p \in Listed /\ state[p] = "running"

Goto(p, l) == pc' = [pc EXCEPT ![p] = l]

(* Back to the caller of the system call, or to sleep: others may run. *)
Yield == current' = NULL

MaySleep(p) == current' \in IF MemoryShort THEN {p, NULL} ELSE {p}

-----------------------------------------------------------------------------
(* find_empty_process: the next pid no task has, and a free slot. *)
NextPid ==
  LET after(k) == ((last_pid + k - 1) % MaxPid) + 1
      taken == {pid[q] : q \in Listed \cup {Idle}}
      free == {k \in 1..MaxPid : after(k) \notin taken}
  IN  after(CHOOSE k \in free : \A l \in free : k <= l)

FindEmptyProcess(p) ==
  LET empty == {i \in TaskSlots : task[i] = NULL} IN
  /\ pc[p] = "user" /\ CanRun(p)
  /\ last_pid' = NextPid
  /\ \/ /\ empty # {}
        /\ nr' = [nr EXCEPT ![p] = CHOOSE i \in empty : \A j \in empty : i <= j]
        /\ Goto(p, "fork")
        /\ MaySleep(p)
     \/ /\ empty = {}
        /\ Yield /\ UNCHANGED <<nr, pc>>
  /\ UNCHANGED <<task, used, state, pid, links, signals, child, wanted>>

(* copy_process with a page for the new task structure, up to copy_mem; the
   structure is a copy of the parent's, with its links. *)
CopyProcess(p) ==
  /\ pc[p] = "fork" /\ CanRun(p)
  /\ \/ \E q \in TaskPages \ used :
          /\ used' = used \cup {q}
          /\ task' = [task EXCEPT ![nr[p]] = q]
          /\ state' = [state EXCEPT ![q] = "uninterruptible"]
          /\ pid' = [pid EXCEPT ![q] = last_pid]
          /\ p_pptr' = [p_pptr EXCEPT ![q] = p_pptr[p]]
          /\ p_cptr' = [p_cptr EXCEPT ![q] = p_cptr[p]]
          /\ p_ysptr' = [p_ysptr EXCEPT ![q] = p_ysptr[p]]
          /\ p_osptr' = [p_osptr EXCEPT ![q] = p_osptr[p]]
          /\ sigchld' = [sigchld EXCEPT ![q] = FALSE]
          /\ blocked' = [blocked EXCEPT ![q] = blocked[p]]
          /\ child' = [child EXCEPT ![p] = q]
          /\ Goto(p, "copy")
          /\ MaySleep(p) /\ nr' = nr
     \/ /\ used = TaskPages
        /\ nr' = [nr EXCEPT ![p] = NULL]
        /\ Goto(p, "user") /\ Yield
        /\ UNCHANGED <<task, used, state, pid, links, signals, child>>
  /\ UNCHANGED <<last_pid, wanted>>

(* copy_process after copy_mem: the child becomes the youngest one, or is
   given up for want of memory. *)
Link(p) ==
  LET q == child[p] IN
  /\ p_pptr' = [p_pptr EXCEPT ![q] = p]
  /\ p_osptr' = [p_osptr EXCEPT ![q] = p_cptr[p]]
  /\ p_ysptr' = [r \in All |-> IF r = q THEN NULL
                                          ELSE IF r = p_cptr[p] THEN q ELSE p_ysptr[r]]
  /\ p_cptr' = [p_cptr EXCEPT ![q] = NULL, ![p] = q]

CopyMem(p) ==
  LET q == child[p] IN
  /\ pc[p] = "copy" /\ CanRun(p)
  /\ \/ /\ Link(p)
        /\ state' = [state EXCEPT ![q] = "running"]
        /\ UNCHANGED <<task, used, pid, blocked>>
     \/ /\ task' = [task EXCEPT ![nr[p]] = NULL]
        /\ used' = used \ {q}
        /\ state' = [state EXCEPT ![q] = "free"]
        /\ pid' = [pid EXCEPT ![q] = 0]
        /\ p_pptr' = [p_pptr EXCEPT ![q] = NULL]
        /\ p_cptr' = [p_cptr EXCEPT ![q] = NULL]
        /\ p_ysptr' = [p_ysptr EXCEPT ![q] = NULL]
        /\ p_osptr' = [p_osptr EXCEPT ![q] = NULL]
        /\ blocked' = [blocked EXCEPT ![q] = FALSE]
  /\ Goto(p, "user")
  /\ nr' = [nr EXCEPT ![p] = NULL]
  /\ child' = [child EXCEPT ![p] = NULL]
  /\ Yield
  /\ UNCHANGED <<last_pid, sigchld, wanted>>

-----------------------------------------------------------------------------
(* The n-th child of p, youngest first; NULL after the last. *)
Sibling(p) ==
  LET s[n \in 0..Cardinality(TaskPages)] ==
        IF n = 0 THEN p_cptr[p]
                 ELSE LET younger == s[n - 1] IN IF younger = NULL THEN NULL ELSE p_osptr[younger]
  IN  s

Children(p) ==
  LET s == Sibling(p) IN {s[n] : n \in DOMAIN s} \ {NULL}

(* do_exit from current->state = TASK_ZOMBIE on: the parent gets SIGCHLD,
   and init inherits the children, linked before its own. *)
DoExit_Orphans(p) ==                   \* faulty: init's children are not linked behind
  LET kids == Children(p)
      init == task[1]
  IN
  /\ pc[p] = "user" /\ CanRun(p) /\ p # init
  /\ state' = [state EXCEPT ![p] = "zombie"]
  /\ sigchld' = [sigchld EXCEPT ![p_pptr[p]] = TRUE]
  /\ p_pptr' = [q \in All |-> IF q \in kids THEN init ELSE p_pptr[q]]
  /\ IF kids = {}
       THEN UNCHANGED <<p_cptr, p_ysptr, p_osptr>>
       ELSE /\ UNCHANGED <<p_osptr, p_ysptr>>
            /\ p_cptr' = [p_cptr EXCEPT ![init] = p_cptr[p], ![p] = NULL]
  /\ Yield
  /\ UNCHANGED <<task, used, pid, last_pid, blocked, control>>

DoExit(p) ==
  LET kids == Children(p)
      oldest == CHOOSE c \in kids : p_osptr[c] = NULL
      init == task[1]
  IN
  /\ pc[p] = "user" /\ CanRun(p) /\ p # init
  /\ state' = [state EXCEPT ![p] = "zombie"]
  /\ sigchld' = [q \in All |->
       \/ sigchld[q]
       \/ q = p_pptr[p]
       \/ q = init /\ \E c \in kids : state[c] = "zombie"]
  /\ p_pptr' = [q \in All |-> IF q \in kids THEN init ELSE p_pptr[q]]
  /\ IF kids = {}
       THEN UNCHANGED <<p_cptr, p_ysptr, p_osptr>>
       ELSE /\ p_osptr' = [p_osptr EXCEPT ![oldest] = p_cptr[init]]
            /\ p_ysptr' = [p_ysptr EXCEPT ![p_cptr[init]] = oldest]
            /\ p_cptr' = [p_cptr EXCEPT ![init] = p_cptr[p], ![p] = NULL]
  /\ Yield
  /\ UNCHANGED <<task, used, pid, last_pid, blocked, control>>

(* release(c): out of the table and out of the list, and the page is free
   (what is in a free page is not looked at, and get_free_page clears it).
   The schedule() at its end lets others run. *)
Release(c) ==
  LET old == p_osptr[c]
      young == p_ysptr[c]
  IN
  /\ task' = [i \in TaskSlots |-> IF task[i] = c THEN NULL ELSE task[i]]
  /\ used' = used \ {c}
  /\ p_ysptr' = [q \in All |-> IF q = c THEN NULL ELSE IF q = old THEN young ELSE p_ysptr[q]]
  /\ p_osptr' = [q \in All |-> IF q = c THEN NULL ELSE IF q = young THEN old ELSE p_osptr[q]]
  /\ p_cptr' = IF young = NULL THEN [p_cptr EXCEPT ![p_pptr[c]] = old] ELSE p_cptr
  /\ p_pptr' = [p_pptr EXCEPT ![c] = NULL]
  /\ state' = [state EXCEPT ![c] = "free"]
  /\ pid' = [pid EXCEPT ![c] = 0]
  /\ sigchld' = [sigchld EXCEPT ![c] = FALSE]
  /\ blocked' = [blocked EXCEPT ![c] = FALSE]

WaitPid(p, k) ==
  /\ pc[p] = "user" /\ CanRun(p)
  /\ wanted' = [wanted EXCEPT ![p] = k]
  /\ Goto(p, "wait") /\ current' = p
  /\ UNCHANGED <<task, used, state, pid, last_pid, links, signals, nr, child>>

(* sys_waitpid from "repeat:" on: the youngest zombie among the children it
   asks for, or none at all, or sleep. release() panics on a task that it does
   not find in task[]. *)
Repeat(p) ==
  LET s == Sibling(p)
      asked == {c \in Children(p) : wanted[p] \in {-1, pid[c]}}
      zombies == {n \in DOMAIN s : s[n] \in asked /\ state[s[n]] = "zombie"}
      found == s[CHOOSE n \in zombies : \A m \in zombies : n <= m]
  IN
  /\ pc[p] = "wait" /\ CanRun(p)
  /\ \/ /\ zombies # {} /\ found \in Listed
        /\ Release(found)
        /\ Goto(p, "user") /\ Yield
        /\ wanted' = [wanted EXCEPT ![p] = -1]
     \/ /\ zombies # {} /\ found \notin Listed
        /\ current' = Idle
        /\ UNCHANGED <<task, used, state, pid, links, signals, pc, wanted>>
     \/ /\ asked = {}
        /\ Goto(p, "user") /\ Yield
        /\ wanted' = [wanted EXCEPT ![p] = -1]
        /\ UNCHANGED <<task, used, state, pid, links, signals>>
     \/ /\ zombies = {} /\ asked # {}
        /\ state' = [state EXCEPT ![p] = "interruptible"]
        /\ Goto(p, "asleep") /\ Yield
        /\ UNCHANGED <<task, used, pid, links, signals, wanted>>
  /\ UNCHANGED <<last_pid, nr, child>>

(* schedule() makes the sleepers of task[] runnable that have a signal:
   waitpid has taken SIGCHLD out of the mask before it sleeps. *)
LetsOut_Blocked(p) == sigchld[p] /\ ~blocked[p]   \* faulty: the mask stays as it is

LetsOut(p) == sigchld[p]

WakeWaiter(p) ==
  /\ current = NULL /\ p \in Listed
  /\ pc[p] = "asleep" /\ state[p] = "interruptible" /\ LetsOut(p)
  /\ state' = [state EXCEPT ![p] = "running"]
  /\ Goto(p, "wait")
  /\ UNCHANGED <<task, used, pid, last_pid, links, signals, nr, child, wanted, current>>

(* The default action of SIGCHLD, on the way back to user mode. *)
TakeSigchld(p) ==
  /\ pc[p] = "user" /\ CanRun(p) /\ sigchld[p] /\ ~blocked[p]
  /\ sigchld' = [sigchld EXCEPT ![p] = FALSE]
  /\ UNCHANGED <<task, used, state, pid, last_pid, links, blocked, control, current>>

(* ssetmask *)
Block(p) ==
  /\ p \in Masks /\ pc[p] = "user" /\ CanRun(p)
  /\ blocked' = [blocked EXCEPT ![p] = ~@]
  /\ UNCHANGED <<task, used, state, pid, last_pid, links, sigchld, control, current>>

-----------------------------------------------------------------------------
TreeInit ==
  /\ task = [i \in TaskSlots |-> IF i = 1 THEN Init1 ELSE NULL]
  /\ used = {Init1}
  /\ state = [p \in All |-> IF p \in {Idle, Init1} THEN "running" ELSE "free"]
  /\ pid = [p \in All |-> IF p = Init1 THEN 1 ELSE 0]
  /\ last_pid = 1
  /\ p_pptr = [p \in All |-> IF p \in {Idle, Init1} THEN Idle ELSE NULL]
  /\ p_cptr = [p \in All |-> IF p = Idle THEN Init1 ELSE NULL]
  /\ p_ysptr = [p \in All |-> NULL]
  /\ p_osptr = [p \in All |-> NULL]
  /\ sigchld = [p \in All |-> FALSE]
  /\ blocked = [p \in All |-> FALSE]
  /\ pc = [p \in All |-> "user"]
  /\ nr = [p \in All |-> NULL]
  /\ child = [p \in All |-> NULL]
  /\ wanted = [p \in All |-> -1]
  /\ current = NULL

(* In the middle of a system call. *)
InKernel(p) == CopyProcess(p) \/ CopyMem(p) \/ Repeat(p) \/ WakeWaiter(p)

TreeStep(p) ==
  FindEmptyProcess(p) \/ InKernel(p) \/ DoExit(p) \/ TakeSigchld(p) \/ Block(p)
    \/ WaitPid(p, -1) \/ (WaitForPid /\ \E c \in Children(p) : WaitPid(p, pid[c]))

TreeNext == \E p \in TaskPages : TreeStep(p)

TreeSpec == TreeInit /\ [][TreeNext]_treeVars

(* A task in the kernel goes on; schedule() looks at the signals of all the
   tasks in task[]. *)
FairTreeSpec ==
  /\ TreeSpec
  /\ \A p \in TaskPages : SF_treeVars(InKernel(p))

-----------------------------------------------------------------------------
(* What the audit does not see: every task is in its parent's list of
   children, where waitpid finds it, and its parent is alive and can wait. *)
EveryTaskIsListed ==
  current = NULL =>
    /\ \A p \in Listed \cup {Idle} : Children(p) = {q \in Listed : p_pptr[q] = p}
    /\ \A p \in Listed : state[p_pptr[p]] # "zombie"
    /\ used = Listed

(* A parent does not wait forever while a child it asks for has exited: the
   SIGCHLD of the exit, or of the inheritance, wakes it, whichever child it
   asks for and whatever signals it blocks - as long as schedule() knows the
   parent, which no other fork has taken out of task[], and until release()
   panics on a child that one has. *)
WaitsInVain(p) ==
  /\ p \in Listed /\ current # Idle
  /\ pc[p] \in {"wait", "asleep"}
  /\ \E c \in Children(p) : state[c] = "zombie" /\ wanted[p] \in {-1, pid[c]}

WaitReturns == \A p \in TaskPages : []<>~WaitsInVain(p)

=============================================================================
