----------------------------- MODULE JobControl -----------------------------
(***************************************************************************)
(* Sessions, process groups and job control: send_sig, kill_pg,            *)
(* is_orphaned_pgrp, do_exit and sys_waitpid of kernel/exit.c, do_signal   *)
(* of kernel/signal.c, setpgid and setsid of kernel/sys.c, and what the    *)
(* terminal has to do with them (tty_io.c, tty_ioctl.c, open.c).           *)
(*                                                                         *)
(* One terminal; SIGTSTP stands for the three stop signals a terminal      *)
(* generates. A task is named by its pid. Signal masks and handlers are    *)
(* left out, and who is the superuser: a call that only his tasks may make *)
(* succeeds for any. The sibling lists are in ProcessTree, here a parent   *)
(* finds its children in any order. Each action is one stretch of kernel   *)
(* code without a call of schedule().                                      *)
(***************************************************************************)
EXTENDS Integers, FiniteSets

CONSTANTS
  Pids,
  Init1,        \* the init process, 1
  None,         \* no group, no session: 0
  Ignorable,    \* signals that tasks may ignore
  Kills,        \* signals that tasks send with kill
  Terminal,     \* is there a terminal to open?
  StopFlags,    \* do tasks use SA_NOCLDSTOP?
  Waiters       \* the tasks that call waitpid

ASSUME JobControlAssumption ==
  /\ IsFiniteSet(Pids) /\ Init1 \in Pids /\ None \notin Pids
  /\ Ignorable \subseteq {"SIGHUP", "SIGTSTP"} /\ Kills \subseteq {"SIGCONT", "SIGTSTP"}
  /\ Terminal \in BOOLEAN /\ StopFlags \in BOOLEAN /\ Waiters \subseteq Pids

VARIABLES
  state,             \* "free", "running", "interruptible", "stopped", "zombie"
  p_pptr,
  pgrp, session,
  leader,            \* of a session
  tty,               \* is the terminal its controlling terminal?
  signal, ignored,
  noCldStop,         \* its flag SA_NOCLDSTOP of SIGCHLD: not to be told of stops
  exit_code,         \* "none", "stop" or "exit"
  pc,                \* "user", or in waitpid: "wait", or "untraced" with WUNTRACED
  tty_pgrp, tty_session,
  abandoned          \* history: a leader with the terminal has called setsid again

groups == <<pgrp, session, leader>>
terminal == <<tty, tty_pgrp, tty_session, abandoned>>
handlers == <<ignored, noCldStop>>
signals == <<signal, handlers>>
vars == <<state, p_pptr, groups, terminal, signals, exit_code, pc>>

-----------------------------------------------------------------------------
Tasks == {p \in Pids : state[p] # "free"}

Members(g) == {p \in Tasks : pgrp[p] = g}

(* In user mode; all programs but init's may make any system call. *)
InUser(p) == state[p] = "running" /\ pc[p] = "user"

Free(p) == InUser(p) /\ p # Init1

Children(p) == {c \in Tasks : p_pptr[c] = p}

(* is_orphaned_pgrp(g), in the state st of the tasks and with the parents pp:
   no living member has a parent outside the group but in the session. (The
   parent of init is in its group, None, and in its session.) *)
IsOrphanedPgrp(g, st, pp) ==
  \A p \in Pids \ {Init1} :
    pgrp[p] = g /\ st[p] \notin {"free", "zombie"} /\ pp[p] # Init1
      => pgrp[pp[p]] = g \/ session[pp[p]] # session[p]

(* send_sig(s) to the tasks Q, in states st, with exit codes ec and pending
   signals sg: continuing and stopping cancel each other. *)
StateAfter(Q, s, st) ==
  [p \in Pids |-> IF p \in Q /\ s = "SIGCONT" /\ st[p] = "stopped" THEN "running" ELSE st[p]]

ExitCodeAfter(Q, s, ec) == [p \in Pids |-> IF p \in Q /\ s = "SIGCONT" THEN "none" ELSE ec[p]]

Cancelled(s) ==
  CASE s = "SIGCONT" -> {"SIGTSTP"} [] s = "SIGTSTP" -> {"SIGCONT"} [] OTHER -> {}

SignalAfter(Q, s, sg) ==
  [p \in Pids |-> IF p \notin Q \/ s \in ignored[p] THEN sg[p] ELSE (sg[p] \ Cancelled(s)) \cup {s}]

SendSig(Q, s) ==
  /\ state' = StateAfter(Q, s, state)
  /\ exit_code' = ExitCodeAfter(Q, s, exit_code)
  /\ signal' = SignalAfter(Q, s, signal)

SessionOfPgrp(g, s) == \E p \in Members(g) : session[p] = s

-----------------------------------------------------------------------------
(* fork: a pid that is no task's and no group's, and a copy of the parent. *)
Fork(p) ==
  /\ InUser(p)
  /\ \E c \in Pids \ Tasks :
       /\ \A q \in Tasks : pgrp[q] # c
       /\ state' = [state EXCEPT ![c] = "running"]
       /\ p_pptr' = [p_pptr EXCEPT ![c] = p]
       /\ pgrp' = [pgrp EXCEPT ![c] = pgrp[p]]
       /\ session' = [session EXCEPT ![c] = session[p]]
       /\ leader' = [leader EXCEPT ![c] = FALSE]
       /\ tty' = [tty EXCEPT ![c] = tty[p]]
       /\ signal' = [signal EXCEPT ![c] = {}]
       /\ ignored' = [ignored EXCEPT ![c] = ignored[p]]
       /\ noCldStop' = [noCldStop EXCEPT ![c] = noCldStop[p]]
       /\ exit_code' = [exit_code EXCEPT ![c] = exit_code[p]]
  /\ UNCHANGED <<pc, tty_pgrp, tty_session, abandoned>>

(* sys_setpgid, of itself or of a child, to a new group or one of the session. *)
SetPgid(p) ==
  /\ Free(p)
  /\ \E q \in Children(p) \cup {p}, g \in Pids :
       /\ ~leader[q] /\ session[q] = session[p]
       /\ g = q \/ SessionOfPgrp(g, session[p])
       /\ pgrp' = [pgrp EXCEPT ![q] = g]
  /\ UNCHANGED <<state, p_pptr, session, leader, terminal, signals, exit_code, pc>>

(* A leader that is the superuser's may begin its session again: it loses the
   terminal, which still belongs to the session. *)
SetSid(p) ==
  /\ Free(p)
  /\ leader' = [leader EXCEPT ![p] = TRUE]
  /\ session' = [session EXCEPT ![p] = p]
  /\ pgrp' = [pgrp EXCEPT ![p] = p]
  /\ tty' = [tty EXCEPT ![p] = FALSE]
  /\ abandoned' = (abandoned \/ (leader[p] /\ tty[p]))
  /\ UNCHANGED <<state, p_pptr, signals, exit_code, pc, tty_pgrp, tty_session>>

(* Opening the terminal makes it the controlling terminal of a leader. *)
OpenTty(p) ==
  /\ Terminal /\ Free(p) /\ leader[p] /\ ~tty[p] /\ tty_session = None
  /\ tty' = [tty EXCEPT ![p] = TRUE]
  /\ tty_session' = session[p]
  /\ tty_pgrp' = pgrp[p]
  /\ UNCHANGED <<abandoned, state, p_pptr, groups, signals, exit_code, pc>>

(* ioctl TIOCSPGRP *)
SetForeground(p) ==
  /\ Free(p) /\ tty[p] /\ tty_session = session[p]
  /\ \E g \in Pids : SessionOfPgrp(g, session[p]) /\ tty_pgrp' = g
  /\ UNCHANGED <<state, p_pptr, groups, tty, tty_session, abandoned, signals, exit_code, pc>>

Ignore(p) ==
  /\ Free(p)
  /\ \E s \in Ignorable \ ignored[p] : ignored' = [ignored EXCEPT ![p] = @ \cup {s}]
  /\ UNCHANGED <<state, p_pptr, groups, terminal, signal, noCldStop, exit_code, pc>>

(* sigaction of SIGCHLD, with SA_NOCLDSTOP or without *)
SigAction(p) ==
  /\ StopFlags /\ InUser(p)
  /\ noCldStop' = [noCldStop EXCEPT ![p] = ~@]
  /\ UNCHANGED <<state, p_pptr, groups, terminal, signal, ignored, exit_code, pc>>

-----------------------------------------------------------------------------
(* kill(-g, s), as a shell continues or stops a job, and kill(q, s); init is
   the superuser's. *)
Kill(p) ==
  /\ Free(p)
  /\ \E s \in Kills :
       \/ \E g \in Pids : Members(g) # {} /\ SendSig(Members(g), s)
       \/ \E q \in Tasks \ {Init1} : SendSig({q}, s)
  /\ UNCHANGED <<p_pptr, groups, terminal, handlers, pc>>

(* The suspend character, in copy_to_cooked. *)
Suspend ==
  /\ tty_pgrp # None /\ ~IsOrphanedPgrp(tty_pgrp, state, p_pptr)
  /\ SendSig(Members(tty_pgrp), "SIGTSTP")
  /\ UNCHANGED <<p_pptr, groups, terminal, handlers, pc>>

(* tty_signal: a task of another group reads from its terminal. *)
BackgroundRead(p) ==
  /\ Free(p) /\ tty[p] /\ tty_pgrp # pgrp[p]
  /\ ~IsOrphanedPgrp(pgrp[p], state, p_pptr)
  /\ SendSig(Members(pgrp[p]), "SIGTSTP")
  /\ UNCHANGED <<p_pptr, groups, terminal, handlers, pc>>

-----------------------------------------------------------------------------
(* do_exit from current->state = TASK_ZOMBIE on. Two causes make a group
   orphaned: the task was its link to the outside, or was outside itself, as
   the parent of such a link. Stopped groups get SIGHUP and SIGCONT. *)
NewlyOrphaned_OwnOnly(p, st, pp) ==   \* faulty: forgets the children's groups
  {g \in {pgrp[p]} : pgrp[p_pptr[p]] # g /\ session[p_pptr[p]] = session[p]
                       /\ IsOrphanedPgrp(g, st, pp)}

NewlyOrphaned(p, st, pp) ==
  {g \in {pgrp[p]} : /\ pgrp[p_pptr[p]] # g /\ session[p_pptr[p]] = session[p]
                     /\ IsOrphanedPgrp(g, st, pp)}
    \cup {g \in Pids : /\ g # pgrp[p] /\ IsOrphanedPgrp(g, st, pp)
                       /\ \E c \in Children(p) : pgrp[c] = g /\ session[c] = session[p]}

LeaveTerminal_Kept(p) ==               \* faulty: the session keeps the terminal
  UNCHANGED terminal

LeaveTerminal(p) ==
  IF leader[p]
    THEN /\ tty' = [q \in Pids |-> tty[q] /\ session[q] # session[p]]
         /\ UNCHANGED abandoned
         /\ IF tty[p] THEN tty_pgrp' = None /\ tty_session' = None
                      ELSE UNCHANGED <<tty_pgrp, tty_session>>
    ELSE UNCHANGED terminal

DoExit(p, sg) ==
  LET st == [state EXCEPT ![p] = "zombie"]
      pp == [q \in Pids |-> IF q \in Children(p) THEN Init1 ELSE p_pptr[q]]
      stopped == {g \in NewlyOrphaned(p, st, pp) \ {None} : \E q \in Members(g) : st[q] = "stopped"}
      released == UNION {Members(g) : g \in stopped}
      hungup == released \cup IF leader[p] /\ tty[p] THEN Members(tty_pgrp) ELSE {}
      chld == {p_pptr[p]} \cup IF \E c \in Children(p) : st[c] = "zombie" THEN {Init1} ELSE {}
  IN
  /\ p # Init1
  /\ state' = StateAfter(released, "SIGCONT", st)
  /\ exit_code' = ExitCodeAfter(released, "SIGCONT", [exit_code EXCEPT ![p] = "exit"])
  /\ signal' = LET s1 == SignalAfter(released, "SIGCONT", SignalAfter(hungup, "SIGHUP", sg))
               IN  [q \in Pids |-> s1[q] \cup IF q \in chld THEN {"SIGCHLD"} ELSE {}]
  /\ p_pptr' = pp
  /\ LeaveTerminal(p)
  /\ UNCHANGED <<groups, handlers, pc>>

Exit(p) == Free(p) /\ DoExit(p, signal)

(* do_signal, with the lowest signal that is pending. *)
Stop_Silent(p, sg) ==                  \* faulty: the parent gets no SIGCHLD
  /\ state' = [state EXCEPT ![p] = "stopped"]
  /\ exit_code' = [exit_code EXCEPT ![p] = "stop"]
  /\ signal' = sg
  /\ UNCHANGED <<p_pptr, groups, terminal, handlers, pc>>

Stop(p, sg) ==
  /\ state' = [state EXCEPT ![p] = "stopped"]
  /\ exit_code' = [exit_code EXCEPT ![p] = "stop"]
  /\ signal' = IF noCldStop[p_pptr[p]] THEN sg
               ELSE [sg EXCEPT ![p_pptr[p]] = @ \cup {"SIGCHLD"}]
  /\ UNCHANGED <<p_pptr, groups, terminal, handlers, pc>>

NextSignal(p) ==
  LET low == {"SIGHUP", "SIGCHLD", "SIGCONT", "SIGTSTP"}
      nr == [s \in low |-> CASE s = "SIGHUP" -> 1 [] s = "SIGCHLD" -> 17
                             [] s = "SIGCONT" -> 18 [] s = "SIGTSTP" -> 20]
  IN  CHOOSE s \in signal[p] : \A r \in signal[p] : nr[s] <= nr[r]

DoSignal(p) ==
  LET s == NextSignal(p)
      rest == [signal EXCEPT ![p] = @ \ {s}]
  IN
  /\ InUser(p) /\ signal[p] # {}
  /\ \/ /\ s \in {"SIGCHLD", "SIGCONT"} \cup ignored[p]
        /\ signal' = rest
        /\ UNCHANGED <<state, p_pptr, groups, terminal, handlers, exit_code, pc>>
     \/ s = "SIGTSTP" /\ s \notin ignored[p] /\ Stop(p, rest)
     \/ s = "SIGHUP" /\ s \notin ignored[p] /\ DoExit(p, rest)

-----------------------------------------------------------------------------
WaitPid(p) ==
  /\ InUser(p) /\ p \in Waiters
  /\ \E how \in IF p = Init1 THEN {"wait"} ELSE {"wait", "untraced"} : pc' = [pc EXCEPT ![p] = how]
  /\ UNCHANGED <<state, p_pptr, groups, terminal, signals, exit_code>>

(* sys_waitpid from "repeat:" on, for any child. *)
Return(p) == pc' = [pc EXCEPT ![p] = "user"]

Reportable(p, c) == state[c] = "stopped" /\ pc[p] = "untraced" /\ exit_code[c] # "none"

ReportStop(p) ==
  \E c \in Children(p) :
    /\ Reportable(p, c)
    /\ Return(p)
    /\ exit_code' = [exit_code EXCEPT ![c] = "none"]
    /\ UNCHANGED <<state, p_pptr, groups, terminal, signals>>

Reap(p) ==
  \E c \in Children(p) :
    /\ state[c] = "zombie"
    /\ Return(p)
    /\ state' = [state EXCEPT ![c] = "free"]
    /\ p_pptr' = [p_pptr EXCEPT ![c] = None]
    /\ pgrp' = [pgrp EXCEPT ![c] = None]
    /\ session' = [session EXCEPT ![c] = None]
    /\ leader' = [leader EXCEPT ![c] = FALSE]
    /\ tty' = [tty EXCEPT ![c] = FALSE]
    /\ signal' = [signal EXCEPT ![c] = {}]
    /\ ignored' = [ignored EXCEPT ![c] = {}]
    /\ noCldStop' = [noCldStop EXCEPT ![c] = FALSE]
    /\ exit_code' = [exit_code EXCEPT ![c] = "none"]
    /\ UNCHANGED <<tty_pgrp, tty_session, abandoned>>

Sleep(p) ==
  LET found == {c \in Children(p) : state[c] = "zombie" \/ Reportable(p, c)}
      others == {c \in Children(p) : state[c] \notin {"zombie", "stopped"}}
  IN
  /\ found = {}
  /\ \/ /\ others # {}
        /\ state' = [state EXCEPT ![p] = "interruptible"]
        /\ pc' = pc
     \/ others = {} /\ Return(p) /\ UNCHANGED state
  /\ UNCHANGED <<p_pptr, groups, terminal, signals, exit_code>>

Repeat(p) ==
  /\ state[p] = "running" /\ pc[p] # "user"
  /\ ReportStop(p) \/ Reap(p) \/ Sleep(p)

(* A signal wakes the sleeper; SIGCHLD makes it look again. *)
Wake(p) ==
  /\ state[p] = "interruptible" /\ signal[p] # {}
  /\ state' = [state EXCEPT ![p] = "running"]
  /\ pc' = IF signal[p] = {"SIGCHLD"} THEN pc ELSE [pc EXCEPT ![p] = "user"]
  /\ UNCHANGED <<p_pptr, groups, terminal, signals, exit_code>>

-----------------------------------------------------------------------------
Init ==
  /\ state = [p \in Pids |-> IF p = Init1 THEN "running" ELSE "free"]
  /\ p_pptr = [p \in Pids |-> None]
  /\ pgrp = [p \in Pids |-> None]
  /\ session = [p \in Pids |-> None]
  /\ leader = [p \in Pids |-> FALSE]
  /\ tty = [p \in Pids |-> FALSE]
  /\ signal = [p \in Pids |-> {}]
  /\ ignored = [p \in Pids |-> {}]
  /\ noCldStop = [p \in Pids |-> FALSE]
  /\ exit_code = [p \in Pids |-> "none"]
  /\ pc = [p \in Pids |-> "user"]
  /\ tty_pgrp = None /\ tty_session = None /\ abandoned = FALSE

Step(p) ==
  \/ Fork(p) \/ SetPgid(p) \/ SetSid(p) \/ OpenTty(p) \/ SetForeground(p) \/ Ignore(p)
  \/ SigAction(p) \/ Kill(p) \/ BackgroundRead(p) \/ Exit(p) \/ DoSignal(p)
  \/ WaitPid(p) \/ Repeat(p) \/ Wake(p)

Next == Suspend \/ \E p \in Pids : Step(p)

Spec == Init /\ [][Next]_vars

-----------------------------------------------------------------------------
(* The terminal belongs to the session of a living leader that has it or can
   be opened by one (do_exit), unless such a leader, the superuser's, has let
   go of it by a second setsid; and nobody of another session has it. *)
TerminalHasLeader ==
  /\ tty_session # None /\ ~abandoned =>
       \E p \in Pids : leader[p] /\ tty[p] /\ session[p] = tty_session /\ state[p] # "zombie"
  /\ \A p \in Pids : tty[p] => session[p] = tty_session

(* An exit leaves nobody stopped in a group that it orphans, whichever of the
   two ways it does, and those it wakes are told to hang up. *)
FreesStopped ==
  \A p, q \in Pids :
    /\ state[p] # "zombie" /\ state'[p] = "zombie"
    /\ state[q] = "stopped" /\ pgrp[q] # None
    /\ ~IsOrphanedPgrp(pgrp[q], state, p_pptr)
    /\ IsOrphanedPgrp(pgrp[q], state', p_pptr')
    => state'[q] = "running" /\ "SIGHUP" \in signal'[q] \cup ignored[q]

ExitFreesStopped == [][FreesStopped]_vars

(* A task that waits with WUNTRACED, and has not asked with SA_NOCLDSTOP to
   hear nothing, does not sleep on while a child is stopped that it has not
   been told of: a signal is pending that wakes it, also if the child
   stopped, went on and stopped again while it slept. *)
TellsOfStops ==
  \A p \in Pids :
    state[p] = "interruptible" /\ ~noCldStop[p] /\ (\E c \in Children(p) : Reportable(p, c)) => signal[p] # {}

=============================================================================
