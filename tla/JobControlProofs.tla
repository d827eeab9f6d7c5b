-------------------------- MODULE JobControlProofs --------------------------
(***************************************************************************)
(* Proofs about job control for any set of pids: the terminal always has a *)
(* living leader, an exit leaves nobody stopped in a group it orphans, and *)
(* waitpid is told of stops.                                               *)
(***************************************************************************)
EXTENDS JobControl, TLAPS

JobTypeOK ==
  /\ state \in [Pids -> {"free", "running", "interruptible", "stopped", "zombie"}]
  /\ DOMAIN p_pptr = Pids
  /\ pgrp \in [Pids -> Pids \cup {None}]
  /\ session \in [Pids -> Pids \cup {None}]
  /\ leader \in [Pids -> BOOLEAN]
  /\ tty \in [Pids -> BOOLEAN]
  /\ DOMAIN signal = Pids
  /\ noCldStop \in [Pids -> BOOLEAN]
  /\ DOMAIN exit_code = Pids
  /\ DOMAIN pc = Pids

(* Who has a terminal has the one that is in use, and a leader leads the
   session that has its pid, so that no session has two. *)
LeadersLead ==
  \A p \in Pids :
    /\ state[p] = "free" => ~leader[p] /\ ~tty[p]
    /\ leader[p] => session[p] = p
    /\ tty[p] => tty_session # None

(* Init waits for the ends of its children only. *)
InitWaits == pc[Init1] # "untraced"

IInv == JobTypeOK /\ LeadersLead /\ InitWaits /\ TerminalHasLeader /\ TellsOfStops

-----------------------------------------------------------------------------
(* What send_sig does to the tasks: the stopped go on or stay as they are,
   and whoever had a signal pending still has one. *)
LEMMA Signalling ==
  ASSUME NEW Q, NEW s, NEW st, NEW ec, NEW sg
  PROVE  /\ \A p \in Pids : \/ StateAfter(Q, s, st)[p] = st[p]
                            \/ st[p] = "stopped" /\ StateAfter(Q, s, st)[p] = "running"
         /\ \A p \in Pids : ExitCodeAfter(Q, s, ec)[p] \in {ec[p], "none"}
         /\ \A p \in Pids : sg[p] # {} => SignalAfter(Q, s, sg)[p] # {}
         /\ DOMAIN StateAfter(Q, s, st) = Pids
         /\ DOMAIN ExitCodeAfter(Q, s, ec) = Pids
         /\ DOMAIN SignalAfter(Q, s, sg) = Pids
  BY DEF StateAfter, ExitCodeAfter, SignalAfter

LEMMA InitIInv == Init => IInv
  BY JobControlAssumption
     DEF Init, IInv, JobTypeOK, LeadersLead, InitWaits, TerminalHasLeader,
         TellsOfStops, Children, Tasks, Reportable

-----------------------------------------------------------------------------
(* Steps that leave sessions, the terminal and waitpid alone, end no task and
   make nobody wait, and after which what is stopped was stopped before. *)
LEMMA QuietStep ==
  ASSUME IInv, UNCHANGED <<p_pptr, session, leader, tty, tty_session, abandoned, pc>>,
         noCldStop' \in [Pids -> BOOLEAN],
         \A p \in Pids : state[p] = "interruptible" => noCldStop'[p] = noCldStop[p],
         pgrp' \in [Pids -> Pids \cup {None}],
         state' \in [Pids -> {"free", "running", "interruptible", "stopped", "zombie"}],
         DOMAIN signal' = Pids, DOMAIN exit_code' = Pids,
         \A p \in Pids : \/ state'[p] = state[p]
                         \/ state[p] = "stopped" /\ state'[p] = "running",
         \A p \in Pids : exit_code'[p] \in {exit_code[p], "none"},
         \A p \in Pids : state[p] = "interruptible" /\ signal[p] # {} => signal'[p] # {}
  PROVE  IInv'
  <1>1. JobTypeOK' /\ InitWaits'
    BY DEF IInv, JobTypeOK, InitWaits
  <1>2. LeadersLead' /\ TerminalHasLeader'
    BY DEF IInv, LeadersLead, TerminalHasLeader
  <1>3. TellsOfStops'
    <2> SUFFICES ASSUME NEW p \in Pids, state'[p] = "interruptible",
                        ~noCldStop'[p], NEW c \in Children(p)', Reportable(p, c)'
                 PROVE  signal'[p] # {}
      BY DEF TellsOfStops
    <2>1. /\ state[p] = "interruptible" /\ ~noCldStop[p]
          /\ c \in Children(p) /\ Reportable(p, c)
      BY DEF Children, Tasks, Reportable
    <2> QED BY <2>1 DEF IInv, TellsOfStops
  <1> QED BY <1>1, <1>2, <1>3 DEF IInv

LEMMA SendSigStep ==
  ASSUME IInv, NEW Q, NEW s, SendSig(Q, s),
         UNCHANGED <<p_pptr, groups, terminal, handlers, pc>>
  PROVE  IInv'
  <1>1. state' \in [Pids -> {"free", "running", "interruptible", "stopped", "zombie"}]
    BY DEF SendSig, StateAfter, IInv, JobTypeOK
  <1>2. /\ \A p \in Pids : \/ state'[p] = state[p]
                           \/ state[p] = "stopped" /\ state'[p] = "running"
        /\ \A p \in Pids : exit_code'[p] \in {exit_code[p], "none"}
        /\ \A p \in Pids : signal[p] # {} => signal'[p] # {}
        /\ DOMAIN signal' = Pids /\ DOMAIN exit_code' = Pids
    BY Signalling DEF SendSig
  <1> QED
    BY <1>1, <1>2, QuietStep DEF groups, terminal, handlers, IInv, JobTypeOK


-----------------------------------------------------------------------------
(* The child is in the session of its parent and leads none; it is new, so
   that no leader was it. *)
LEMMA ForkStep ==
  ASSUME IInv, NEW p \in Pids, Fork(p)
  PROVE  IInv'
  <1>1. PICK c \in Pids \ Tasks :
          /\ state' = [state EXCEPT ![c] = "running"]
          /\ p_pptr' = [p_pptr EXCEPT ![c] = p]
          /\ pgrp' = [pgrp EXCEPT ![c] = pgrp[p]]
          /\ session' = [session EXCEPT ![c] = session[p]]
          /\ leader' = [leader EXCEPT ![c] = FALSE]
          /\ tty' = [tty EXCEPT ![c] = tty[p]]
          /\ signal' = [signal EXCEPT ![c] = {}]
          /\ exit_code' = [exit_code EXCEPT ![c] = exit_code[p]]
          /\ noCldStop' = [noCldStop EXCEPT ![c] = noCldStop[p]]
          /\ UNCHANGED <<pc, tty_session, abandoned>>
    BY DEF Fork
  <1>2. state[c] = "free" /\ ~leader[c] /\ ~tty[c]
    BY <1>1 DEF Tasks, IInv, LeadersLead
  <1>3. JobTypeOK' /\ InitWaits'
    BY <1>1 DEF IInv, JobTypeOK, InitWaits
  <1>4. LeadersLead'
    BY <1>1 DEF IInv, JobTypeOK, LeadersLead
  <1>5. TerminalHasLeader'
    BY <1>1, <1>2 DEF IInv, JobTypeOK, TerminalHasLeader
  <1>6. TellsOfStops'
    BY <1>1 DEF IInv, JobTypeOK, TellsOfStops, Children, Tasks, Reportable
  <1> QED BY <1>3, <1>4, <1>5, <1>6 DEF IInv

(* Who begins a session has led none, so that the terminal is not its; or it
   is the superuser's leader that abandons the terminal. *)
LEMMA SetSidStep ==
  ASSUME IInv, NEW p \in Pids, SetSid(p)
  PROVE  IInv'
  <1>1. JobTypeOK' /\ InitWaits' /\ LeadersLead'
    BY DEF SetSid, Free, InUser, signals, handlers, IInv, JobTypeOK, InitWaits, LeadersLead
  <1>2. TerminalHasLeader'
    BY DEF SetSid, IInv, JobTypeOK, TerminalHasLeader
  <1>3. TellsOfStops'
    BY DEF SetSid, signals, handlers, IInv, TellsOfStops, Children, Tasks, Reportable
  <1> QED BY <1>1, <1>2, <1>3 DEF IInv

LEMMA OpenTtyStep ==
  ASSUME IInv, NEW p \in Pids, OpenTty(p)
  PROVE  IInv'
  <1>1. session[p] = p /\ p # None /\ state[p] = "running"
    BY JobControlAssumption DEF OpenTty, Free, InUser, IInv, LeadersLead
  <1>2. JobTypeOK' /\ InitWaits' /\ LeadersLead'
    BY <1>1 DEF OpenTty, groups, signals, handlers, IInv, JobTypeOK, InitWaits, LeadersLead
  <1>3. TerminalHasLeader'
    BY <1>1 DEF OpenTty, groups, IInv, JobTypeOK, LeadersLead, TerminalHasLeader
  <1>4. TellsOfStops'
    BY DEF OpenTty, signals, handlers, IInv, TellsOfStops, Children, Tasks, Reportable
  <1> QED BY <1>2, <1>3, <1>4 DEF IInv

(* The calls that change groups, the foreground or what a task is told of. *)
LEMMA GroupSteps ==
  ASSUME IInv, NEW p \in Pids, SetPgid(p) \/ SetForeground(p) \/ Ignore(p) \/ SigAction(p)
  PROVE  IInv'
  <1>1. UNCHANGED <<state, p_pptr, session, leader, tty, tty_session, abandoned, signal,
                    exit_code, pc>>
    BY DEF SetPgid, SetForeground, Ignore, SigAction, groups, terminal, signals
  <1>2. pgrp' \in [Pids -> Pids \cup {None}]
    BY DEF SetPgid, SetForeground, Ignore, SigAction, groups, IInv, JobTypeOK
  <1>3. /\ noCldStop' \in [Pids -> BOOLEAN]
        /\ \A q \in Pids : state[q] = "interruptible" => noCldStop'[q] = noCldStop[q]
    BY DEF SetPgid, SetForeground, Ignore, SigAction, Free, InUser, signals, handlers,
           IInv, JobTypeOK
  <1> QED BY <1>1, <1>2, <1>3, QuietStep DEF IInv, JobTypeOK

LEMMA KillSteps ==
  ASSUME IInv, NEW p \in Pids, Kill(p) \/ BackgroundRead(p) \/ Suspend
  PROVE  IInv'
  BY SendSigStep DEF Kill, BackgroundRead, Suspend


-----------------------------------------------------------------------------
(* The states, exit codes and signals after an exit. The children have gone
   to init, which does not wait for stops. *)
LEMMA ExitStates ==
  ASSUME IInv, NEW p \in Pids, state[p] = "running", NEW sg, DoExit(p, sg)
  PROVE  /\ state' \in [Pids -> {"free", "running", "interruptible", "stopped", "zombie"}]
         /\ state'[p] = "zombie"
         /\ \A q \in Pids \ {p} : \/ state'[q] = state[q]
                                  \/ state[q] = "stopped" /\ state'[q] = "running"
         /\ \A q \in Pids \ {p} : exit_code'[q] \in {exit_code[q], "none"}
         /\ \A q \in Pids : sg[q] # {} => signal'[q] # {}
         /\ DOMAIN signal' = Pids /\ DOMAIN exit_code' = Pids
         /\ p_pptr' = [q \in Pids |-> IF q \in Children(p) THEN Init1 ELSE p_pptr[q]]
  <1> DEFINE st == [state EXCEPT ![p] = "zombie"]
             ec == [exit_code EXCEPT ![p] = "exit"]
  <1>1. PICK released :
          /\ state' = StateAfter(released, "SIGCONT", st)
          /\ exit_code' = ExitCodeAfter(released, "SIGCONT", ec)
    BY DEF DoExit
  <1> DEFINE pp == [q \in Pids |-> IF q \in Children(p) THEN Init1 ELSE p_pptr[q]]
             stopped == {g \in NewlyOrphaned(p, st, pp) \ {None} :
                           \E q \in Members(g) : st[q] = "stopped"}
             r == UNION {Members(g) : g \in stopped}
             h == r \cup IF leader[p] /\ tty[p] THEN Members(tty_pgrp) ELSE {}
             chld == {p_pptr[p]} \cup
                       IF \E c \in Children(p) : st[c] = "zombie" THEN {Init1} ELSE {}
             hup == SignalAfter(h, "SIGHUP", sg)
  <1>2. signal' = [q \in Pids |-> SignalAfter(r, "SIGCONT", hup)[q]
                                    \cup IF q \in chld THEN {"SIGCHLD"} ELSE {}]
    BY Zenon DEF DoExit
  <1>3. DOMAIN signal' = Pids /\ \A q \in Pids : sg[q] # {} => signal'[q] # {}
    <2> HIDE DEF r, h, chld
    <2>1. \A q \in Pids : sg[q] # {} => hup[q] # {}
      BY DEF SignalAfter
    <2> HIDE DEF hup
    <2>2. \A q \in Pids : hup[q] # {} => SignalAfter(r, "SIGCONT", hup)[q] # {}
      BY DEF SignalAfter
    <2> QED BY <1>2, <2>1, <2>2
  <1>4. state' \in [Pids -> {"free", "running", "interruptible", "stopped", "zombie"}]
    BY <1>1 DEF StateAfter, IInv, JobTypeOK
  <1>5. /\ state'[p] = "zombie"
        /\ \A q \in Pids \ {p} : \/ state'[q] = state[q]
                                 \/ state[q] = "stopped" /\ state'[q] = "running"
    BY <1>1 DEF StateAfter, IInv, JobTypeOK
  <1>6. DOMAIN exit_code' = Pids /\ \A q \in Pids \ {p} : exit_code'[q] \in {exit_code[q], "none"}
    BY <1>1 DEF ExitCodeAfter, IInv, JobTypeOK
  <1> QED BY <1>3, <1>4, <1>5, <1>6 DEF DoExit

(* A leader takes the terminal from its whole session, if it is its session
   that has it; nobody else who exits is the one who keeps it. *)
LEMMA ExitTerminal ==
  ASSUME IInv, NEW p \in Pids, state[p] = "running", NEW sg, DoExit(p, sg)
  PROVE  LeadersLead' /\ TerminalHasLeader' /\ tty' \in [Pids -> BOOLEAN]
  <1>1. UNCHANGED <<session, leader, abandoned>> /\ LeaveTerminal(p)
    BY DEF DoExit, LeaveTerminal, groups, terminal
  <1>2. \A q \in Pids \ {p} : state'[q] = "zombie" => state[q] = "zombie"
    BY ExitStates
  <1>3. \A q \in Pids : state'[q] = "free" => state[q] = "free"
    BY ExitStates DEF IInv, JobTypeOK
  <1>4. CASE ~leader[p]
    BY <1>1, <1>2, <1>3, <1>4
       DEF LeaveTerminal, terminal, IInv, JobTypeOK, LeadersLead, TerminalHasLeader
  <1>5. CASE leader[p] /\ tty[p]
    <2>1. /\ tty_session' = None
          /\ tty' = [q \in Pids |-> tty[q] /\ session[q] # session[p]]
      BY <1>1, <1>5 DEF LeaveTerminal
    <2>2. \A q \in Pids : ~tty'[q]
      BY <1>5, <2>1 DEF IInv, TerminalHasLeader
    <2>3. tty' \in [Pids -> BOOLEAN]
      BY <2>1, <2>2
    <2> QED
      BY <1>1, <1>3, <2>1, <2>2, <2>3
         DEF IInv, JobTypeOK, LeadersLead, TerminalHasLeader
  <1>6. CASE leader[p] /\ ~tty[p]
    <2>1. /\ UNCHANGED tty_session
          /\ tty' = [q \in Pids |-> tty[q] /\ session[q] # session[p]]
      BY <1>1, <1>6 DEF LeaveTerminal
    <2>2. CASE ~abandoned
      <3>1. tty_session # None => tty_session # session[p]
        BY <1>6, <2>2 DEF IInv, LeadersLead, TerminalHasLeader
      <3>2. \A q \in Pids : tty[q] => session[q] # session[p]
        BY <3>1 DEF IInv, LeadersLead, TerminalHasLeader
      <3>3. tty' = tty
        BY <2>1, <3>2 DEF IInv, JobTypeOK
      <3> QED
        BY <1>1, <1>2, <1>3, <1>6, <2>1, <3>3
           DEF IInv, JobTypeOK, LeadersLead, TerminalHasLeader
    <2>3. CASE abandoned
      <3>1. tty' \in [Pids -> BOOLEAN] /\ \A q \in Pids : tty'[q] => tty[q]
        BY <2>1 DEF IInv, JobTypeOK
      <3> QED
        BY <1>1, <1>3, <2>1, <2>3, <3>1
           DEF IInv, JobTypeOK, LeadersLead, TerminalHasLeader
    <2> QED BY <2>2, <2>3
  <1> QED BY <1>4, <1>5, <1>6

LEMMA ExitStep ==
  ASSUME IInv, NEW p \in Pids, state[p] = "running", NEW sg, DoExit(p, sg),
         \A q \in Pids : state[q] = "interruptible" /\ signal[q] # {} => sg[q] # {}
  PROVE  IInv'
  <1>1. JobTypeOK' /\ InitWaits'
    <2>1. UNCHANGED <<pgrp, session, leader, noCldStop, pc>>
      BY DEF DoExit, groups, handlers
    <2> QED BY <2>1, ExitStates, ExitTerminal DEF IInv, JobTypeOK, InitWaits
  <1>2. TellsOfStops'
    <2> SUFFICES ASSUME NEW q \in Pids, state'[q] = "interruptible",
                        ~noCldStop'[q], NEW c \in Children(q)', Reportable(q, c)'
                 PROVE  signal'[q] # {}
      BY DEF TellsOfStops
    <2>1. pc' = pc /\ q # Init1 /\ noCldStop' = noCldStop
      BY DEF DoExit, Reportable, handlers, IInv, InitWaits
    <2>2. /\ q # p /\ state[q] = "interruptible"
          /\ c \in Pids /\ c # p /\ state[c] = "stopped" /\ exit_code[c] # "none"
          /\ p_pptr[c] = q
      BY <2>1, ExitStates DEF Children, Tasks, Reportable
    <2>3. signal[q] # {}
      BY <2>1, <2>2 DEF IInv, TellsOfStops, Children, Tasks, Reportable
    <2> QED BY <2>2, <2>3, ExitStates
  <1> QED BY <1>1, <1>2, ExitTerminal DEF IInv


-----------------------------------------------------------------------------
(* The parent gets SIGCHLD in the step in which the child stops. *)
LEMMA StopStep ==
  ASSUME IInv, NEW p \in Pids, state[p] = "running", NEW sg, DOMAIN sg = Pids, Stop(p, sg),
         \A q \in Pids \ {p} : sg[q] = signal[q]
  PROVE  IInv'
  <1>1. UNCHANGED <<p_pptr, pgrp, session, leader, tty, tty_session, abandoned, noCldStop, pc>>
    BY DEF Stop, groups, terminal, handlers
  <1>2. /\ state' = [state EXCEPT ![p] = "stopped"]
        /\ exit_code' = [exit_code EXCEPT ![p] = "stop"]
        /\ signal' = IF noCldStop[p_pptr[p]] THEN sg
                     ELSE [sg EXCEPT ![p_pptr[p]] = @ \cup {"SIGCHLD"}]
    BY DEF Stop
  <1>3. JobTypeOK' /\ InitWaits' /\ LeadersLead' /\ TerminalHasLeader'
    BY <1>1, <1>2 DEF IInv, JobTypeOK, InitWaits, LeadersLead, TerminalHasLeader
  <1>4. TellsOfStops'
    <2> SUFFICES ASSUME NEW q \in Pids, state'[q] = "interruptible",
                        ~noCldStop'[q], NEW c \in Children(q)', Reportable(q, c)'
                 PROVE  signal'[q] # {}
      BY DEF TellsOfStops
    <2>1. q # p /\ state[q] = "interruptible" /\ ~noCldStop[q]
      BY <1>1, <1>2 DEF IInv, JobTypeOK
    <2>2. CASE c = p
      BY <2>2, <1>1, <1>2 DEF Children
    <2>3. CASE c # p
      <3>1. c \in Children(q) /\ Reportable(q, c)
        BY <2>3, <1>1, <1>2 DEF Children, Tasks, Reportable, IInv, JobTypeOK
      <3>2. sg[q] # {}
        BY <3>1, <2>1 DEF IInv, TellsOfStops
      <3> QED BY <3>2, <1>2
    <2> QED BY <2>2, <2>3
  <1> QED BY <1>3, <1>4 DEF IInv

LEMMA DoSignalStep ==
  ASSUME IInv, NEW p \in Pids, DoSignal(p)
  PROVE  IInv'
  <1> DEFINE s == NextSignal(p)
             rest == [signal EXCEPT ![p] = @ \ {s}]
  <1>1. /\ state[p] = "running"
        /\ DOMAIN rest = Pids /\ \A q \in Pids \ {p} : rest[q] = signal[q]
    BY DEF DoSignal, InUser, IInv, JobTypeOK
  <1> HIDE DEF s
  <1>2. \/ signal' = rest /\ UNCHANGED <<state, p_pptr, groups, terminal, handlers, exit_code, pc>>
        \/ Stop(p, rest)
        \/ DoExit(p, rest)
    BY DEF DoSignal, s
  <1> HIDE DEF rest
  <1>3. CASE signal' = rest /\ UNCHANGED <<state, p_pptr, groups, terminal, handlers, exit_code, pc>>
    BY <1>1, <1>3, QuietStep DEF groups, terminal, handlers, IInv, JobTypeOK
  <1>4. CASE Stop(p, rest)
    BY <1>1, <1>4, StopStep
  <1>5. CASE DoExit(p, rest)
    <2>1. \A q \in Pids : state[q] = "interruptible" /\ signal[q] # {} => rest[q] # {}
      BY <1>1
    <2> QED BY <1>1, <1>5, <2>1, ExitStep
  <1> QED BY <1>2, <1>3, <1>4, <1>5

-----------------------------------------------------------------------------
(* Calls of waitpid, and wake-ups, of a task that is then awake. *)
LEMMA WaitSteps ==
  ASSUME IInv, NEW p \in Pids, WaitPid(p) \/ Wake(p)
  PROVE  IInv'
  <1>1. UNCHANGED <<p_pptr, pgrp, session, leader, tty, tty_session, abandoned, signal,
                    noCldStop, exit_code>>
    BY DEF WaitPid, Wake, groups, terminal, signals, handlers
  <1>2. /\ state' = [state EXCEPT ![p] = "running"]
        /\ state[p] \in {"running", "interruptible"}
        /\ DOMAIN pc' = Pids /\ \A q \in Pids \ {p} : pc'[q] = pc[q]
    BY DEF WaitPid, InUser, Wake, IInv, JobTypeOK
  <1>3. InitWaits'
    BY JobControlAssumption DEF WaitPid, Wake, IInv, JobTypeOK, InitWaits
  <1>4. JobTypeOK' /\ LeadersLead' /\ TerminalHasLeader'
    BY <1>1, <1>2 DEF IInv, JobTypeOK, LeadersLead, TerminalHasLeader
  <1>5. TellsOfStops'
    BY <1>1, <1>2 DEF IInv, JobTypeOK, TellsOfStops, Children, Tasks, Reportable
  <1> QED BY <1>3, <1>4, <1>5 DEF IInv

(* waitpid goes to sleep only when there is nothing to report. *)
LEMMA SleepStep ==
  ASSUME IInv, NEW p \in Pids, state[p] = "running", Sleep(p)
  PROVE  IInv'
  <1>1. UNCHANGED <<p_pptr, pgrp, session, leader, tty, tty_session, abandoned, signal,
                    noCldStop, exit_code>>
    BY DEF Sleep, groups, terminal, signals, handlers
  <1>2. /\ \A c \in Children(p) : ~Reportable(p, c)
        /\ \/ state' = [state EXCEPT ![p] = "interruptible"] /\ pc' = pc
           \/ Return(p) /\ UNCHANGED state
    BY DEF Sleep
  <1>3. /\ DOMAIN pc' = Pids /\ \A q \in Pids \ {p} : pc'[q] = pc[q]
        /\ state' # state => pc' = pc
        /\ InitWaits'
    <2>1. CASE state' = [state EXCEPT ![p] = "interruptible"] /\ pc' = pc
      BY <2>1 DEF IInv, JobTypeOK, InitWaits
    <2>2. CASE Return(p) /\ UNCHANGED state
      BY <2>2, JobControlAssumption DEF Return, IInv, JobTypeOK, InitWaits
    <2> QED BY <1>2, <2>1, <2>2
  <1>4. JobTypeOK' /\ LeadersLead' /\ TerminalHasLeader'
    BY <1>1, <1>2, <1>3 DEF IInv, JobTypeOK, LeadersLead, TerminalHasLeader
  <1>5. TellsOfStops'
    <2> SUFFICES ASSUME NEW q \in Pids, state'[q] = "interruptible",
                        ~noCldStop'[q], NEW c \in Children(q)', Reportable(q, c)'
                 PROVE  signal'[q] # {}
      BY DEF TellsOfStops
    <2>1. CASE q = p
      <3>1. state' # state
        BY <2>1
      <3>2. pc' = pc /\ state' = [state EXCEPT ![p] = "interruptible"]
        BY <3>1, <1>2, <1>3
      <3>3. c \in Children(p) /\ Reportable(p, c)
        BY <2>1, <3>2, <1>1 DEF Children, Tasks, Reportable, IInv, JobTypeOK
      <3> QED BY <3>3, <1>2
    <2>2. CASE q # p
      BY <2>2, <1>1, <1>2, <1>3
         DEF IInv, JobTypeOK, TellsOfStops, Children, Tasks, Reportable
    <2> QED BY <2>1, <2>2
  <1> QED BY <1>3, <1>4, <1>5 DEF IInv

LEMMA ReportStopStep ==
  ASSUME IInv, NEW p \in Pids, state[p] = "running", ReportStop(p)
  PROVE  IInv'
  <1>1. UNCHANGED <<state, p_pptr, pgrp, session, leader, tty, tty_session, abandoned, signal,
                    noCldStop>>
    BY DEF ReportStop, groups, terminal, signals, handlers
  <1>2. /\ DOMAIN exit_code' = Pids /\ \A q \in Pids : exit_code'[q] \in {exit_code[q], "none"}
        /\ pc' = [pc EXCEPT ![p] = "user"]
    BY DEF ReportStop, Return, IInv, JobTypeOK
  <1>3. JobTypeOK' /\ InitWaits' /\ LeadersLead' /\ TerminalHasLeader'
    BY <1>1, <1>2 DEF IInv, JobTypeOK, InitWaits, LeadersLead, TerminalHasLeader
  <1>4. TellsOfStops'
    BY <1>1, <1>2 DEF IInv, JobTypeOK, TellsOfStops, Children, Tasks, Reportable
  <1> QED BY <1>3, <1>4 DEF IInv

(* Only the dead are released, so that the leader who has the terminal stays. *)
LEMMA ReapStep ==
  ASSUME IInv, NEW p \in Pids, state[p] = "running", Reap(p)
  PROVE  IInv'
  <1>1. PICK c \in Children(p) :
          /\ state[c] = "zombie"
          /\ Return(p)
          /\ state' = [state EXCEPT ![c] = "free"]
          /\ p_pptr' = [p_pptr EXCEPT ![c] = None]
          /\ pgrp' = [pgrp EXCEPT ![c] = None]
          /\ session' = [session EXCEPT ![c] = None]
          /\ leader' = [leader EXCEPT ![c] = FALSE]
          /\ tty' = [tty EXCEPT ![c] = FALSE]
          /\ signal' = [signal EXCEPT ![c] = {}]
          /\ noCldStop' = [noCldStop EXCEPT ![c] = FALSE]
          /\ exit_code' = [exit_code EXCEPT ![c] = "none"]
          /\ UNCHANGED <<tty_session, abandoned>>
    BY DEF Reap
  <1>2. c \in Pids
    BY DEF Children, Tasks
  <1>3. JobTypeOK' /\ InitWaits'
    BY <1>1, <1>2 DEF Return, IInv, JobTypeOK, InitWaits
  <1>4. LeadersLead'
    BY <1>1, <1>2 DEF IInv, JobTypeOK, LeadersLead
  <1>5. TerminalHasLeader'
    BY <1>1, <1>2 DEF IInv, JobTypeOK, TerminalHasLeader
  <1>6. TellsOfStops'
    BY <1>1, <1>2, JobControlAssumption
       DEF Return, IInv, JobTypeOK, TellsOfStops, Children, Tasks, Reportable
  <1> QED BY <1>3, <1>4, <1>5, <1>6 DEF IInv

LEMMA NextIInv == IInv /\ [Next]_vars => IInv'
  <1> SUFFICES ASSUME IInv, [Next]_vars PROVE IInv'
    OBVIOUS
  <1>1. CASE Suspend
    BY <1>1, KillSteps, JobControlAssumption
  <1>2. ASSUME NEW p \in Pids, Step(p)
        PROVE  IInv'
    <2>1. CASE Exit(p)
      BY <2>1, ExitStep DEF Exit, Free, InUser
    <2>2. CASE Repeat(p)
      BY <2>2, SleepStep, ReportStopStep, ReapStep DEF Repeat
    <2> QED
      BY <1>2, <2>1, <2>2, ForkStep, SetSidStep, OpenTtyStep, GroupSteps, KillSteps,
         DoSignalStep, WaitSteps DEF Step
  <1>3. CASE UNCHANGED vars
    BY <1>3, QuietStep DEF vars, groups, terminal, signals, handlers, IInv, JobTypeOK
  <1> QED BY <1>1, <1>2, <1>3 DEF Next

-----------------------------------------------------------------------------
(* Whatever order tasks fork, begin sessions, open the terminal and exit in,
   the terminal is never left with a session whose leader has gone
   (do_exit, exit.c:364). *)
THEOREM TerminalAlwaysHasLeader == Spec => []TerminalHasLeader
  <1>1. IInv => TerminalHasLeader
    BY DEF IInv
  <1> QED BY <1>1, InitIInv, NextIInv, PTL DEF Spec

(* Nobody who waits with WUNTRACED sleeps on without a signal pending while
   a child is stopped and the stop not reported (do_signal and sys_waitpid). *)
THEOREM StopsAreTold == Spec => []TellsOfStops
  <1>1. IInv => TellsOfStops
    BY DEF IInv
  <1> QED BY <1>1, InitIInv, NextIInv, PTL DEF Spec

-----------------------------------------------------------------------------
(* Only an exit makes a zombie. *)
LEMMA ZombiesHaveExited ==
  ASSUME IInv, Next, NEW p \in Pids, state[p] # "zombie", state'[p] = "zombie"
  PROVE  state[p] = "running" /\ \E sg : (DOMAIN sg = Pids) /\ DoExit(p, sg)
  <1>1. ASSUME NEW Q, NEW s, SendSig(Q, s) PROVE FALSE
    BY <1>1, Signalling DEF SendSig
  <1>2. ~Suspend
    BY <1>1 DEF Suspend
  <1>3. PICK q \in Pids : Step(q)
    BY <1>2 DEF Next
  <1>4. ASSUME NEW sg, state[q] = "running", DoExit(q, sg) PROVE q = p
    BY <1>4, ExitStates
  <1>5. Exit(q) \/ DoSignal(q)
    <2>1. ~(Fork(q) \/ SetPgid(q) \/ SetSid(q) \/ OpenTty(q) \/ SetForeground(q) \/ Ignore(q)
              \/ SigAction(q))
      BY DEF Fork, SetPgid, SetSid, OpenTty, SetForeground, Ignore, SigAction, IInv, JobTypeOK
    <2>2. ~(Kill(q) \/ BackgroundRead(q))
      BY <1>1 DEF Kill, BackgroundRead
    <2>3. ~(WaitPid(q) \/ Repeat(q) \/ Wake(q))
      BY DEF WaitPid, Repeat, ReportStop, Reap, Sleep, Wake, IInv, JobTypeOK
    <2> QED BY <1>3, <2>1, <2>2, <2>3 DEF Step
  <1>6. CASE Exit(q)
    BY <1>4, <1>6 DEF Exit, Free, InUser, IInv, JobTypeOK
  <1>7. CASE DoSignal(q)
    <2> DEFINE rest == [signal EXCEPT ![q] = @ \ {NextSignal(q)}]
    <2>1. state[q] = "running" /\ DOMAIN rest = Pids
      BY <1>7 DEF DoSignal, InUser, IInv, JobTypeOK
    <2>2. state' = state \/ Stop(q, rest) \/ DoExit(q, rest)
      BY <1>7 DEF DoSignal
    <2>3. ~Stop(q, rest)
      BY DEF Stop, IInv, JobTypeOK
    <2> QED BY <1>4, <2>1, <2>2, <2>3
  <1> QED BY <1>5, <1>6, <1>7

(* If a group is orphaned by the exit then p was the last link to the outside
   or the parent of it: do_exit looks at both. *)
LEMMA ExitFrees ==
  ASSUME IInv, NEW p \in Pids, state[p] = "running", NEW sg, DoExit(p, sg),
         NEW q \in Pids, state[q] = "stopped", pgrp[q] # None,
         ~IsOrphanedPgrp(pgrp[q], state, p_pptr), IsOrphanedPgrp(pgrp[q], state', p_pptr')
  PROVE  state'[q] = "running" /\ "SIGHUP" \in signal'[q] \cup ignored[q]
  <1> DEFINE st == [state EXCEPT ![p] = "zombie"]
             pp == [x \in Pids |-> IF x \in Children(p) THEN Init1 ELSE p_pptr[x]]
             stopped == {g \in NewlyOrphaned(p, st, pp) \ {None} :
                           \E x \in Members(g) : st[x] = "stopped"}
             r == UNION {Members(g) : g \in stopped}
             h == r \cup IF leader[p] /\ tty[p] THEN Members(tty_pgrp) ELSE {}
             chld == {p_pptr[p]} \cup
                       IF \E c \in Children(p) : st[c] = "zombie" THEN {Init1} ELSE {}
             hup == SignalAfter(h, "SIGHUP", sg)
  <1>1. /\ p_pptr' = pp
        /\ state' = StateAfter(r, "SIGCONT", st)
        /\ signal' = [x \in Pids |-> SignalAfter(r, "SIGCONT", hup)[x]
                                       \cup IF x \in chld THEN {"SIGCHLD"} ELSE {}]
    BY Zenon DEF DoExit
  <1>2. IsOrphanedPgrp(pgrp[q], st, pp)
    <2>1. \A x \in Pids : state'[x] \in {"free", "zombie"} <=> st[x] \in {"free", "zombie"}
      BY <1>1 DEF StateAfter
    <2> HIDE DEF st, pp, r
    <2> QED BY <1>1, <2>1 DEF IsOrphanedPgrp
  <1>3. pgrp[q] \in NewlyOrphaned(p, st, pp)
    <2>1. PICK m \in Pids \ {Init1} :
            /\ pgrp[m] = pgrp[q] /\ state[m] \notin {"free", "zombie"}
            /\ p_pptr[m] # Init1
            /\ pgrp[p_pptr[m]] # pgrp[q] /\ session[p_pptr[m]] = session[m]
      BY DEF IsOrphanedPgrp
    <2>2. CASE m = p
      BY <1>2, <2>1, <2>2 DEF NewlyOrphaned
    <2>3. CASE m # p
      <3>1. st[m] = state[m]
        BY <2>3 DEF IInv, JobTypeOK
      <3>2. m \in Children(p)
        BY <1>2, <2>1, <3>1 DEF IsOrphanedPgrp
      <3>3. pgrp[q] \in Pids /\ p_pptr[m] = p
        BY <3>2 DEF Children, IInv, JobTypeOK
      <3> HIDE DEF st, pp
      <3> QED BY <1>2, <2>1, <3>2, <3>3 DEF NewlyOrphaned
    <2> QED BY <2>2, <2>3
  <1>4. q \in r
    <2>1. q \in Members(pgrp[q]) /\ st[q] = "stopped"
      BY DEF Members, Tasks, IInv, JobTypeOK
    <2>2. pgrp[q] \in stopped
      BY <1>3, <2>1
    <2> HIDE DEF stopped
    <2> QED BY <2>1, <2>2
  <1>5. state'[q] = "running"
    BY <1>1, <1>4 DEF StateAfter, IInv, JobTypeOK
  <1>6. "SIGHUP" \in signal'[q] \cup ignored[q]
    <2>1. q \in h
      BY <1>4
    <2> HIDE DEF r, h, chld
    <2>2. "SIGHUP" \in hup[q] \cup ignored[q]
      BY <2>1 DEF SignalAfter
    <2> HIDE DEF hup
    <2>3. "SIGHUP" \in SignalAfter(r, "SIGCONT", hup)[q] \cup ignored[q]
      BY <2>2 DEF SignalAfter, Cancelled
    <2> QED BY <1>1, <2>3
  <1> QED BY <1>5, <1>6

(* An exit leaves nobody stopped in a group that it orphans (do_exit,
   exit.c:303-346). *)
THEOREM NobodyIsLeftStopped == Spec => ExitFreesStopped
  <1>1. IInv /\ [Next]_vars => [FreesStopped]_vars
    <2> SUFFICES ASSUME IInv, Next, NEW p \in Pids, NEW q \in Pids,
                        state[p] # "zombie", state'[p] = "zombie",
                        state[q] = "stopped", pgrp[q] # None,
                        ~IsOrphanedPgrp(pgrp[q], state, p_pptr),
                        IsOrphanedPgrp(pgrp[q], state', p_pptr')
                 PROVE  state'[q] = "running" /\ "SIGHUP" \in signal'[q] \cup ignored[q]
      BY DEF FreesStopped
    <2> QED BY ZombiesHaveExited, ExitFrees
  <1> QED BY <1>1, InitIInv, NextIInv, PTL DEF Spec, ExitFreesStopped

=============================================================================
