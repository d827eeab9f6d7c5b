-------------------------- MODULE ProcessTreeProofs --------------------------
(***************************************************************************)
(* Proofs about the process tree, for any number of tasks, when there is   *)
(* memory enough for get_free_page not to sleep: after any order of forks, *)
(* exits, adoptions by init and waits, every task is in its parent's list  *)
(* of children, and the parent is alive; and do_exit finds init's list not *)
(* empty, to which it links the orphans without a look.                    *)
(*                                                                         *)
(* The lists are stated link by link (Family). What makes them finite and  *)
(* complete is that a task is older than its younger siblings: an age that *)
(* grows along p_osptr (Aged); what makes the links a tree, with init at   *)
(* its root, is a depth that grows from parent to child (Deep).            *)
(***************************************************************************)
EXTENDS ProcessTree, FiniteSetTheorems, WellFoundedInduction, TLAPS

(* A child belongs to the tree when copy_process has linked it. *)
Copying(q) == \E p \in TaskPages : pc[p] = "copy" /\ child[p] = q
Linked == {q \in Listed : ~Copying(q)}

TableOK ==
  /\ task \in [TaskSlots -> TaskPages \cup {NULL}]
  /\ task[1] = Init1
  /\ \A i, j \in TaskSlots : task[i] = task[j] /\ task[i] # NULL => i = j
  /\ used = Listed

DomainsOK ==
  /\ DOMAIN state = All /\ DOMAIN pc = All /\ DOMAIN nr = All /\ DOMAIN child = All
  /\ DOMAIN p_pptr = All /\ DOMAIN p_cptr = All /\ DOMAIN p_ysptr = All /\ DOMAIN p_osptr = All

(* Nobody runs between the beginning and the end of a fork. *)
ForksOK ==
  \A p \in TaskPages :
    /\ pc[p] \in {"fork", "copy"} => current = p /\ state[p] = "running" /\ p \in Listed
    /\ pc[p] = "fork" => nr[p] \in TaskSlots /\ task[nr[p]] = NULL
    /\ pc[p] = "copy" => /\ nr[p] \in TaskSlots /\ nr[p] # 1 /\ task[nr[p]] = child[p]
                         /\ child[p] \in TaskPages /\ state[child[p]] = "uninterruptible"

(* The links of the tasks of L, to each other and to the idle task. *)
Family(L, pp, cp, yp, op) ==
  /\ L \subseteq TaskPages /\ Init1 \in L
  /\ \A p \in L \cup {Idle} :
       cp[p] # NULL => cp[p] \in L /\ pp[cp[p]] = p /\ yp[cp[p]] = NULL
  /\ \A q \in L :
       /\ pp[q] \in L \cup {Idle}
       /\ pp[q] = Idle <=> q = Init1
       /\ op[q] # NULL => op[q] \in L /\ pp[op[q]] = pp[q] /\ yp[op[q]] = q
       /\ yp[q] # NULL => yp[q] \in L /\ op[yp[q]] = q
       /\ yp[q] = NULL => cp[pp[q]] = q

Kids(L, pp, p) == {q \in L : pp[q] = p}

(* Older siblings have a greater age; there is a greatest age. *)
IsAge(age, k, L, op) ==
  /\ age \in [All -> Nat] /\ k \in Nat
  /\ \A q \in All : age[q] < k
  /\ \A q \in L : op[q] # NULL => age[q] < age[op[q]]
Aged(L, op) == \E age, k : IsAge(age, k, L, op)

(* A task is farther from the root than its parent, and than init. *)
IsDepth(depth, L, pp) ==
  /\ depth \in [All -> Nat]
  /\ \A q \in L \ {Init1} : depth[pp[q]] < depth[q] /\ depth[Init1] < depth[q]
Deep(L, pp) == \E depth : IsDepth(depth, L, pp)

(* Who exits hands its children over, and init never exits. *)
ParentsLive(L, pp, st) ==
  /\ st[Init1] # "zombie" /\ st[Idle] # "zombie"
  /\ \A q \in L : st[pp[q]] # "zombie"

TreeInv ==
  /\ TableOK /\ DomainsOK /\ ForksOK
  /\ Family(Linked, p_pptr, p_cptr, p_ysptr, p_osptr)
  /\ Aged(Linked, p_osptr) /\ Deep(Linked, p_pptr)
  /\ ParentsLive(Linked, p_pptr, state)

(* The three changes of the lists, and what they keep. *)

(* The child q of p is linked before its siblings (fork.c:148). *)
Born(p, q, pp, cp, yp, op, pp2, cp2, yp2, op2) ==
  \A r \in All :
    /\ pp2[r] = IF r = q THEN p ELSE pp[r]
    /\ op2[r] = IF r = q THEN cp[p] ELSE op[r]
    /\ yp2[r] = IF r = q THEN NULL ELSE IF r = cp[p] THEN q ELSE yp[r]
    /\ cp2[r] = IF r = p THEN q ELSE IF r = q THEN NULL ELSE cp[r]

(* The children of p, e the eldest, are linked before those of init. *)
Adopted(p, kids, e, pp, cp, yp, op, pp2, cp2, yp2, op2) ==
  \A r \in All :
    /\ pp2[r] = IF r \in kids THEN Init1 ELSE pp[r]
    /\ op2[r] = IF r = e THEN cp[Init1] ELSE op[r]
    /\ yp2[r] = IF r = cp[Init1] THEN e ELSE yp[r]
    /\ cp2[r] = IF r = p THEN NULL ELSE IF r = Init1 THEN cp[p] ELSE cp[r]

(* c is taken out (exit.c:22). *)
Reaped(c, pp, cp, yp, op, pp2, cp2, yp2, op2) ==
  \A r \in All :
    /\ pp2[r] = IF r = c THEN NULL ELSE pp[r]
    /\ op2[r] = IF r = c THEN NULL ELSE IF r = yp[c] THEN op[c] ELSE op[r]
    /\ yp2[r] = IF r = c THEN NULL ELSE IF r = op[c] THEN yp[c] ELSE yp[r]
    /\ cp2[r] = IF yp[c] = NULL /\ r = pp[c] THEN op[c] ELSE cp[r]

LEMMA Names ==
  ASSUME ProcessTreeAssumption
  PROVE  /\ Init1 \in TaskPages /\ Idle \notin TaskPages /\ NULL \notin TaskPages /\ NULL # Idle
         /\ All = TaskPages \cup {Idle} /\ 1 \in TaskSlots
  BY DEF ProcessTreeAssumption, All, TaskSlots

LEMMA BornFamily ==
  ASSUME ProcessTreeAssumption,
         NEW L, NEW pp, NEW cp, NEW yp, NEW op, NEW pp2, NEW cp2, NEW yp2, NEW op2,
         Family(L, pp, cp, yp, op), NEW p \in L, NEW q \in TaskPages, q \notin L,
         Born(p, q, pp, cp, yp, op, pp2, cp2, yp2, op2)
  PROVE  Family(L \cup {q}, pp2, cp2, yp2, op2)
  <1> DEFINE M == L \cup {q}
  <1>1. /\ M \subseteq TaskPages /\ M \subseteq All /\ Idle \in All /\ Init1 \in L
        /\ q # Init1 /\ p # q /\ q # Idle /\ p # Idle /\ NULL \notin All /\ L \subseteq TaskPages
    BY Names DEF Family
  <1>2. ASSUME NEW r \in M \cup {Idle}, cp2[r] # NULL
        PROVE  cp2[r] \in M /\ pp2[cp2[r]] = r /\ yp2[cp2[r]] = NULL
    <2>1. CASE r = p
      BY <1>1, <1>2, <2>1 DEF Born
    <2>2. CASE r # p
      <3>1. r # q /\ cp2[r] = cp[r]
        BY <1>1, <1>2, <2>2 DEF Born
      <3>2. cp[r] \in L /\ pp[cp[r]] = r /\ yp[cp[r]] = NULL
        BY <1>2, <3>1 DEF Family
      <3>3. cp[r] # cp[p]
        BY <1>1, <1>2, <2>2, <3>1, <3>2 DEF Family
      <3> QED BY <1>1, <3>1, <3>2, <3>3 DEF Born
    <2> QED BY <2>1, <2>2
  <1>3. ASSUME NEW r \in M PROVE pp2[r] \in M \cup {Idle} /\ (pp2[r] = Idle <=> r = Init1)
    BY <1>1 DEF Born, Family
  <1>4. ASSUME NEW r \in M, op2[r] # NULL
        PROVE  op2[r] \in M /\ pp2[op2[r]] = pp2[r] /\ yp2[op2[r]] = r
    <2>1. CASE r = q
      <3>1. op2[r] = cp[p] /\ cp[p] \in L /\ pp[cp[p]] = p
        BY <1>1, <1>4, <2>1 DEF Born, Family
      <3> QED BY <1>1, <2>1, <3>1 DEF Born
    <2>2. CASE r # q
      <3>1. op2[r] = op[r] /\ op[r] \in L /\ pp[op[r]] = pp[r] /\ yp[op[r]] = r /\ r \in L
        BY <1>1, <1>4, <2>2 DEF Born, Family
      <3>2. op[r] # cp[p]
        BY <1>1, <3>1 DEF Family
      <3> QED BY <1>1, <2>2, <3>1, <3>2 DEF Born
    <2> QED BY <2>1, <2>2
  <1>5. ASSUME NEW r \in M, yp2[r] # NULL PROVE yp2[r] \in M /\ op2[yp2[r]] = r
    <2>1. r # q
      BY <1>1, <1>5 DEF Born
    <2>2. CASE r = cp[p]
      BY <1>1, <2>1, <2>2 DEF Born
    <2>3. CASE r # cp[p]
      <3>1. yp2[r] = yp[r] /\ yp[r] \in L /\ op[yp[r]] = r
        BY <1>1, <1>5, <2>1, <2>3 DEF Born, Family
      <3> QED BY <1>1, <3>1 DEF Born
    <2> QED BY <2>2, <2>3
  <1>6. ASSUME NEW r \in M, yp2[r] = NULL PROVE cp2[pp2[r]] = r
    <2>1. CASE r = q
      BY <1>1, <2>1 DEF Born
    <2>2. CASE r # q
      <3>1. r # cp[p] /\ yp[r] = NULL
        BY <1>1, <1>6, <2>2 DEF Born
      <3>2. cp[pp[r]] = r /\ pp[r] # p /\ pp[r] # q /\ pp[r] \in All /\ pp2[r] = pp[r]
        BY <1>1, <2>2, <3>1 DEF Born, Family
      <3> QED BY <3>2 DEF Born
    <2> QED BY <2>1, <2>2
  <1> HIDE DEF M
  <1>7. M \subseteq TaskPages /\ Init1 \in M
    BY <1>1 DEF M
  <1>8. Family(M, pp2, cp2, yp2, op2)
    BY <1>2, <1>3, <1>4, <1>5, <1>6, <1>7 DEF Family
  <1> QED BY <1>8 DEF M

LEMMA BornAged ==
  ASSUME ProcessTreeAssumption,
         NEW L, NEW pp, NEW cp, NEW yp, NEW op, NEW pp2, NEW cp2, NEW yp2, NEW op2,
         Family(L, pp, cp, yp, op), NEW p \in L, NEW q \in TaskPages, q \notin L,
         Born(p, q, pp, cp, yp, op, pp2, cp2, yp2, op2),
         Aged(L, op), Deep(L, pp)
  PROVE  Aged(L \cup {q}, op2) /\ Deep(L \cup {q}, pp2)
  <1>0. /\ L \subseteq All /\ q \in All /\ Idle \in All /\ Init1 \in L /\ q # Init1 /\ q # p /\ NULL \notin All
    BY Names DEF Family
  <1>1. PICK age, k : IsAge(age, k, L, op)
    BY DEF Aged
  <1> DEFINE age2 == [r \in All |-> IF r = q THEN 0 ELSE age[r] + 1]
  <1>2. age2 \in [All -> Nat] /\ k + 1 \in Nat /\ \A r \in All : age2[r] < k + 1
    BY <1>1 DEF IsAge
  <1>3. ASSUME NEW r \in L \cup {q}, op2[r] # NULL PROVE age2[r] < age2[op2[r]]
    <2>1. CASE r = q
      <3>1. op2[r] = cp[p] /\ cp[p] \in L
        BY <1>0, <1>3, <2>1 DEF Born, Family
      <3>2. age[cp[p]] \in Nat /\ cp[p] # q /\ cp[p] \in All
        BY <1>0, <1>1, <3>1 DEF IsAge
      <3> QED BY <1>0, <2>1, <3>1, <3>2
    <2>2. CASE r # q
      <3>1. op2[r] = op[r] /\ op[r] \in L /\ r \in L
        BY <1>0, <1>3, <2>2 DEF Born, Family
      <3>2. age[r] < age[op[r]] /\ age[r] \in Nat /\ age[op[r]] \in Nat /\ op[r] # q
        BY <1>0, <1>1, <1>3, <3>1 DEF IsAge
      <3> QED BY <1>0, <2>2, <3>1, <3>2
    <2> QED BY <2>1, <2>2
  <1>4. IsAge(age2, k + 1, L \cup {q}, op2)
    <2> HIDE DEF age2
    <2> QED BY <1>2, <1>3 DEF IsAge
  <1>5. PICK depth : IsDepth(depth, L, pp)
    BY DEF Deep
  <1> DEFINE depth2 == [depth EXCEPT ![q] = depth[p] + 1]
  <1>6. IsDepth(depth2, L \cup {q}, pp2)
    <2>1. depth \in [All -> Nat] /\ depth2 \in [All -> Nat] /\ depth2[q] = depth[p] + 1
      BY <1>0, <1>5 DEF IsDepth
    <2>2. \A r \in All : r # q => depth2[r] = depth[r]
      BY <2>1
    <2>3. ASSUME NEW r \in (L \cup {q}) \ {Init1}
          PROVE  depth2[pp2[r]] < depth2[r] /\ depth2[Init1] < depth2[r]
      <3>1. CASE r = q
        <4>1. pp2[r] = p /\ depth2[p] = depth[p] /\ depth2[Init1] = depth[Init1]
          BY <1>0, <2>2, <3>1 DEF Born
        <4>2. depth[Init1] <= depth[p]
          BY <1>0, <1>5, <2>1 DEF IsDepth
        <4>3. depth[p] \in Nat /\ depth[Init1] \in Nat
          BY <1>0, <2>1
        <4> HIDE DEF depth2
        <4> QED BY <2>1, <3>1, <4>1, <4>2, <4>3
      <3>2. CASE r # q
        <4>1. pp2[r] = pp[r] /\ pp[r] \in All /\ pp[r] # q /\ r \in L
          BY <1>0, <3>2 DEF Born, Family
        <4> HIDE DEF depth2
        <4> QED BY <1>0, <1>5, <2>2, <3>2, <4>1 DEF IsDepth
      <3> QED BY <3>1, <3>2
    <2> HIDE DEF depth2
    <2> QED BY <2>1, <2>3 DEF IsDepth
  <1> QED BY <1>4, <1>6 DEF Aged, Deep

LEMMA AdoptedFamily ==
  ASSUME ProcessTreeAssumption,
         NEW L, NEW pp, NEW cp, NEW yp, NEW op, NEW pp2, NEW cp2, NEW yp2, NEW op2,
         Family(L, pp, cp, yp, op), NEW p \in L, p # Init1,
         NEW e \in Kids(L, pp, p), op[e] = NULL,
         Adopted(p, Kids(L, pp, p), e, pp, cp, yp, op, pp2, cp2, yp2, op2)
  PROVE  Family(L, pp2, cp2, yp2, op2)
  <1> DEFINE h == cp[Init1]
             kids == Kids(L, pp, p)
  <1>1. /\ L \subseteq TaskPages /\ L \subseteq All /\ Idle \in All /\ Init1 \in L
        /\ p # Idle /\ Init1 # Idle /\ NULL \notin All /\ e \in L /\ e \in kids /\ pp[e] = p
        /\ pp[Init1] = Idle /\ Init1 \notin kids
        /\ \A r \in L : r \in kids <=> pp[r] = p
    BY Names DEF Family, Kids
  <1>2. h # NULL => h \in L /\ pp[h] = Init1 /\ yp[h] = NULL /\ h \notin kids
    BY <1>1 DEF Family, Kids
  <1>3. \A r \in All :
          /\ pp2[r] = IF r \in kids THEN Init1 ELSE pp[r]
          /\ op2[r] = IF r = e THEN h ELSE op[r]
          /\ yp2[r] = IF r = h THEN e ELSE yp[r]
          /\ cp2[r] = IF r = p THEN NULL ELSE IF r = Init1 THEN cp[p] ELSE cp[r]
    BY DEF Adopted
  <1> HIDE DEF h, kids
  <1>4. ASSUME NEW r \in L \cup {Idle}, cp2[r] # NULL
        PROVE  cp2[r] \in L /\ pp2[cp2[r]] = r /\ yp2[cp2[r]] = NULL
    <2>1. CASE r = Init1
      <3>1. cp2[r] = cp[p] /\ cp[p] \in L /\ pp[cp[p]] = p /\ yp[cp[p]] = NULL
        BY <1>1, <1>3, <1>4, <2>1 DEF Family
      <3>2. cp[p] # h
        BY <1>1, <1>2, <3>1
      <3> QED BY <1>1, <1>3, <2>1, <3>1, <3>2
    <2>2. CASE r # Init1
      <3>1. r # p /\ cp2[r] = cp[r] /\ cp[r] \in L /\ pp[cp[r]] = r /\ yp[cp[r]] = NULL
        BY <1>1, <1>3, <1>4, <2>2 DEF Family
      <3>2. cp[r] # h /\ cp[r] \notin kids
        BY <1>1, <1>2, <2>2, <3>1
      <3> QED BY <1>1, <1>3, <3>1, <3>2
    <2> QED BY <2>1, <2>2
  <1>5. ASSUME NEW r \in L PROVE pp2[r] \in L \cup {Idle} /\ (pp2[r] = Idle <=> r = Init1)
    BY <1>1, <1>3 DEF Family
  <1>6. ASSUME NEW r \in L, op2[r] # NULL
        PROVE  op2[r] \in L /\ pp2[op2[r]] = pp2[r] /\ yp2[op2[r]] = r
    <2>1. CASE r = e
      <3>1. op2[r] = h /\ h \in L
        BY <1>1, <1>2, <1>3, <1>6, <2>1
      <3> QED BY <1>1, <1>2, <1>3, <2>1, <3>1
    <2>2. CASE r # e
      <3>1. op2[r] = op[r] /\ op[r] \in L /\ pp[op[r]] = pp[r] /\ yp[op[r]] = r
        BY <1>1, <1>3, <1>6, <2>2 DEF Family
      <3>2. op[r] # h
        BY <1>1, <1>2, <3>1
      <3> QED BY <1>1, <1>3, <3>1, <3>2
    <2> QED BY <2>1, <2>2
  <1>7. ASSUME NEW r \in L, yp2[r] # NULL PROVE yp2[r] \in L /\ op2[yp2[r]] = r
    <2>1. CASE r = h
      BY <1>1, <1>3, <2>1
    <2>2. CASE r # h
      <3>1. yp2[r] = yp[r] /\ yp[r] \in L /\ op[yp[r]] = r
        BY <1>1, <1>3, <1>7, <2>2 DEF Family
      <3> QED BY <1>1, <1>3, <3>1
    <2> QED BY <2>1, <2>2
  <1>8. ASSUME NEW r \in L, yp2[r] = NULL PROVE cp2[pp2[r]] = r
    <2>1. r # h /\ yp[r] = NULL /\ cp[pp[r]] = r /\ pp[r] \in All
      BY <1>1, <1>3, <1>8 DEF Family
    <2>2. CASE r \in kids
      BY <1>1, <1>3, <2>1, <2>2
    <2>3. CASE r \notin kids
      <3>1. pp2[r] = pp[r] /\ pp[r] # p /\ pp[r] # Init1
        BY <1>1, <1>3, <2>1, <2>3 DEF h
      <3> QED BY <1>3, <2>1, <3>1
    <2> QED BY <2>2, <2>3
  <1> QED BY <1>1, <1>4, <1>5, <1>6, <1>7, <1>8 DEF Family

LEMMA AdoptedAged ==
  ASSUME ProcessTreeAssumption,
         NEW L, NEW pp, NEW cp, NEW yp, NEW op, NEW pp2, NEW cp2, NEW yp2, NEW op2,
         Family(L, pp, cp, yp, op), NEW p \in L, p # Init1,
         NEW e \in Kids(L, pp, p), op[e] = NULL,
         Adopted(p, Kids(L, pp, p), e, pp, cp, yp, op, pp2, cp2, yp2, op2),
         Aged(L, op), Deep(L, pp)
  PROVE  Aged(L, op2) /\ Deep(L, pp2)
  <1>0. /\ L \subseteq All /\ e \in L /\ pp[e] = p /\ Init1 \in L /\ NULL \notin All
        /\ \A r \in L : r \in Kids(L, pp, p) <=> pp[r] = p
    BY Names DEF Family, Kids
  <1>1. PICK age, k : IsAge(age, k, L, op)
    BY DEF Aged
  <1> DEFINE age2 == [r \in All |-> IF pp[r] = Init1 THEN age[r] + k ELSE age[r]]
  <1>2. age2 \in [All -> Nat] /\ k + k \in Nat /\ \A r \in All : age2[r] < k + k
    BY <1>1 DEF IsAge
  <1>3. ASSUME NEW r \in L, op2[r] # NULL PROVE age2[r] < age2[op2[r]]
    <2>1. CASE r = e
      <3>1. op2[r] = cp[Init1] /\ cp[Init1] \in L /\ pp[cp[Init1]] = Init1
        BY <1>0, <1>3, <2>1 DEF Adopted, Family
      <3> DEFINE x == cp[Init1]
      <3>2. age[e] \in Nat /\ age[e] < k /\ age[x] \in Nat /\ k \in Nat
        BY <1>0, <1>1, <3>1 DEF IsAge
      <3>3. age2[e] = age[e] /\ age2[x] = age[x] + k
        BY <1>0, <3>1
      <3> HIDE DEF age2, x
      <3>4. age2[e] < age2[x]
        BY <3>2, <3>3
      <3> QED BY <2>1, <3>1, <3>4 DEF x
    <2>2. CASE r # e
      <3>1. op2[r] = op[r] /\ op[r] \in L /\ pp[op[r]] = pp[r]
        BY <1>0, <1>3, <2>2 DEF Adopted, Family
      <3> DEFINE x == op[r]
      <3>2. age[r] < age[x] /\ age[r] \in Nat /\ age[x] \in Nat /\ k \in Nat
        BY <1>0, <1>1, <1>3, <3>1 DEF IsAge
      <3>3. age2[r] < age2[x]
        BY <1>0, <3>1, <3>2
      <3> QED BY <3>1, <3>3
    <2> QED BY <2>1, <2>2
  <1>4. IsAge(age2, k + k, L, op2)
    <2> HIDE DEF age2
    <2> QED BY <1>2, <1>3 DEF IsAge
  <1>5. PICK depth : IsDepth(depth, L, pp)
    BY DEF Deep
  <1>6. IsDepth(depth, L, pp2)
    BY <1>0, <1>5 DEF IsDepth, Adopted
  <1> QED BY <1>4, <1>6 DEF Aged, Deep

LEMMA ReapedFamily ==
  ASSUME ProcessTreeAssumption,
         NEW L, NEW pp, NEW cp, NEW yp, NEW op, NEW pp2, NEW cp2, NEW yp2, NEW op2,
         Family(L, pp, cp, yp, op), Aged(L, op),
         NEW c \in L, c # Init1, \A q \in L : pp[q] # c,
         Reaped(c, pp, cp, yp, op, pp2, cp2, yp2, op2)
  PROVE  Family(L \ {c}, pp2, cp2, yp2, op2)
  <1> DEFINE M == L \ {c}
             o == op[c]
             y == yp[c]
  <1>1. /\ L \subseteq TaskPages /\ L \subseteq All /\ Idle \in All /\ Init1 \in M
        /\ c # Idle /\ Init1 # Idle /\ NULL \notin All /\ M \subseteq L
    BY Names DEF Family
  <1>2. /\ o # NULL => o \in M /\ pp[o] = pp[c] /\ yp[o] = c
        /\ y # NULL => y \in M /\ op[y] = c /\ pp[y] = pp[c]
        /\ y = NULL => cp[pp[c]] = c
        /\ pp[c] \in M
    <2>1. o # NULL => o \in L /\ pp[o] = pp[c] /\ yp[o] = c
      BY DEF Family
    <2>2. y # NULL => y \in L /\ op[y] = c
      BY DEF Family
    <2>3. y # NULL => pp[y] = pp[c]
      BY <1>1, <2>2 DEF Family
    <2>4. op[c] # c
      <3>1. PICK age, k : IsAge(age, k, L, op)
        BY DEF Aged
      <3> SUFFICES ASSUME op[c] = c PROVE FALSE
        OBVIOUS
      <3>2. age[c] \in Nat /\ age[c] < age[c]
        BY <1>1, <3>1 DEF IsAge
      <3> QED BY <3>2
    <2>5. pp[c] \in M /\ (y = NULL => cp[pp[c]] = c)
      BY DEF Family
    <2> QED BY <2>1, <2>2, <2>3, <2>4, <2>5
  <1>3. \A r \in All \ {c} :
          /\ pp2[r] = pp[r]
          /\ op2[r] = IF r = y THEN o ELSE op[r]
          /\ yp2[r] = IF r = o THEN y ELSE yp[r]
          /\ cp2[r] = IF y = NULL /\ r = pp[c] THEN o ELSE cp[r]
    BY DEF Reaped
  <1> HIDE DEF o, y
  <1>4. ASSUME NEW r \in M \cup {Idle}, cp2[r] # NULL
        PROVE  cp2[r] \in M /\ pp2[cp2[r]] = r /\ yp2[cp2[r]] = NULL
    <2>1. CASE y = NULL /\ r = pp[c]
      BY <1>1, <1>2, <1>3, <1>4, <2>1
    <2>2. CASE ~(y = NULL /\ r = pp[c])
      <3>1. cp2[r] = cp[r] /\ cp[r] \in L /\ pp[cp[r]] = r /\ yp[cp[r]] = NULL
        BY <1>1, <1>3, <1>4, <2>2 DEF Family
      <3>2. cp[r] # c
        BY <2>2, <3>1 DEF y
      <3>3. cp[r] # o
        BY <1>1, <1>2, <3>1
      <3> QED BY <1>1, <1>3, <3>1, <3>2, <3>3
    <2> QED BY <2>1, <2>2
  <1>5. ASSUME NEW r \in M PROVE pp2[r] \in M \cup {Idle} /\ (pp2[r] = Idle <=> r = Init1)
    BY <1>1, <1>3 DEF Family
  <1>6. ASSUME NEW r \in M, op2[r] # NULL
        PROVE  op2[r] \in M /\ pp2[op2[r]] = pp2[r] /\ yp2[op2[r]] = r
    <2>1. CASE r = y
      BY <1>1, <1>2, <1>3, <1>6, <2>1
    <2>2. CASE r # y
      <3>1. op2[r] = op[r] /\ op[r] \in L /\ pp[op[r]] = pp[r] /\ yp[op[r]] = r
        BY <1>1, <1>3, <1>6, <2>2 DEF Family
      <3>2. op[r] # c /\ op[r] # o
        BY <1>1, <1>2, <2>2, <3>1 DEF y
      <3> QED BY <1>1, <1>3, <3>1, <3>2
    <2> QED BY <2>1, <2>2
  <1>7. ASSUME NEW r \in M, yp2[r] # NULL PROVE yp2[r] \in M /\ op2[yp2[r]] = r
    <2>1. CASE r = o
      BY <1>1, <1>2, <1>3, <1>7, <2>1
    <2>2. CASE r # o
      <3>1. yp2[r] = yp[r] /\ yp[r] \in L /\ op[yp[r]] = r
        BY <1>1, <1>3, <1>7, <2>2 DEF Family
      <3>2. yp[r] # c /\ yp[r] # y
        BY <1>1, <1>2, <2>2, <3>1 DEF o
      <3> QED BY <1>1, <1>3, <3>1, <3>2
    <2> QED BY <2>1, <2>2
  <1>8. ASSUME NEW r \in M, yp2[r] = NULL PROVE cp2[pp2[r]] = r
    <2>0. pp2[r] = pp[r] /\ pp[r] \in All \ {c}
      BY <1>1, <1>3 DEF Family
    <2>1. CASE r = o
      BY <1>1, <1>2, <1>3, <1>8, <2>0, <2>1
    <2>2. CASE r # o
      <3>1. yp[r] = NULL /\ cp[pp[r]] = r
        BY <1>1, <1>3, <1>8, <2>2 DEF Family
      <3> QED BY <1>2, <1>3, <2>0, <3>1
    <2> QED BY <2>1, <2>2
  <1> HIDE DEF M
  <1>9. M \subseteq TaskPages /\ Init1 \in M
    BY <1>1 DEF M
  <1>10. Family(M, pp2, cp2, yp2, op2)
    BY <1>4, <1>5, <1>6, <1>7, <1>8, <1>9 DEF Family
  <1> QED BY <1>10 DEF M

LEMMA ReapedAged ==
  ASSUME ProcessTreeAssumption,
         NEW L, NEW pp, NEW cp, NEW yp, NEW op, NEW pp2, NEW cp2, NEW yp2, NEW op2,
         Family(L, pp, cp, yp, op), NEW c \in L, c # Init1, \A q \in L : pp[q] # c,
         Reaped(c, pp, cp, yp, op, pp2, cp2, yp2, op2),
         Aged(L, op), Deep(L, pp)
  PROVE  Aged(L \ {c}, op2) /\ Deep(L \ {c}, pp2)
  <1>0. L \subseteq All /\ NULL \notin All
    BY Names DEF Family
  <1>1. PICK age, k : IsAge(age, k, L, op)
    BY DEF Aged
  <1>2. ASSUME NEW r \in L \ {c}, op2[r] # NULL PROVE age[r] < age[op2[r]]
    <2>1. CASE r = yp[c]
      <3>1. op2[r] = op[c] /\ op[r] = c /\ op[c] \in L
        BY <1>0, <1>2, <2>1 DEF Reaped, Family
      <3> DEFINE x == op[c]
      <3>2. age[r] < age[c] /\ age[c] < age[x] /\ age[r] \in Nat /\ age[c] \in Nat /\ age[x] \in Nat
        BY <1>0, <1>1, <1>2, <3>1 DEF IsAge
      <3> HIDE DEF x
      <3>3. age[r] < age[x]
        BY <3>2
      <3> QED BY <3>1, <3>3 DEF x
    <2>2. CASE r # yp[c]
      BY <1>0, <1>1, <1>2, <2>2 DEF Reaped, IsAge
    <2> QED BY <2>1, <2>2
  <1>3. IsAge(age, k, L \ {c}, op2)
    BY <1>1, <1>2 DEF IsAge
  <1>4. PICK depth : IsDepth(depth, L, pp)
    BY DEF Deep
  <1>5. IsDepth(depth, L \ {c}, pp2)
    BY <1>0, <1>4 DEF IsDepth, Reaped
  <1> QED BY <1>3, <1>5 DEF Aged, Deep

-----------------------------------------------------------------------------
(* Walking along the list of children. *)
LEMMA LeastOf ==
  ASSUME NEW S, S \subseteq Nat, S # {}
  PROVE  \E m \in S : \A n \in S : m <= n
  <1> DEFINE Less == {p \in Nat \X Nat : p[1] < p[2]}
  <1>1. IsWellFoundedOn(Less, Nat)
    BY NatLessThanWellFounded DEF OpToRel
  <1>2. \E m \in S : \A n \in S : <<n, m>> \notin Less
    <2> HIDE DEF Less
    <2> QED BY <1>1, WFMin, Zenon
  <1>3. PICK m \in S : \A n \in S : ~(n < m)
    BY <1>2
  <1> QED BY <1>3

LEMMA Induct ==
  ASSUME NEW A \in SUBSET Nat, 0 \in A, \A n \in A : n + 1 \in A
  PROVE  A = Nat
  <1> SUFFICES ASSUME Nat \ A # {} PROVE FALSE
    OBVIOUS
  <1>1. PICK n \in Nat \ A : \A m \in Nat \ A : n <= m
    BY LeastOf
  <1> QED BY <1>1

(* The chain of siblings that starts at p_cptr[p], in m steps. *)
IsChain(s, p, m) ==
  s = [n \in 0..m |-> IF n = 0 THEN p_cptr[p]
                      ELSE IF s[n - 1] = NULL THEN NULL ELSE p_osptr[s[n - 1]]]

LEMMA ChainExists ==
  ASSUME NEW p, NEW max \in Nat
  PROVE  \E s : IsChain(s, p, max)
  <1> DEFINE A == {m \in Nat : \E s : IsChain(s, p, m)}
  <1>1. 0 \in A
    <2> DEFINE s == [n \in 0..0 |-> p_cptr[p]]
    <2>1. \A n \in 0..0 : n = 0
      OBVIOUS
    <2>2. IsChain(s, p, 0)
      BY <2>1 DEF IsChain
    <2> HIDE DEF s
    <2> QED BY <2>2
  <1>2. ASSUME NEW m \in A PROVE m + 1 \in A
    <2>1. m \in Nat
      OBVIOUS
    <2>2. PICK s : IsChain(s, p, m)
      OBVIOUS
    <2> DEFINE g == [n \in 0..m + 1 |->
                       IF n = m + 1 THEN IF s[m] = NULL THEN NULL ELSE p_osptr[s[m]] ELSE s[n]]
    <2>3. ASSUME NEW n \in 0..m + 1
          PROVE  g[n] = IF n = 0 THEN p_cptr[p] ELSE IF g[n - 1] = NULL THEN NULL ELSE p_osptr[g[n - 1]]
      <3>1. CASE n = 0
        BY <2>1, <2>2, <3>1 DEF IsChain
      <3>2. CASE n = m + 1
        <4>1. n - 1 = m /\ m \in 0..m + 1 /\ m # m + 1
          BY <2>1, <3>2
        <4>2. g[n] = (IF s[m] = NULL THEN NULL ELSE p_osptr[s[m]]) /\ g[m] = s[m]
          BY <3>2, <4>1
        <4> QED BY <2>1, <3>2, <4>1, <4>2
      <3>3. CASE n # 0 /\ n # m + 1
        <4>1. n \in 0..m /\ n - 1 \in 0..m + 1 /\ n - 1 # m + 1
          BY <2>1, <3>3
        <4>2. g[n] = s[n] /\ g[n - 1] = s[n - 1]
          BY <3>3, <4>1
        <4>3. s[n] = IF s[n - 1] = NULL THEN NULL ELSE p_osptr[s[n - 1]]
          BY <2>2, <3>3, <4>1 DEF IsChain
        <4> QED BY <3>3, <4>2, <4>3
      <3> QED BY <3>1, <3>2, <3>3
    <2>4. IsChain(g, p, m + 1)
      <3>1. g = [n \in 0..m + 1 |-> g[n]]
        OBVIOUS
      <3> HIDE DEF g
      <3> QED BY <2>3, <3>1 DEF IsChain
    <2> HIDE DEF g
    <2> QED BY <2>1, <2>4
  <1>3. A = Nat
    <2>1. A \in SUBSET Nat
      OBVIOUS
    <2> HIDE DEF A
    <2> QED BY <1>1, <1>2, <2>1, Induct
  <1> QED BY <1>3

LEMMA SiblingIsChain ==
  ASSUME ProcessTreeAssumption, NEW p
  PROVE  IsChain(Sibling(p), p, Cardinality(TaskPages)) /\ Cardinality(TaskPages) \in Nat
  <1>1. Cardinality(TaskPages) \in Nat
    BY FS_CardinalityType DEF ProcessTreeAssumption
  <1>2. \E s : IsChain(s, p, Cardinality(TaskPages))
    BY <1>1, ChainExists
  <1>3. Sibling(p) = CHOOSE s : IsChain(s, p, Cardinality(TaskPages))
    BY DEF Sibling, IsChain
  <1> QED BY <1>1, <1>2, <1>3

(* The chain runs through the children of p, younger ones first, ... *)
LEMMA ChainIsOfKids ==
  ASSUME NEW L, Family(L, p_pptr, p_cptr, p_ysptr, p_osptr), NEW p \in L \cup {Idle},
         NEW age, NEW k, IsAge(age, k, L, p_osptr), L \subseteq All,
         NEW max \in Nat, NEW s, IsChain(s, p, max)
  PROVE  \A n \in 0..max : s[n] # NULL =>
           /\ s[n] \in Kids(L, p_pptr, p)
           /\ \A i \in 0..max : i < n => s[i] \in L /\ age[s[i]] < age[s[n]]
  <1> DEFINE OK(n) == s[n] # NULL =>
                        /\ s[n] \in Kids(L, p_pptr, p)
                        /\ \A i \in 0..max : i < n => s[i] \in L /\ age[s[i]] < age[s[n]]
             A == {n \in Nat : n <= max => OK(n)}
  <1>1. 0 \in A
    <2>1. 0 \in 0..max /\ s[0] = p_cptr[p]
      BY DEF IsChain
    <2>2. \A i \in 0..max : ~(i < 0)
      OBVIOUS
    <2> QED BY <2>1, <2>2 DEF Family, Kids
  <1>2. ASSUME NEW n \in A PROVE n + 1 \in A
    <2>1. n \in Nat /\ n + 1 \in Nat
      OBVIOUS
    <2>2. SUFFICES ASSUME n + 1 <= max, s[n + 1] # NULL
                   PROVE  /\ s[n + 1] \in Kids(L, p_pptr, p)
                          /\ \A i \in 0..max : i < n + 1 => s[i] \in L /\ age[s[i]] < age[s[n + 1]]
      BY <2>1
    <2>3. n \in 0..max /\ n + 1 \in 0..max /\ n + 1 # 0 /\ (n + 1) - 1 = n
      BY <2>1, <2>2
    <2>4. s[n + 1] = IF s[n] = NULL THEN NULL ELSE p_osptr[s[n]]
      <3>1. s[n + 1] = IF s[(n + 1) - 1] = NULL THEN NULL ELSE p_osptr[s[(n + 1) - 1]]
        BY <2>3 DEF IsChain
      <3> QED BY <2>3, <3>1
    <2>5. s[n] # NULL /\ s[n + 1] = p_osptr[s[n]]
      BY <2>2, <2>4
    <2>6. s[n] \in Kids(L, p_pptr, p) /\ \A i \in 0..max : i < n => s[i] \in L /\ age[s[i]] < age[s[n]]
      BY <2>3, <2>5
    <2> DEFINE x == s[n]
               y == s[n + 1]
    <2>7. x \in L /\ p_pptr[x] = p /\ y = p_osptr[x] /\ y # NULL
      BY <2>2, <2>5, <2>6 DEF Kids
    <2> HIDE DEF x, y, A
    <2>8. y \in L /\ p_pptr[y] = p /\ age[x] < age[y] /\ age[x] \in Nat /\ age[y] \in Nat
      BY <2>7 DEF Family, IsAge
    <2>9. ASSUME NEW i \in 0..max, i < n + 1 PROVE s[i] \in L /\ age[s[i]] < age[y]
      <3>1. CASE i = n
        BY <2>7, <2>8, <3>1 DEF x
      <3>2. CASE i # n
        <4>1. i < n
          BY <2>1, <2>9, <3>2
        <4>2. s[i] \in L /\ age[s[i]] < age[x]
          BY <2>6, <4>1 DEF x
        <4> DEFINE a == age[s[i]]
                   b == age[x]
                   c == age[y]
        <4>3. a < b /\ b < c /\ a \in Nat /\ b \in Nat /\ c \in Nat
          BY <2>8, <4>2 DEF IsAge
        <4> HIDE DEF a, b, c
        <4>4. a < c
          BY <4>3
        <4> QED BY <4>2, <4>4 DEF a, c
      <3> QED BY <3>1, <3>2
    <2> QED BY <2>8, <2>9 DEF y, Kids
  <1>3. A = Nat
    <2>1. A \in SUBSET Nat
      OBVIOUS
    <2> HIDE DEF A
    <2> QED BY <1>1, <1>2, <2>1, Induct
  <1>4. ASSUME NEW n \in 0..max PROVE OK(n)
    <2>1. n \in A /\ n <= max
      BY <1>3
    <2> QED BY <2>1
  <1> QED BY <1>4

(* ... and through all of them: each has a younger sibling on the chain, and
   the chain, of different tasks, is too short only when it has ended. *)
LEMMA KidsAreOnChain ==
  ASSUME ProcessTreeAssumption,
         NEW L, Family(L, p_pptr, p_cptr, p_ysptr, p_osptr), NEW p \in L \cup {Idle},
         NEW age, NEW k, IsAge(age, k, L, p_osptr),
         NEW s, IsChain(s, p, Cardinality(TaskPages))
  PROVE  \A q \in Kids(L, p_pptr, p) : \E n \in 0..Cardinality(TaskPages) : s[n] = q
  <1> DEFINE max == Cardinality(TaskPages)
             kids == Kids(L, p_pptr, p)
             lost == {q \in kids : ~ \E n \in 0..max : s[n] = q}
             ages == {age[q] : q \in lost}
  <1>1. /\ IsFiniteSet(TaskPages) /\ max \in Nat /\ L \subseteq TaskPages /\ L \subseteq All
        /\ NULL \notin L /\ kids \subseteq L
    BY FS_CardinalityType, Names DEF Family, Kids, ProcessTreeAssumption
  <1>2. \A n \in 0..max : s[n] # NULL =>
          /\ s[n] \in kids
          /\ \A i \in 0..max : i < n => s[i] \in L /\ age[s[i]] < age[s[n]]
    BY <1>1, ChainIsOfKids
  <1> SUFFICES ASSUME lost # {} PROVE FALSE
    OBVIOUS
  <1>3. PICK q \in lost : \A r \in lost : age[q] <= age[r]
    <2>1. ages \subseteq Nat /\ ages # {}
      BY <1>1 DEF IsAge
    <2>2. PICK a \in ages : \A b \in ages : a <= b
      <3> HIDE DEF ages
      <3> QED BY <2>1, LeastOf
    <2> QED BY <2>2
  <1>4. q \in L /\ p_pptr[q] = p /\ \A n \in 0..max : s[n] # q
    BY <1>1, <1>3 DEF Kids
  <1> DEFINE y == p_ysptr[q]
  <1>5. y # NULL
    <2> SUFFICES ASSUME y = NULL PROVE FALSE
      OBVIOUS
    <2>1. p_cptr[p] = q
      BY <1>4 DEF Family
    <2>2. 0 \in 0..max /\ s[0] = p_cptr[p]
      BY <1>1 DEF IsChain
    <2> QED BY <1>4, <2>1, <2>2
  <1>6. y \in L /\ p_osptr[y] = q /\ p_pptr[y] = p /\ age[y] < age[q] /\ age[y] \in Nat /\ age[q] \in Nat
    BY <1>1, <1>4, <1>5 DEF Family, IsAge
  <1>7. PICK n \in 0..max : s[n] = y
    <2>1. y \in kids
      BY <1>6 DEF Kids
    <2>2. y \notin lost
      BY <1>3, <1>6
    <2> HIDE DEF y
    <2> QED BY <2>1, <2>2
  <1>8. n = max
    <2> SUFFICES ASSUME n # max PROVE FALSE
      OBVIOUS
    <2>1. n + 1 \in 0..max /\ n + 1 # 0 /\ (n + 1) - 1 = n
      BY <1>1
    <2>2. s[n + 1] = IF s[(n + 1) - 1] = NULL THEN NULL ELSE p_osptr[s[(n + 1) - 1]]
      BY <2>1 DEF IsChain
    <2>3. s[n + 1] = q
      BY <1>5, <1>6, <1>7, <2>1, <2>2
    <2> QED BY <1>4, <2>1, <2>3
  <1>9. \A i \in 0..max : s[i] \in L
    <2> TAKE i \in 0..max
    <2>1. CASE i = max
      BY <1>6, <1>7, <1>8, <2>1
    <2>2. CASE i # max
      <3>1. i < n /\ s[n] # NULL
        BY <1>1, <1>5, <1>7, <1>8, <2>2
      <3> QED BY <1>2, <3>1
    <2> QED BY <2>1, <2>2
  <1> DEFINE f == [i \in 0..max |-> s[i]]
  <1>10. f \in [0..max -> TaskPages]
    BY <1>1, <1>9
  <1>11. IsFiniteSet(0..max) /\ Cardinality(0..max) = max + 1
    BY <1>1, FS_Interval
  <1>12. PICK i, j \in 0..max : i # j /\ f[i] = f[j]
    <2> HIDE DEF f
    <2>1. Cardinality(TaskPages) < Cardinality(0..max)
      BY <1>1, <1>11
    <2> HIDE DEF max
    <2> QED BY <1>1, <1>10, <1>11, <2>1, FS_PigeonHole
  <1>13. s[i] = s[j] /\ s[i] # NULL /\ age[s[i]] \in Nat
    BY <1>1, <1>9, <1>12 DEF IsAge
  <1>14. i < j \/ j < i
    BY <1>1, <1>12
  <1>15. age[s[i]] < age[s[i]]
    BY <1>2, <1>13, <1>14
  <1> QED BY <1>13, <1>15

LEMMA ChildrenAreKids ==
  ASSUME ProcessTreeAssumption,
         NEW L, Family(L, p_pptr, p_cptr, p_ysptr, p_osptr), Aged(L, p_osptr),
         NEW p \in L \cup {Idle}
  PROVE  Children(p) = Kids(L, p_pptr, p)
  <1> DEFINE s == Sibling(p)
             max == Cardinality(TaskPages)
  <1>1. IsChain(s, p, max) /\ max \in Nat
    BY SiblingIsChain
  <1>2. PICK age, k : IsAge(age, k, L, p_osptr)
    BY DEF Aged
  <1>3. L \subseteq All /\ NULL \notin Kids(L, p_pptr, p)
    BY Names DEF Family, Kids
  <1> HIDE DEF s
  <1>4. \A n \in 0..max : s[n] # NULL => s[n] \in Kids(L, p_pptr, p)
    BY <1>1, <1>2, <1>3, ChainIsOfKids
  <1>5. \A q \in Kids(L, p_pptr, p) : \E n \in 0..max : s[n] = q
    BY <1>1, <1>2, KidsAreOnChain
  <1>6. DOMAIN s = 0..max
    BY <1>1 DEF IsChain
  <1>7. Children(p) = {s[n] : n \in 0..max} \ {NULL}
    BY <1>6 DEF Children, s
  <1> QED BY <1>3, <1>4, <1>5, <1>7

(* The eldest. *)
LEMMA EldestExists ==
  ASSUME ProcessTreeAssumption,
         NEW L, Family(L, p_pptr, p_cptr, p_ysptr, p_osptr), Aged(L, p_osptr),
         NEW p, Kids(L, p_pptr, p) # {}
  PROVE  \E c \in Kids(L, p_pptr, p) : p_osptr[c] = NULL
  <1> DEFINE kids == Kids(L, p_pptr, p)
  <1>1. PICK age, k : IsAge(age, k, L, p_osptr)
    BY DEF Aged
  <1> DEFINE left == {k - age[c] : c \in kids}
  <1>2. \A c \in kids : c \in L /\ p_pptr[c] = p /\ age[c] \in Nat /\ age[c] < k /\ k \in Nat
    BY <1>1, Names DEF Kids, Family, IsAge
  <1>3. left \subseteq Nat /\ left # {}
    BY <1>2
  <1>4. PICK m \in left : \A n \in left : m <= n
    <2> HIDE DEF left
    <2> QED BY <1>3, LeastOf
  <1>5. PICK c \in kids : m = k - age[c]
    OBVIOUS
  <1>6. p_osptr[c] = NULL
    <2> SUFFICES ASSUME p_osptr[c] # NULL PROVE FALSE
      OBVIOUS
    <2> DEFINE d == p_osptr[c]
    <2>1. d \in kids /\ age[c] < age[d]
      BY <1>1, <1>2 DEF Family, Kids, IsAge
    <2>2. k - age[c] <= k - age[d]
      BY <1>4, <1>5, <2>1
    <2> QED BY <1>2, <2>1, <2>2
  <1> QED BY <1>6

-----------------------------------------------------------------------------
(* The steps. *)
Forking == {"fork", "copy"}

LEMMA LinksKept ==
  ASSUME ProcessTreeAssumption,
         NEW L, NEW pp, NEW cp, NEW yp, NEW op, NEW pp2, NEW cp2, NEW yp2, NEW op2,
         Family(L, pp, cp, yp, op), Aged(L, op), Deep(L, pp),
         \A r \in L \cup {Idle} : cp2[r] = cp[r],
         \A r \in L : pp2[r] = pp[r] /\ yp2[r] = yp[r] /\ op2[r] = op[r]
  PROVE  Family(L, pp2, cp2, yp2, op2) /\ Aged(L, op2) /\ Deep(L, pp2)
  <1>1. Family(L, pp2, cp2, yp2, op2)
    BY DEF Family
  <1>2. Aged(L, op2)
    BY DEF Aged, IsAge
  <1>3. Deep(L, pp2)
    BY DEF Deep, IsDepth
  <1> QED BY <1>1, <1>2, <1>3

LEMMA InitTree == ProcessTreeAssumption /\ TreeInit => TreeInv
  <1> SUFFICES ASSUME ProcessTreeAssumption, TreeInit PROVE TreeInv
    OBVIOUS
  <1>1. Listed = {Init1} /\ Linked = {Init1}
    BY Names DEF TreeInit, Listed, Linked, Copying
  <1>2. TableOK /\ DomainsOK /\ ForksOK
    BY <1>1, Names DEF TreeInit, TableOK, DomainsOK, ForksOK
  <1>3. Family({Init1}, p_pptr, p_cptr, p_ysptr, p_osptr)
    BY Names DEF TreeInit, Family
  <1>4. IsAge([q \in All |-> 0], 1, {Init1}, p_osptr)
    BY Names DEF TreeInit, IsAge
  <1>5. IsDepth([q \in All |-> 0], {Init1}, p_pptr)
    BY DEF IsDepth
  <1>6. ParentsLive({Init1}, p_pptr, state)
    BY Names DEF TreeInit, ParentsLive
  <1> QED BY <1>1, <1>2, <1>3, <1>4, <1>5, <1>6 DEF TreeInv, Aged, Deep

LEMMA ListedAre ==
  ASSUME ProcessTreeAssumption, TableOK
  PROVE  /\ \A q : q \in Listed <=> q # NULL /\ \E i \in TaskSlots : task[i] = q
         /\ Listed \subseteq TaskPages /\ Init1 \in Listed
  BY Names DEF TableOK, Listed

LEMMA Alone ==
  ASSUME ProcessTreeAssumption, TreeInv, NEW p \in TaskPages, CanRun(p)
  PROVE  /\ \A q \in TaskPages \ {p} : pc[q] \notin Forking
         /\ p \in Linked
         /\ pc[p] \notin Forking => Linked = Listed
  <1>1. ASSUME NEW q \in TaskPages \ {p} PROVE pc[q] \notin Forking
    BY Names DEF TreeInv, ForksOK, CanRun, Forking
  <1>2. pc[p] \notin Forking => Linked = Listed
    BY <1>1 DEF Linked, Copying, Forking
  <1>3. p \in Listed
    BY DEF CanRun, TreeInv, TableOK
  <1>4. pc[p] = "copy" => child[p] # p
    BY DEF CanRun, TreeInv, ForksOK
  <1>5. p \in Linked
    BY <1>1, <1>3, <1>4 DEF Linked, Copying, Forking
  <1> QED BY <1>1, <1>2, <1>5

LEMMA PlainStep ==
  ASSUME ProcessTreeAssumption, TreeInv, NEW p \in TaskPages, CanRun(p), pc[p] \notin Forking,
         UNCHANGED <<task, used, links>>, DomainsOK', pc'[p] \notin Forking, state'[p] # "zombie",
         \A q \in All \ {p} : pc'[q] = pc[q] /\ state'[q] = state[q]
  PROVE  TreeInv'
  <1>1. Linked = Listed /\ \A q \in TaskPages \ {p} : pc[q] \notin Forking
    BY Alone
  <1>2. \A q \in TaskPages : pc'[q] \notin Forking
    BY <1>1, Names
  <1>3. ForksOK' /\ Linked' = Listed'
    BY <1>2 DEF Forking, ForksOK, Linked, Copying
  <1>4. Listed' = Listed /\ TableOK'
    BY DEF Listed, TableOK, TreeInv
  <1>5. ParentsLive(Linked, p_pptr, state')
    <2>1. \A q \in Linked : p_pptr[q] \in All
      BY Names DEF TreeInv, Family
    <2>2. \A q \in All : state[q] # "zombie" => state'[q] # "zombie"
      OBVIOUS
    <2> QED BY <2>1, <2>2, Names DEF TreeInv, ParentsLive
  <1> QED BY <1>1, <1>3, <1>4, <1>5 DEF TreeInv, links

LEMMA SameTree ==
  ASSUME TreeInv, UNCHANGED <<task, used, links, state, pc, nr, child, current>>
  PROVE  TreeInv'
  BY DEF TreeInv, TableOK, DomainsOK, ForksOK, Linked, Listed, Copying, links

LEMMA WakeStep ==
  ASSUME ProcessTreeAssumption, TreeInv, NEW p \in TaskPages, WakeWaiter(p)
  PROVE  TreeInv'
  <1>1. /\ pc[p] = "asleep" /\ state[p] = "interruptible" /\ pc'[p] = "wait" /\ state'[p] = "running"
        /\ \A q \in All \ {p} : pc'[q] = pc[q] /\ state'[q] = state[q]
        /\ UNCHANGED <<task, used, links, nr, child, current>>
        /\ DomainsOK'
    BY Names DEF WakeWaiter, Goto, TreeInv, DomainsOK, links
  <1>2. ForksOK'
    <2> SUFFICES ASSUME NEW q \in TaskPages, pc'[q] \in Forking
                 PROVE  /\ current = q /\ state'[q] = "running" /\ q \in Listed'
                        /\ pc'[q] = "fork" => nr[q] \in TaskSlots /\ task[nr[q]] = NULL
                        /\ pc'[q] = "copy" => /\ nr[q] \in TaskSlots /\ nr[q] # 1 /\ task[nr[q]] = child[q]
                                              /\ child[q] \in TaskPages /\ state'[child[q]] = "uninterruptible"
      BY <1>1 DEF ForksOK, Forking
    <2>1. q # p /\ pc[q] = pc'[q] /\ Listed' = Listed
      BY <1>1, Names DEF Forking, Listed
    <2>2. pc[q] = "copy" => child[q] # p
      BY <1>1 DEF TreeInv, ForksOK
    <2> QED BY <1>1, <2>1, <2>2, Names DEF TreeInv, ForksOK, Forking
  <1>3. Linked' = Linked
    <2>1. \A q \in TaskPages : pc'[q] = "copy" <=> pc[q] = "copy"
      BY <1>1, Names
    <2> QED BY <1>1, <2>1 DEF Linked, Listed, Copying
  <1>4. ParentsLive(Linked, p_pptr, state')
    <2>1. \A q \in Linked : p_pptr[q] \in All
      BY Names DEF TreeInv, Family
    <2>2. \A q \in All : state[q] # "zombie" => state'[q] # "zombie"
      BY <1>1
    <2> QED BY <2>1, <2>2, Names DEF TreeInv, ParentsLive
  <1>5. TableOK'
    BY <1>1 DEF TreeInv, TableOK, Listed
  <1> QED BY <1>1, <1>2, <1>3, <1>4, <1>5 DEF TreeInv, links

LEMMA FindStep ==
  ASSUME ProcessTreeAssumption, ~MemoryShort, TreeInv, NEW p \in TaskPages, FindEmptyProcess(p)
  PROVE  TreeInv'
  <1>1. /\ pc[p] = "user" /\ CanRun(p) /\ pc[p] \notin Forking
        /\ UNCHANGED <<task, used, state, links, child>>
    BY DEF FindEmptyProcess, Forking
  <1>2. Linked = Listed /\ p \in Listed /\ \A q \in TaskPages \ {p} : pc[q] \notin Forking
    BY <1>1, Alone
  <1> DEFINE empty == {i \in TaskSlots : task[i] = NULL}
  <1>3. CASE /\ empty # {}
             /\ nr' = [nr EXCEPT ![p] = CHOOSE i \in empty : \A j \in empty : i <= j]
             /\ Goto(p, "fork") /\ MaySleep(p)
    <2>1. empty \subseteq Nat
      BY DEF TaskSlots
    <2>2. \E i \in empty : \A j \in empty : i <= j
      <3> HIDE DEF empty
      <3> QED BY <1>3, <2>1, LeastOf
    <2>3. nr'[p] \in empty
      BY <1>3, <2>2, Names DEF TreeInv, DomainsOK
    <2>4. /\ pc'[p] = "fork" /\ (\A q \in All \ {p} : pc'[q] = pc[q]) /\ DomainsOK' /\ current' = p
      BY <1>1, <1>3, Names DEF TreeInv, DomainsOK, Goto, MaySleep, links
    <2>5. Listed' = Listed /\ TableOK'
      BY <1>1 DEF Listed, TableOK, TreeInv
    <2>6. ForksOK'
      BY <1>1, <1>2, <2>3, <2>4, <2>5, Names DEF ForksOK, Forking, CanRun
    <2>7. Linked' = Listed'
      <3>1. \A q \in TaskPages : pc'[q] # "copy"
        BY <1>2, <2>4, Names DEF Forking
      <3> QED BY <3>1 DEF Linked, Copying
    <2> QED BY <1>1, <1>2, <2>4, <2>5, <2>6, <2>7 DEF TreeInv, links
  <1>4. CASE UNCHANGED <<nr, pc>>
    <2>1. \A q \in TaskPages : pc'[q] \notin Forking
      BY <1>1, <1>2, <1>4
    <2>2. ForksOK' /\ Linked' = Listed'
      BY <2>1 DEF Forking, ForksOK, Linked, Copying
    <2>3. Listed' = Listed /\ TableOK' /\ DomainsOK'
      BY <1>1, <1>4 DEF Listed, TableOK, TreeInv, DomainsOK, links
    <2> QED BY <1>1, <1>2, <2>2, <2>3 DEF TreeInv, links
  <1> QED BY <1>3, <1>4 DEF FindEmptyProcess

LEMMA CopyStep ==
  ASSUME ProcessTreeAssumption, ~MemoryShort, TreeInv, NEW p \in TaskPages, CopyProcess(p)
  PROVE  TreeInv'
  <1>1. pc[p] = "fork" /\ CanRun(p) /\ TableOK /\ DomainsOK /\ ForksOK /\ p \in All
    BY Names DEF CopyProcess, TreeInv
  <1>2. /\ p \in Linked /\ \A q \in TaskPages \ {p} : pc[q] \notin Forking
        /\ p \in Listed /\ nr[p] \in TaskSlots /\ task[nr[p]] = NULL
    BY <1>1, Alone DEF Linked, ForksOK
  <1>3. Linked = Listed
    BY <1>1, <1>2 DEF Linked, Copying, Forking
  <1>4. CASE UNCHANGED <<task, used, state, links, child>> /\ nr' = [nr EXCEPT ![p] = NULL] /\ Goto(p, "user")
    <2>1. pc' = [pc EXCEPT ![p] = "user"]
      BY <1>4 DEF Goto
    <2>2. \A q \in TaskPages : pc'[q] \notin Forking
      BY <1>1, <1>2, <2>1 DEF Forking, DomainsOK
    <2>3. ForksOK' /\ Linked' = Listed'
      BY <2>2 DEF Forking, ForksOK, Linked, Copying
    <2>4. Listed' = Listed /\ TableOK' /\ DomainsOK'
      BY <1>1, <1>4, <2>1 DEF Listed, TableOK, DomainsOK, links
    <2> QED BY <1>3, <1>4, <2>3, <2>4 DEF TreeInv, links
  <1>5. ASSUME NEW q \in TaskPages \ used,
               /\ used' = used \cup {q}
               /\ task' = [task EXCEPT ![nr[p]] = q]
               /\ state' = [state EXCEPT ![q] = "uninterruptible"]
               /\ p_pptr' = [p_pptr EXCEPT ![q] = p_pptr[p]]
               /\ p_cptr' = [p_cptr EXCEPT ![q] = p_cptr[p]]
               /\ p_ysptr' = [p_ysptr EXCEPT ![q] = p_ysptr[p]]
               /\ p_osptr' = [p_osptr EXCEPT ![q] = p_osptr[p]]
               /\ child' = [child EXCEPT ![p] = q]
               /\ Goto(p, "copy")
               /\ MaySleep(p) /\ nr' = nr
        PROVE  TreeInv'
    <2>1. q \in TaskPages /\ q \notin Listed /\ q # p /\ q # Init1 /\ q # NULL /\ q # Idle /\ q \in All
      BY <1>1, <1>2, Names, ListedAre DEF TableOK
    <2>2. /\ current' = p /\ pc' = [pc EXCEPT ![p] = "copy"]
          /\ pc'[p] = "copy" /\ child'[p] = q /\ state'[q] = "uninterruptible" /\ state'[p] = "running"
          /\ \A r \in All \ {p} : pc'[r] = pc[r]
          /\ \A r \in All \ {q} : state'[r] = state[r]
          /\ DomainsOK'
      BY <1>1, <1>5, <2>1 DEF DomainsOK, Goto, MaySleep, CanRun
    <2>3. /\ task' \in [TaskSlots -> TaskPages \cup {NULL}] /\ task'[nr[p]] = q /\ nr[p] # 1
          /\ \A i \in TaskSlots : i # nr[p] => task'[i] = task[i]
      BY <1>1, <1>2, <1>5, <2>1, Names DEF TableOK
    <2>4. \A i \in TaskSlots : task[i] # q
      BY <1>1, <2>1, ListedAre
    <2>5. Listed' = Listed \cup {q}
      <3>1. ASSUME NEW r PROVE r \in Listed' <=> r \in Listed \cup {q}
        <4>1. r \in Listed' <=> r # NULL /\ \E i \in TaskSlots : task'[i] = r
          BY DEF Listed
        <4>2. r \in Listed <=> r # NULL /\ \E i \in TaskSlots : task[i] = r
          BY DEF Listed
        <4> QED BY <1>2, <2>1, <2>3, <4>1, <4>2
      <3> QED BY <3>1
    <2>6. TableOK'
      <3>1. \A i, j \in TaskSlots : task'[i] = task'[j] /\ task'[i] # NULL => i = j
        BY <1>1, <2>3, <2>4 DEF TableOK
      <3>2. task'[1] = Init1 /\ used' = Listed'
        BY <1>1, <1>5, <2>3, <2>5, Names DEF TableOK
      <3> QED BY <2>3, <3>1, <3>2 DEF TableOK
    <2>7. ForksOK'
      <3>1. \A r \in TaskPages : pc'[r] \in Forking => r = p
        BY <1>2, <2>2, Names
      <3>2. p \in Listed'
        BY <1>2, <2>5
      <3> QED BY <1>2, <1>5, <2>1, <2>2, <2>3, <3>1, <3>2 DEF ForksOK, Forking
    <2>8. Linked' = Linked
      <3>1. \A r : Copying(r)' <=> r = q
        BY <1>2, <2>2, Names DEF Copying, Forking
      <3> QED BY <1>3, <2>1, <2>5, <3>1 DEF Linked
    <2>9. q \notin Linked \cup {Idle} /\ Linked \cup {Idle} \subseteq All
      BY <1>3, <2>1, Names, ListedAre, <1>1
    <2>10. Family(Linked, p_pptr', p_cptr', p_ysptr', p_osptr') /\ Aged(Linked, p_osptr') /\ Deep(Linked, p_pptr')
      <3>1. /\ \A r \in Linked \cup {Idle} : p_cptr'[r] = p_cptr[r]
            /\ \A r \in Linked : p_pptr'[r] = p_pptr[r] /\ p_ysptr'[r] = p_ysptr[r] /\ p_osptr'[r] = p_osptr[r]
        BY <1>1, <1>5, <2>9 DEF DomainsOK
      <3>2. Family(Linked, p_pptr, p_cptr, p_ysptr, p_osptr) /\ Aged(Linked, p_osptr) /\ Deep(Linked, p_pptr)
        BY DEF TreeInv
      <3> QED BY <3>1, <3>2, LinksKept
    <2>11. ParentsLive(Linked, p_pptr', state')
      <3>1. \A r \in Linked : p_pptr'[r] = p_pptr[r] /\ p_pptr[r] \in All
        BY <1>1, <1>5, <2>9 DEF DomainsOK, TreeInv, Family
      <3> QED BY <2>1, <2>2, <3>1, Names DEF TreeInv, ParentsLive
    <2> QED BY <2>2, <2>6, <2>7, <2>8, <2>10, <2>11 DEF TreeInv
  <1>6. CASE \E q \in TaskPages \ used :
               /\ used' = used \cup {q}
               /\ task' = [task EXCEPT ![nr[p]] = q]
               /\ state' = [state EXCEPT ![q] = "uninterruptible"]
               /\ p_pptr' = [p_pptr EXCEPT ![q] = p_pptr[p]]
               /\ p_cptr' = [p_cptr EXCEPT ![q] = p_cptr[p]]
               /\ p_ysptr' = [p_ysptr EXCEPT ![q] = p_ysptr[p]]
               /\ p_osptr' = [p_osptr EXCEPT ![q] = p_osptr[p]]
               /\ child' = [child EXCEPT ![p] = q]
               /\ Goto(p, "copy")
               /\ MaySleep(p) /\ nr' = nr
    BY <1>5, <1>6
  <1> QED BY <1>4, <1>6 DEF CopyProcess

LEMMA CopyMemStep ==
  ASSUME ProcessTreeAssumption, TreeInv, NEW p \in TaskPages, CopyMem(p)
  PROVE  TreeInv'
  <1> DEFINE q == child[p]
  <1>1. /\ pc[p] = "copy" /\ CanRun(p) /\ TableOK /\ DomainsOK /\ ForksOK /\ p \in All /\ q \in TaskPages
        /\ nr' = [nr EXCEPT ![p] = NULL] /\ child' = [child EXCEPT ![p] = NULL]
        /\ pc' = [pc EXCEPT ![p] = "user"]
        /\ nr[p] \in TaskSlots /\ nr[p] # 1 /\ task[nr[p]] = q /\ state[q] = "uninterruptible"
    BY Names DEF CopyMem, TreeInv, Goto, ForksOK
  <1>2. p \in Linked /\ \A r \in TaskPages \ {p} : pc[r] \notin Forking
    BY <1>1, Alone
  <1>3. Linked = Listed \ {q} /\ q \in Listed /\ q # Init1
    <2>1. \A r : Copying(r) <=> r = q
      BY <1>1, <1>2 DEF Copying, Forking
    <2>2. q \in Listed
      BY <1>1, Names, ListedAre
    <2>3. q # Init1
      BY <1>1, Names DEF TableOK
    <2> QED BY <2>1, <2>2, <2>3 DEF Linked
  <1>4. \A r \in TaskPages : pc'[r] \notin Forking
    BY <1>1, <1>2, Names DEF Forking, DomainsOK
  <1>5. ForksOK' /\ Linked' = Listed'
    BY <1>4 DEF Forking, ForksOK, Linked, Copying
  <1>6. /\ Family(Linked, p_pptr, p_cptr, p_ysptr, p_osptr) /\ Aged(Linked, p_osptr) /\ Deep(Linked, p_pptr)
        /\ ParentsLive(Linked, p_pptr, state) /\ q \notin Linked /\ Linked \subseteq All
        /\ q # Idle /\ q \in All /\ q # p
    BY <1>1, <1>2, <1>3, Names DEF TreeInv, Family
  <1>7. ASSUME Link(p), state' = [state EXCEPT ![q] = "running"], UNCHANGED <<task, used>>
        PROVE  TreeInv'
    <2>1. Listed' = Linked \cup {q} /\ Listed' = Listed /\ TableOK'
      BY <1>1, <1>3, <1>7 DEF Listed, TableOK
    <2>2. DomainsOK'
      BY <1>1, <1>7 DEF DomainsOK, Link
    <2>3. Born(p, q, p_pptr, p_cptr, p_ysptr, p_osptr, p_pptr', p_cptr', p_ysptr', p_osptr')
      BY <1>1, <1>6, <1>7 DEF Link, Born, DomainsOK
    <2> HIDE DEF q
    <2> DEFINE pp == p_pptr'
               cp == p_cptr'
               yp == p_ysptr'
               op == p_osptr'
    <2>4. Born(p, q, p_pptr, p_cptr, p_ysptr, p_osptr, pp, cp, yp, op)
      BY <2>3
    <2> HIDE DEF pp, cp, yp, op
    <2>5. Family(Linked \cup {q}, pp, cp, yp, op)
      BY <1>1, <1>2, <1>6, <2>4, BornFamily
    <2>6. Aged(Linked \cup {q}, op) /\ Deep(Linked \cup {q}, pp)
      BY <1>1, <1>2, <1>6, <2>4, BornAged
    <2>7. ParentsLive(Linked \cup {q}, pp, state')
      <3>1. /\ state' = [state EXCEPT ![q] = "running"] /\ DOMAIN state = All
            /\ \A r \in All : pp[r] = IF r = q THEN p ELSE p_pptr[r]
        BY <1>1, <1>7, <2>4 DEF DomainsOK, Born
      <3>2. state[p] = "running" /\ \A r \in Linked : p_pptr[r] \in All
        BY <1>1, <1>6, Names DEF CanRun, Family
      <3>3. \A r \in All : state[r] # "zombie" => state'[r] # "zombie"
        BY <3>1
      <3> QED BY <1>1, <1>6, <3>1, <3>2, <3>3, Names DEF ParentsLive
    <2> QED BY <1>5, <2>1, <2>2, <2>5, <2>6, <2>7 DEF TreeInv, pp, cp, yp, op
  <1>8. ASSUME /\ task' = [task EXCEPT ![nr[p]] = NULL]
               /\ used' = used \ {q}
               /\ state' = [state EXCEPT ![q] = "free"]
               /\ p_pptr' = [p_pptr EXCEPT ![q] = NULL]
               /\ p_cptr' = [p_cptr EXCEPT ![q] = NULL]
               /\ p_ysptr' = [p_ysptr EXCEPT ![q] = NULL]
               /\ p_osptr' = [p_osptr EXCEPT ![q] = NULL]
        PROVE  TreeInv'
    <2>1. /\ task' \in [TaskSlots -> TaskPages \cup {NULL}] /\ task'[nr[p]] = NULL
          /\ \A i \in TaskSlots : i # nr[p] => task'[i] = task[i] /\ task[i] # q
      BY <1>1, <1>8, Names DEF TableOK
    <2>2. Listed' = Linked
      <3>1. ASSUME NEW r PROVE r \in Listed' <=> r \in Listed \ {q}
        <4>1. r \in Listed' <=> r # NULL /\ \E i \in TaskSlots : task'[i] = r
          BY DEF Listed
        <4>2. r \in Listed <=> r # NULL /\ \E i \in TaskSlots : task[i] = r
          BY DEF Listed
        <4> QED BY <1>1, <2>1, <4>1, <4>2
      <3> QED BY <1>3, <3>1
    <2>3. TableOK'
      <3>1. \A i, j \in TaskSlots : task'[i] = task'[j] /\ task'[i] # NULL => i = j
        BY <1>1, <2>1 DEF TableOK
      <3>2. task'[1] = Init1 /\ used' = Listed'
        BY <1>1, <1>3, <1>8, <2>1, <2>2, Names DEF TableOK
      <3> QED BY <2>1, <3>1, <3>2 DEF TableOK
    <2>4. DomainsOK'
      BY <1>1, <1>8 DEF DomainsOK
    <2>5. Family(Linked, p_pptr', p_cptr', p_ysptr', p_osptr') /\ Aged(Linked, p_osptr') /\ Deep(Linked, p_pptr')
      <3>1. /\ \A r \in Linked \cup {Idle} : p_cptr'[r] = p_cptr[r]
            /\ \A r \in Linked : p_pptr'[r] = p_pptr[r] /\ p_ysptr'[r] = p_ysptr[r] /\ p_osptr'[r] = p_osptr[r]
        BY <1>1, <1>6, <1>8, Names DEF DomainsOK
      <3> QED BY <1>6, <3>1, LinksKept
    <2>6. ParentsLive(Linked, p_pptr', state')
      <3>1. \A r \in Linked : p_pptr'[r] = p_pptr[r] /\ p_pptr[r] \in All
        BY <1>1, <1>6, <1>8, Names DEF DomainsOK, Family
      <3>2. \A r \in All : state[r] # "zombie" => state'[r] # "zombie"
        BY <1>1, <1>8 DEF DomainsOK
      <3> QED BY <1>6, <3>1, <3>2, Names DEF ParentsLive
    <2> QED BY <1>5, <2>2, <2>3, <2>4, <2>5, <2>6 DEF TreeInv
  <1> QED BY <1>7, <1>8 DEF CopyMem

LEMMA ExitStep ==
  ASSUME ProcessTreeAssumption, TreeInv, NEW p \in TaskPages, DoExit(p)
  PROVE  TreeInv'
  <1>1. /\ pc[p] = "user" /\ CanRun(p) /\ TableOK /\ DomainsOK /\ p \in All /\ pc[p] \notin Forking
        /\ task[1] = Init1 /\ p # Init1 /\ state' = [state EXCEPT ![p] = "zombie"]
        /\ UNCHANGED <<task, used, pc, nr, child>>
    BY Names DEF DoExit, TreeInv, TableOK, control, Forking
  <1>2. p \in Linked /\ Linked = Listed /\ \A r \in TaskPages : pc[r] \notin Forking
    BY <1>1, Alone
  <1>3. /\ Family(Linked, p_pptr, p_cptr, p_ysptr, p_osptr) /\ Aged(Linked, p_osptr) /\ Deep(Linked, p_pptr)
        /\ ParentsLive(Linked, p_pptr, state) /\ Linked \subseteq All /\ Init1 \in Linked
    BY <1>2, Names DEF TreeInv, Family
  <1> DEFINE kids == Kids(Linked, p_pptr, p)
             e == CHOOSE c \in kids : p_osptr[c] = NULL
  <1>4. Children(p) = kids
    BY <1>2, <1>3, ChildrenAreKids
  <1>5. /\ p_pptr' = [q \in All |-> IF q \in kids THEN Init1 ELSE p_pptr[q]]
        /\ IF kids = {}
             THEN UNCHANGED <<p_cptr, p_ysptr, p_osptr>>
             ELSE /\ p_osptr' = [p_osptr EXCEPT ![e] = p_cptr[Init1]]
                  /\ p_ysptr' = [p_ysptr EXCEPT ![p_cptr[Init1]] = e]
                  /\ p_cptr' = [p_cptr EXCEPT ![Init1] = p_cptr[p], ![p] = NULL]
    BY <1>1, <1>4 DEF DoExit
  <1>6. Listed' = Listed /\ TableOK' /\ ForksOK' /\ Linked' = Linked
    <2>1. Listed' = Listed /\ TableOK'
      BY <1>1 DEF Listed, TableOK
    <2> QED BY <1>1, <1>2, <2>1 DEF ForksOK, Linked, Copying, Forking
  <1>7. DomainsOK'
    BY <1>1, <1>5 DEF DomainsOK
  <1>8. ParentsLive(Linked, p_pptr', state')
    <2>1. \A r \in Linked : p_pptr'[r] \in All /\ p_pptr'[r] # p /\ state[p_pptr'[r]] # "zombie"
      <3> TAKE r \in Linked
      <3>1. CASE r \in kids
        BY <1>1, <1>3, <1>5, <3>1, Names DEF ParentsLive
      <3>2. CASE r \notin kids
        BY <1>3, <1>5, <3>2, Names DEF ParentsLive, Kids, Family
      <3> QED BY <3>1, <3>2
    <2>2. \A r \in All : r # p => state'[r] = state[r]
      BY <1>1 DEF DomainsOK
    <2> QED BY <1>1, <1>3, <2>1, <2>2, Names DEF ParentsLive
  <1> HIDE DEF kids, e
  <1>9. CASE kids = {}
    <2>1. \A r \in Linked : p_pptr'[r] = p_pptr[r]
      BY <1>3, <1>5, <1>9
    <2>2. Family(Linked, p_pptr', p_cptr', p_ysptr', p_osptr') /\ Aged(Linked, p_osptr') /\ Deep(Linked, p_pptr')
      BY <1>3, <1>5, <1>9, <2>1, LinksKept
    <2> QED BY <1>6, <1>7, <1>8, <2>2 DEF TreeInv
  <1>10. CASE kids # {}
    <2>1. e \in kids /\ p_osptr[e] = NULL
      BY <1>3, <1>10, EldestExists DEF kids, e
    <2>2. e \in All /\ Init1 \in All
      BY <1>3, <2>1 DEF kids, Kids
    <2>3. Adopted(p, kids, e, p_pptr, p_cptr, p_ysptr, p_osptr, p_pptr', p_cptr', p_ysptr', p_osptr')
      BY <1>1, <1>5, <1>10, <2>2 DEF Adopted, DomainsOK
    <2> DEFINE pp == p_pptr'
               cp == p_cptr'
               yp == p_ysptr'
               op == p_osptr'
    <2>4. Adopted(p, kids, e, p_pptr, p_cptr, p_ysptr, p_osptr, pp, cp, yp, op)
      BY <2>3
    <2> HIDE DEF pp, cp, yp, op
    <2>5. Family(Linked, pp, cp, yp, op)
      BY <1>1, <1>2, <1>3, <2>1, <2>4, AdoptedFamily DEF kids
    <2>6. Aged(Linked, op) /\ Deep(Linked, pp)
      BY <1>1, <1>2, <1>3, <2>1, <2>4, AdoptedAged DEF kids
    <2> QED BY <1>6, <1>7, <1>8, <2>5, <2>6 DEF TreeInv, pp, cp, yp, op
  <1> QED BY <1>9, <1>10

LEMMA ReapStep ==
  ASSUME ProcessTreeAssumption, TreeInv, NEW p \in TaskPages, CanRun(p), pc[p] = "wait",
         NEW c \in Children(p), state[c] = "zombie", Release(c), Goto(p, "user"), UNCHANGED <<nr, child>>
  PROVE  TreeInv'
  <1>1. /\ TableOK /\ DomainsOK /\ p \in All /\ pc[p] \notin Forking /\ pc' = [pc EXCEPT ![p] = "user"]
    BY Names DEF TreeInv, Forking, Goto
  <1>2. p \in Linked /\ Linked = Listed /\ \A r \in TaskPages \ {p} : pc[r] \notin Forking
    BY <1>1, Alone
  <1>3. /\ Family(Linked, p_pptr, p_cptr, p_ysptr, p_osptr) /\ Aged(Linked, p_osptr) /\ Deep(Linked, p_pptr)
        /\ ParentsLive(Linked, p_pptr, state) /\ Linked \subseteq All /\ Init1 \in Linked
    BY <1>2, Names DEF TreeInv, Family
  <1>4. Children(p) = Kids(Linked, p_pptr, p)
    BY <1>2, <1>3, ChildrenAreKids
  <1>5. c \in Linked /\ c \in All /\ p_pptr[c] = p /\ c # Init1 /\ c # NULL /\ \A r \in Linked : p_pptr[r] # c
    BY <1>3, <1>4, Names DEF ParentsLive, Kids
  <1>6. \A r \in TaskPages : pc'[r] \notin Forking
    BY <1>1, <1>2 DEF Forking, DomainsOK
  <1>7. ForksOK' /\ Linked' = Listed'
    BY <1>6 DEF Forking, ForksOK, Linked, Copying
  <1>8. /\ task' = [i \in TaskSlots |-> IF task[i] = c THEN NULL ELSE task[i]]
        /\ used' = used \ {c} /\ state' = [state EXCEPT ![c] = "free"]
    BY DEF Release
  <1>9. Listed' = Linked \ {c}
    <2>1. ASSUME NEW r PROVE r \in Listed' <=> r \in Listed \ {c}
      <3>1. r \in Listed' <=> r # NULL /\ \E i \in TaskSlots : task'[i] = r
        BY DEF Listed
      <3>2. r \in Listed <=> r # NULL /\ \E i \in TaskSlots : task[i] = r
        BY DEF Listed
      <3> QED BY <1>8, <3>1, <3>2
    <2> QED BY <1>2, <2>1
  <1>10. TableOK'
    <2>1. task' \in [TaskSlots -> TaskPages \cup {NULL}]
      BY <1>1, <1>8 DEF TableOK
    <2>2. \A i, j \in TaskSlots : task'[i] = task'[j] /\ task'[i] # NULL => i = j
      BY <1>1, <1>8 DEF TableOK
    <2>3. task'[1] = Init1 /\ used' = Listed'
      BY <1>1, <1>2, <1>5, <1>8, <1>9, Names DEF TableOK
    <2> QED BY <2>1, <2>2, <2>3 DEF TableOK
  <1>11. DomainsOK'
    BY <1>1 DEF DomainsOK, Release
  <1>12. Reaped(c, p_pptr, p_cptr, p_ysptr, p_osptr, p_pptr', p_cptr', p_ysptr', p_osptr')
    BY <1>1, <1>5 DEF Release, Reaped, DomainsOK
  <1> DEFINE pp == p_pptr'
             cp == p_cptr'
             yp == p_ysptr'
             op == p_osptr'
  <1>13. Reaped(c, p_pptr, p_cptr, p_ysptr, p_osptr, pp, cp, yp, op)
    BY <1>12
  <1> HIDE DEF pp, cp, yp, op
  <1>14. Family(Linked \ {c}, pp, cp, yp, op)
    BY <1>3, <1>5, <1>13, ReapedFamily
  <1>15. Aged(Linked \ {c}, op) /\ Deep(Linked \ {c}, pp)
    BY <1>3, <1>5, <1>13, ReapedAged
  <1>16. ParentsLive(Linked \ {c}, pp, state')
    <2>1. \A r \in Linked \ {c} : pp[r] = p_pptr[r] /\ p_pptr[r] \in All
      BY <1>3, <1>13, Names DEF Reaped, Family
    <2>2. \A r \in All : state[r] # "zombie" => state'[r] # "zombie"
      BY <1>1, <1>8 DEF DomainsOK
    <2> QED BY <1>3, <2>1, <2>2, Names DEF ParentsLive
  <1> QED BY <1>7, <1>9, <1>10, <1>11, <1>14, <1>15, <1>16 DEF TreeInv, pp, cp, yp, op

LEMMA RepeatStep ==
  ASSUME ProcessTreeAssumption, TreeInv, NEW p \in TaskPages, Repeat(p)
  PROVE  TreeInv'
  <1> DEFINE s == Sibling(p)
             asked == {c \in Children(p) : wanted[p] \in {-1, pid[c]}}
             zombies == {n \in DOMAIN s : s[n] \in asked /\ state[s[n]] = "zombie"}
             n == CHOOSE m \in zombies : \A l \in zombies : m <= l
  <1>1. /\ pc[p] = "wait" /\ CanRun(p) /\ UNCHANGED <<nr, child>> /\ pc[p] \notin Forking
        /\ DomainsOK /\ p \in All /\ p # Idle
    BY Names DEF Repeat, Forking, TreeInv
  <1>2. CASE zombies # {} /\ Release(s[n]) /\ Goto(p, "user")
    <2>1. zombies \subseteq Nat
      BY SiblingIsChain DEF IsChain
    <2>2. \E m \in zombies : \A l \in zombies : m <= l
      <3> HIDE DEF zombies
      <3> QED BY <1>2, <2>1, LeastOf
    <2>3. n \in zombies
      BY <2>2
    <2>4. s[n] \in Children(p) /\ state[s[n]] = "zombie"
      BY <2>3
    <2> HIDE DEF s, n
    <2> QED BY <1>1, <1>2, <2>4, ReapStep
  <1>3. CASE Goto(p, "user") /\ UNCHANGED <<task, used, state, links>>
    <2>1. /\ DomainsOK' /\ pc'[p] = "user" /\ \A q \in All \ {p} : pc'[q] = pc[q] /\ state'[q] = state[q]
      BY <1>1, <1>3 DEF DomainsOK, Goto, links
    <2>2. state'[p] # "zombie" /\ pc'[p] \notin Forking
      BY <1>1, <1>3, <2>1 DEF CanRun, Forking
    <2> QED BY <1>1, <1>3, <2>1, <2>2, PlainStep
  <1>4. CASE /\ state' = [state EXCEPT ![p] = "interruptible"] /\ Goto(p, "asleep")
             /\ UNCHANGED <<task, used, links>>
    <2>1. /\ DomainsOK' /\ pc'[p] = "asleep" /\ \A q \in All \ {p} : pc'[q] = pc[q] /\ state'[q] = state[q]
          /\ state'[p] = "interruptible"
      BY <1>1, <1>4 DEF DomainsOK, Goto, links
    <2>2. state'[p] # "zombie" /\ pc'[p] \notin Forking
      BY <2>1 DEF Forking
    <2> QED BY <1>1, <1>4, <2>1, <2>2, PlainStep
  <1>5. CASE UNCHANGED <<task, used, state, links, pc>>
    <2>1. /\ DomainsOK' /\ pc' = pc /\ state' = state
      BY <1>1, <1>5 DEF DomainsOK, links
    <2>2. state'[p] # "zombie" /\ pc'[p] \notin Forking
      BY <1>1, <2>1 DEF CanRun, Forking
    <2> QED BY <1>1, <1>5, <2>1, <2>2, PlainStep
  <1>6. \/ zombies # {} /\ Release(s[n]) /\ Goto(p, "user")
        \/ Goto(p, "user") /\ UNCHANGED <<task, used, state, links>>
        \/ /\ state' = [state EXCEPT ![p] = "interruptible"] /\ Goto(p, "asleep")
           /\ UNCHANGED <<task, used, links>>
        \/ UNCHANGED <<task, used, state, links, pc>>
    BY Zenon DEF Repeat
  <1> QED BY <1>2, <1>3, <1>4, <1>5, <1>6

LEMMA WaitStep ==
  ASSUME ProcessTreeAssumption, TreeInv, NEW p \in TaskPages, NEW k, WaitPid(p, k)
  PROVE  TreeInv'
  <1>1. /\ CanRun(p) /\ pc[p] \notin Forking /\ UNCHANGED <<task, used, state, links>>
        /\ nr' = nr /\ child' = child /\ DomainsOK /\ p \in All
    BY Names DEF WaitPid, Forking, TreeInv
  <1>2. /\ DomainsOK' /\ pc'[p] = "wait" /\ \A q \in All \ {p} : pc'[q] = pc[q]
    BY <1>1 DEF WaitPid, DomainsOK, Goto, links
  <1>3. state'[p] # "zombie" /\ pc'[p] \notin Forking
    BY <1>1, <1>2 DEF CanRun, Forking
  <1> QED BY <1>1, <1>2, <1>3, PlainStep

LEMMA NextTree ==
  ASSUME ProcessTreeAssumption, ~MemoryShort, TreeInv, [TreeNext]_treeVars
  PROVE  TreeInv'
  <1>1. CASE UNCHANGED treeVars
    BY <1>1, SameTree DEF treeVars, control
  <1>2. CASE TreeNext
    <2>1. PICK p \in TaskPages : TreeStep(p)
      BY <1>2 DEF TreeNext
    <2>2. CASE FindEmptyProcess(p)
      BY <2>2, FindStep
    <2>3. CASE CopyProcess(p)
      BY <2>3, CopyStep
    <2>4. CASE CopyMem(p)
      BY <2>4, CopyMemStep
    <2>5. CASE DoExit(p)
      BY <2>5, ExitStep
    <2>6. CASE Repeat(p)
      BY <2>6, RepeatStep
    <2>7. CASE WakeWaiter(p)
      BY <2>7, WakeStep
    <2>8. CASE TakeSigchld(p) \/ Block(p)
      BY <2>8, SameTree DEF TakeSigchld, Block, control
    <2>9. CASE WaitPid(p, -1) \/ (WaitForPid /\ \E c \in Children(p) : WaitPid(p, pid[c]))
      BY <2>9, WaitStep
    <2> QED BY <2>1, <2>2, <2>3, <2>4, <2>5, <2>6, <2>7, <2>8, <2>9 DEF TreeStep, InKernel
  <1> QED BY <1>1, <1>2

LEMMA TreeInvHolds == ~MemoryShort => (TreeSpec => []TreeInv)
  <1> SUFFICES ASSUME ~MemoryShort PROVE TreeSpec => []TreeInv
    OBVIOUS
  <1>1. TreeInit => TreeInv
    BY ProcessTreeConstants, InitTree
  <1>2. TreeInv /\ [TreeNext]_treeVars => TreeInv'
    BY ProcessTreeConstants, NextTree
  <1> QED BY <1>1, <1>2, PTL DEF TreeSpec

(* When memory does not run short, and whenever nobody is in the middle of
   a system call: the list that waitpid walks from p_cptr along p_osptr
   holds exactly the tasks whose p_pptr is the task; every parent is alive;
   and every page given out for a task structure is in the table. *)
THEOREM TasksAreListed == ~MemoryShort => (TreeSpec => []EveryTaskIsListed)
  <1>1. ASSUME ProcessTreeAssumption, TreeInv PROVE EveryTaskIsListed
    <2> SUFFICES ASSUME current = NULL PROVE EveryTaskIsListed
      BY DEF EveryTaskIsListed
    <2>1. \A p \in TaskPages : pc[p] # "copy"
      BY <1>1, Names DEF TreeInv, ForksOK
    <2>2. Linked = Listed
      BY <2>1 DEF Linked, Copying
    <2>3. /\ Family(Listed, p_pptr, p_cptr, p_ysptr, p_osptr) /\ Aged(Listed, p_osptr)
          /\ ParentsLive(Listed, p_pptr, state) /\ used = Listed
      BY <1>1, <2>2 DEF TreeInv, TableOK
    <2>4. \A p \in Listed \cup {Idle} : Children(p) = {q \in Listed : p_pptr[q] = p}
      BY <1>1, <2>3, ChildrenAreKids DEF Kids
    <2> QED BY <2>3, <2>4 DEF EveryTaskIsListed, ParentsLive
  <1>2. TreeInv => EveryTaskIsListed
    BY <1>1, ProcessTreeConstants
  <1> QED BY <1>2, TreeInvHolds, PTL

-----------------------------------------------------------------------------
(* do_exit writes to task[1]->p_cptr->p_ysptr (exit.c:349) without a test. *)
InitHasAChild ==
  \A p \in TaskPages : pc[p] = "user" /\ CanRun(p) /\ p # task[1] => p_cptr[task[1]] # NULL

(* A task nearest to the root, init apart, is a child of init. *)
LEMMA InitIsParent ==
  ASSUME ProcessTreeAssumption, NEW L, NEW pp, NEW cp, NEW yp, NEW op,
         Family(L, pp, cp, yp, op), Deep(L, pp), L \ {Init1} # {}
  PROVE  \E q \in L : pp[q] = Init1
  <1>1. PICK depth : IsDepth(depth, L, pp)
    BY DEF Deep
  <1>2. L \subseteq All
    BY Names DEF Family
  <1> DEFINE D == {depth[q] : q \in L \ {Init1}}
  <1>3. D \subseteq Nat /\ D # {}
    BY <1>1, <1>2 DEF IsDepth
  <1>4. PICK m \in D : \A n \in D : m <= n
    <2> HIDE DEF D
    <2> QED BY <1>3, LeastOf
  <1>5. PICK q \in L \ {Init1} : depth[q] = m
    OBVIOUS
  <1>6. pp[q] \in L
    BY Names DEF Family
  <1>7. pp[q] = Init1
    <2> SUFFICES ASSUME pp[q] # Init1 PROVE FALSE
      OBVIOUS
    <2>1. m <= depth[pp[q]]
      BY <1>4, <1>6
    <2>2. depth[pp[q]] < m /\ depth[pp[q]] \in Nat /\ m \in Nat
      BY <1>1, <1>2, <1>3, <1>5, <1>6 DEF IsDepth
    <2> QED BY <2>1, <2>2
  <1> QED BY <1>7

LEMMA YoungestExists ==
  ASSUME NEW L, NEW pp, NEW cp, NEW yp, NEW op, L \subseteq All,
         Family(L, pp, cp, yp, op), Aged(L, op), NEW p, Kids(L, pp, p) # {}
  PROVE  \E c \in Kids(L, pp, p) : yp[c] = NULL
  <1> DEFINE kids == Kids(L, pp, p)
  <1>1. PICK age, k : IsAge(age, k, L, op)
    BY DEF Aged
  <1> DEFINE ages == {age[c] : c \in kids}
  <1>2. \A c \in kids : c \in L /\ pp[c] = p /\ age[c] \in Nat
    BY <1>1 DEF Kids, IsAge
  <1>3. ages \subseteq Nat /\ ages # {}
    BY <1>2
  <1>4. PICK m \in ages : \A n \in ages : m <= n
    <2> HIDE DEF ages
    <2> QED BY <1>3, LeastOf
  <1>5. PICK c \in kids : m = age[c]
    OBVIOUS
  <1>6. yp[c] = NULL
    <2> SUFFICES ASSUME yp[c] # NULL PROVE FALSE
      OBVIOUS
    <2> DEFINE d == yp[c]
    <2>1. d \in L /\ op[d] = c /\ NULL \notin L
      BY <1>2, ProcessTreeConstants, Names DEF Family
    <2>2. pp[d] = p /\ age[d] < age[c]
      BY <1>1, <1>2, <2>1 DEF Family, IsAge
    <2>3. d \in kids /\ m <= age[d]
      BY <1>4, <2>1, <2>2 DEF Kids
    <2> QED BY <1>2, <1>5, <2>2, <2>3
  <1> QED BY <1>6

(* When memory does not run short, a task that may call exit, init apart,
   finds a child in init's list: the write that joins the two lists does
   not go through a null pointer. *)
THEOREM OrphansFindSiblings == ~MemoryShort => (TreeSpec => []InitHasAChild)
  <1>1. ASSUME ProcessTreeAssumption, TreeInv PROVE InitHasAChild
    <2> SUFFICES ASSUME NEW p \in TaskPages, CanRun(p), p # Init1 PROVE p_cptr[Init1] # NULL
      BY <1>1 DEF InitHasAChild, TreeInv, TableOK
    <2>1. p \in Linked
      BY <1>1, Alone
    <2>2. Family(Linked, p_pptr, p_cptr, p_ysptr, p_osptr) /\ Aged(Linked, p_osptr) /\ Deep(Linked, p_pptr)
      BY <1>1 DEF TreeInv
    <2>3. \E q \in Linked : p_pptr[q] = Init1
      BY <1>1, <2>1, <2>2, InitIsParent
    <2>4. Kids(Linked, p_pptr, Init1) # {}
      BY <2>3 DEF Kids
    <2>5. Linked \subseteq All
      BY <1>1, <2>2, Names DEF Family
    <2>6. PICK q \in Linked : p_pptr[q] = Init1 /\ p_ysptr[q] = NULL
      BY <2>2, <2>4, <2>5, YoungestExists DEF Kids
    <2> QED BY <1>1, <2>2, <2>6, Names DEF Family
  <1>2. TreeInv => InitHasAChild
    BY <1>1, ProcessTreeConstants
  <1> QED BY <1>2, TreeInvHolds, PTL
=============================================================================
