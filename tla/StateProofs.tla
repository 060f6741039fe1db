----------------------------- MODULE StateProofs -----------------------------
(***************************************************************************)
(* Proofs about the state manager (TipsetState): it computes a state once  *)
(* and judges chains right, whatever its tasks do at the same time.        *)
(***************************************************************************)
EXTENDS TipsetState, DataInduction

-----------------------------------------------------------------------------
(* The walk of validate_chain *)

\* A tipset of the walk from the one of its parent.
Extend(t, w) == IF w = <<>> THEN <<>> ELSE Append(w, t)
First(t, height) == IF HeightOf[t] = height THEN <<t>> ELSE <<>>
Ends(height) == {t \in Chain : HeightOf[t] = height \/ t = Genesis}
Walk(height) ==
    CHOOSE w : w = [t \in Chain |-> IF HeightOf[t] = height THEN <<t>>
                                   ELSE IF t = Genesis THEN <<>>
                                   ELSE IF w[ParentOf[t]] = <<>> THEN <<>> ELSE Append(w[ParentOf[t]], t)]

\* The walk is a sequence of tipsets of the chain.
LEMMA WalkInChain ==
    ASSUME StateAssumption, NEW height, NEW tip \in Chain
    PROVE  WalkFrom(tip, height) \in Seq(Chain)
<1> DEFINE value == [t \in Chain |-> First(t, height)]
           grow == [x \in Chain \X Seq(Chain) |-> Extend(x[1], x[2])]
           Met(w, t) == IF HeightOf[t] = height THEN <<t>>
                         ELSE IF t = Genesis THEN <<>>
                         ELSE IF w[ParentOf[t]] = <<>> THEN <<>> ELSE Append(w[ParentOf[t]], t)
<1>1. Tree(Chain, HeightOf, ParentOf, Ends(height))
  BY DEF StateAssumption, Tree, Ends
<1>2. value \in [Chain -> Seq(Chain)]
  BY DEF First
<1>3. grow \in [Chain \X Seq(Chain) -> Seq(Chain)]
  BY DEF Extend
<1>4. PICK f \in [Chain -> Seq(Chain)] : Computed(f, Chain, ParentOf, Ends(height), value, grow)
  <2> HIDE DEF value, grow
  <2> QED
    BY <1>1, <1>2, <1>3, TreeRecursion, Zenon
<1>5. ASSUME NEW t \in Chain PROVE f[t] = Met(f, t)
  <2>1. CASE t \in Ends(height)
    <3>1. f[t] = First(t, height)
      BY <1>4, <2>1, Zenon DEF Computed
    <3> QED
      BY <2>1, <3>1 DEF First, Ends
  <2>2. CASE t \notin Ends(height)
    <3>1. ParentOf[t] \in Chain /\ HeightOf[t] # height /\ t # Genesis
      BY <2>2 DEF StateAssumption, Ends
    <3>2. f[ParentOf[t]] \in Seq(Chain)
      BY <3>1
    <3>3. f[t] = grow[<<t, f[ParentOf[t]]>>]
      <4> HIDE DEF grow, value
      <4> QED
        BY <1>4, <2>2 DEF Computed
    <3>4. grow[<<t, f[ParentOf[t]]>>] = Extend(t, f[ParentOf[t]])
      BY <3>2
    <3> QED
      BY <3>1, <3>3, <3>4 DEF Extend
  <2> QED
    BY <2>1, <2>2
<1>6. f = [t \in Chain |-> Met(f, t)]
  BY <1>4, <1>5
<1>7. Walk(height) = [t \in Chain |-> Met(Walk(height), t)]
  BY <1>6, Zenon DEF Walk
<1> DEFINE w == Walk(height)
           odd == {t \in Chain : w[t] \notin Seq(Chain)}
           heights == {HeightOf[t] : t \in odd}
<1>8. ASSUME NEW t \in Chain PROVE w[t] = Met(w, t)
  BY <1>7, Zenon
<1> HIDE DEF w
<1>9. odd = {}
  <2> SUFFICES ASSUME odd # {} PROVE FALSE
    OBVIOUS
  <2>1. heights \in SUBSET Nat /\ heights # {}
    BY DEF StateAssumption
  <2>2. PICK n \in heights : \A m \in heights : n <= m
    <3> HIDE DEF heights
    <3> QED
      BY <2>1, LeastNat, Zenon
  <2>3. PICK t \in odd : n = HeightOf[t]
    OBVIOUS
  <2>4. HeightOf[t] # height /\ t # Genesis
    <3>1. <<t>> \in Seq(Chain) /\ <<>> \in Seq(Chain)
      OBVIOUS
    <3> QED
      BY <1>8, <3>1, Zenon
  <2>5. ParentOf[t] \in Chain /\ HeightOf[ParentOf[t]] < HeightOf[t]
        /\ HeightOf[t] \in Nat /\ HeightOf[ParentOf[t]] \in Nat
    BY <2>4 DEF StateAssumption
  <2>6. w[ParentOf[t]] \in Seq(Chain)
    <3>1. ParentOf[t] \in odd => HeightOf[ParentOf[t]] \in heights
      OBVIOUS
    <3>2. HeightOf[ParentOf[t]] \notin heights
      <4> HIDE DEF heights
      <4> QED
        BY <2>2, <2>3, <2>5
    <3> QED
      BY <2>5, <3>1, <3>2
  <2>7. w[t] = IF w[ParentOf[t]] = <<>> THEN <<>> ELSE Append(w[ParentOf[t]], t)
    BY <1>8, <2>4, Zenon
  <2>8. <<>> \in Seq(Chain) /\ Append(w[ParentOf[t]], t) \in Seq(Chain)
    BY <2>6
  <2> QED
    BY <2>7, <2>8, Zenon
<1>10. WalkFrom(tip, height) = w[tip]
  BY DEF WalkFrom, w, Walk
<1> QED
  BY <1>9, <1>10

-----------------------------------------------------------------------------
(* The tipset states: tasks *)

\* Who computes holds the entry's lock, of an entry that is not filled; and an
\* entry is filled exactly when its state was computed.
TasksInv ==
    /\ \A p \in Tasks :
         /\ task[p].pc # "idle" => task[p].ts \in DOMAIN cache
         /\ task[p].pc = "compute" => lock[task[p].ts] = p /\ ~cache[task[p].ts]
         /\ answer[p] \in Chain => answer[p] = task[p].ts
         /\ task[p].pc # "idle" => answer[p] = none
    /\ computed \in [Chain -> Nat]
    /\ \A t \in Chain : computed[t] = IF t \in DOMAIN cache /\ cache[t] THEN 1 ELSE 0

\* The tipsets that validate_chain judges.
Judged == WalkFrom(Tip, claim.height)

\* The tipset claims what the one before it made.
Right(w, i) == claim.state[w[i]] = w[i - 1] /\ claim.receipts[w[i]] = w[i - 1]

\* VerdictIsRight, of a given walk.
VerdictOf(w) ==
    /\ verdict = "ok" => w # <<>> /\ \A i \in 2 .. Len(w) : Right(w, i)
    /\ verdict = "mismatch" => ~\A i \in 2 .. Len(w) : Right(w, i)

\* validate_chain waits for a state, or has its answer.
Busy == task[Validator].pc # "idle" \/ answer[Validator] # none

\* validate_chain has gone through the first tipsets of the walk; they claim
\* what they should, and so does the one it has asked for.
Progress(w, k) ==
    /\ k \in 0 .. Len(w)
    /\ chain \in Seq(Chain) /\ Len(chain) = Len(w) - k
    /\ \A i \in 1 .. Len(chain) : chain[i] = w[k + i]
    /\ last = IF k = 0 THEN [state |-> claim.state[w[1]], receipts |-> claim.receipts[w[1]]]
              ELSE [state |-> w[k], receipts |-> w[k]]
    /\ \A i \in 2 .. k : Right(w, i)
    /\ Busy =>
         /\ k < Len(w) /\ task[Validator].ts = w[k + 1]
         /\ k > 0 => Right(w, k + 1)

ValidatorInv ==
    /\ verdict = "none" => ~Busy
    /\ verdict = "running" => Judged # <<>> /\ \E k \in Nat : Progress(Judged, k)
    /\ VerdictIsRight

\* The inductive invariant of the state manager.
TInv == TTypeOK /\ TasksInv /\ ValidatorInv

Task == [pc : {"idle", "entry", "compute"}, ts : Chain]

\* A step that changes one task.
LEMMA OneTask ==
    ASSUME TTypeOK, NEW p \in Tasks, NEW c \in Task, task' = [task EXCEPT ![p] = c]
    PROVE  /\ task' \in [Tasks -> Task]
           /\ \A q \in Tasks \ {p} : task'[q] = task[q]
           /\ task'[p] = c
  BY DEF TTypeOK, Task

\* ... or one answer.
LEMMA OneAnswer ==
    ASSUME TTypeOK, NEW p \in Tasks, NEW a \in Chain \cup {none, "error"},
           answer' = [answer EXCEPT ![p] = a]
    PROVE  /\ answer' \in [Tasks -> Chain \cup {none, "error"}]
           /\ \A q \in Tasks \ {p} : answer'[q] = answer[q]
           /\ answer'[p] = a
  BY DEF TTypeOK

\* validate_chain stays where it is while other tasks, and its own call of
\* tipset_state, go on.
LEMMA ValidatorKept ==
    ASSUME ValidatorInv, UNCHANGED <<claim, chain, last, verdict>>,
           Busy' => Busy /\ task'[Validator].ts = task[Validator].ts
    PROVE  ValidatorInv'
<1>1. Judged' = Judged
  BY DEF Judged, WalkFrom
<1>2. VerdictIsRight'
  <2>1. VerdictIsRight <=> VerdictOf(Judged)
    BY DEF VerdictIsRight, VerdictOf, Judged, Right
  <2>2. VerdictIsRight' <=> VerdictOf(Judged)'
    BY DEF VerdictIsRight, VerdictOf, Judged, Right
  <2>3. VerdictOf(Judged)' <=> VerdictOf(Judged)
    BY <1>1 DEF VerdictOf, Right
  <2> QED
    BY <2>1, <2>2, <2>3 DEF ValidatorInv
<1>3. ASSUME NEW k \in Nat, Progress(Judged, k) PROVE Progress(Judged, k)'
  BY <1>1, <1>3 DEF Progress, Right
<1> QED
  BY <1>1, <1>2, <1>3 DEF ValidatorInv

\* tipset_state takes an entry, which is made if there is none.
LEMMA EntryTasks ==
    ASSUME StateAssumption, TTypeOK, TasksInv, NEW p \in Tasks, NEW t \in Chain, Entry(p, t),
           UNCHANGED <<lock, computed, fails>>, asks' \in 0 .. MaxAsks,
           verdict' \in {"none", "running", "ok", "mismatch", "error"}
    PROVE  /\ TTypeOK' /\ TasksInv'
           /\ \A q \in Tasks \ {p} : task'[q] = task[q] /\ answer'[q] = answer[q]
           /\ task'[p] = [pc |-> "entry", ts |-> t] /\ answer'[p] = none
<1> DEFINE c == [pc |-> "entry", ts |-> t]
<1>1. c \in Task /\ task' = [task EXCEPT ![p] = c] /\ answer' = [answer EXCEPT ![p] = none]
  BY DEF Entry, Task
<1>2. /\ task' \in [Tasks -> Task]
      /\ \A q \in Tasks \ {p} : task'[q] = task[q]
      /\ task'[p] = c
  <2> HIDE DEF c
  <2> QED
    BY <1>1, OneTask, Zenon
<1>3. /\ answer' \in [Tasks -> Chain \cup {none, "error"}]
      /\ \A q \in Tasks \ {p} : answer'[q] = answer[q]
      /\ answer'[p] = none
  BY <1>1, OneAnswer, Zenon
<1>4. /\ DOMAIN cache' = DOMAIN cache \cup {t}
      /\ \A u \in DOMAIN cache : cache'[u] = cache[u]
      /\ t \notin DOMAIN cache => cache'[t] = FALSE
  BY DEF Entry
<1>5. TTypeOK'
  BY <1>2, <1>3, <1>4, Zenon DEF TTypeOK, Task
<1>6. c.pc = "entry" /\ c.ts = t /\ none \notin Chain
  BY DEF StateAssumption
<1> HIDE DEF c
<1>7. \A q \in Tasks :
         /\ task'[q].pc # "idle" => task'[q].ts \in DOMAIN cache'
         /\ task'[q].pc = "compute" => lock'[task'[q].ts] = q /\ ~cache'[task'[q].ts]
         /\ answer'[q] \in Chain => answer'[q] = task'[q].ts
         /\ task'[q].pc # "idle" => answer'[q] = none
  <2>1. ASSUME NEW q \in Tasks, q # p PROVE task'[q] = task[q] /\ answer'[q] = answer[q]
    BY <1>2, <1>3, <2>1
  <2> QED
    BY <1>2, <1>3, <1>4, <1>6, <2>1 DEF TasksInv
<1>8. \A u \in Chain : computed'[u] = IF u \in DOMAIN cache' /\ cache'[u] THEN 1 ELSE 0
  BY <1>4 DEF TasksInv
<1>9. TasksInv'
  BY <1>7, <1>8 DEF TasksInv
<1> QED
  BY <1>2, <1>3, <1>5, <1>9 DEF c

\* What a task that goes on with its call changes: its pc, its answer, the entry.
LEMMA TaskTasks ==
    ASSUME StateAssumption, TTypeOK, TasksInv, NEW p \in Tasks, task[p].pc # "idle",
           NEW pc \in {"idle", "compute"}, NEW a \in Chain \cup {none, "error"},
           task' = [task EXCEPT ![p] = [pc |-> pc, ts |-> task[p].ts]],
           answer' = [answer EXCEPT ![p] = a],
           a \in Chain => a = task[p].ts,
           pc = "compute" => /\ lock[task[p].ts] = none /\ ~cache[task[p].ts] /\ a = none
                             /\ task[p].pc = "entry"
                             /\ lock' = [lock EXCEPT ![task[p].ts] = p] /\ UNCHANGED <<cache, computed>>,
           pc = "idle" =>
             \/ UNCHANGED <<lock, cache, computed>> /\ task[p].pc = "entry" /\ lock[task[p].ts] = none
             \/ /\ task[p].pc = "compute" /\ lock' = [lock EXCEPT ![task[p].ts] = none]
                /\ \/ UNCHANGED <<cache, computed>>
                   \/ /\ cache' = [cache EXCEPT ![task[p].ts] = TRUE]
                      /\ computed' = [computed EXCEPT ![task[p].ts] = @ + 1],
           fails' \in 0 .. MaxFails, UNCHANGED <<asks, verdict>>
    PROVE  TTypeOK' /\ TasksInv'
<1> DEFINE t == task[p].ts
           c == [pc |-> pc, ts |-> t]
<1>1. task[p] \in Task /\ t \in Chain /\ t \in DOMAIN cache
  BY DEF TTypeOK, Task, TasksInv
<1>2. c \in Task /\ c.pc = pc /\ c.ts = t
  BY <1>1 DEF Task
<1> HIDE DEF c
<1>3. /\ task' \in [Tasks -> Task]
      /\ \A q \in Tasks \ {p} : task'[q] = task[q]
      /\ task'[p] = c
  BY <1>2, OneTask, Zenon DEF c
<1>4. /\ answer' \in [Tasks -> Chain \cup {none, "error"}]
      /\ \A q \in Tasks \ {p} : answer'[q] = answer[q]
      /\ answer'[p] = a
  BY OneAnswer, Zenon
<1>5. lock' \in [Chain -> Tasks \cup {none}] /\ \A u \in Chain \ {t} : lock'[u] = lock[u]
  BY <1>1 DEF TTypeOK
<1>6. /\ DOMAIN cache' = DOMAIN cache /\ \A u \in DOMAIN cache \ {t} : cache'[u] = cache[u]
      /\ cache'[t] \in {cache[t], TRUE} /\ cache[t] \in BOOLEAN
  BY <1>1, Zenon DEF TTypeOK
<1>7. TTypeOK'
  BY <1>1, <1>3, <1>4, <1>5, <1>6, Zenon DEF TTypeOK, Task
<1>8. ASSUME NEW q \in Tasks, q # p, task[q].pc = "compute"
      PROVE  task[q].ts # t /\ task[q].ts \in Chain
  <2>1. lock[task[q].ts] = q /\ q # none /\ task[q].ts \in Chain
    BY <1>8 DEF TasksInv, StateAssumption, TTypeOK
  <2>2. CASE task[p].pc = "compute"
    BY <1>8, <2>1, <2>2 DEF TasksInv
  <2>3. CASE task[p].pc = "entry"
    <3>1. lock[t] = none
      BY <2>3
    <3> QED
      BY <2>1, <3>1
  <2> QED
    BY <1>1, <2>2, <2>3 DEF Task
<1>9. ASSUME NEW q \in Tasks, q # p
      PROVE  /\ task'[q].pc # "idle" => task'[q].ts \in DOMAIN cache'
             /\ task'[q].pc = "compute" => lock'[task'[q].ts] = q /\ ~cache'[task'[q].ts]
             /\ answer'[q] \in Chain => answer'[q] = task'[q].ts
             /\ task'[q].pc # "idle" => answer'[q] = none
  <2>1. task'[q] = task[q] /\ answer'[q] = answer[q]
    BY <1>3, <1>4, <1>9
  <2>2. ASSUME task[q].pc = "compute" PROVE lock'[task[q].ts] = q /\ ~cache'[task[q].ts]
    BY <1>5, <1>6, <1>8, <1>9, <2>2 DEF TasksInv
  <2>3. /\ task[q].pc # "idle" => task[q].ts \in DOMAIN cache
        /\ answer[q] \in Chain => answer[q] = task[q].ts
        /\ task[q].pc # "idle" => answer[q] = none
    BY DEF TasksInv
  <2>4. /\ task[q].pc # "idle" => task[q].ts \in DOMAIN cache'
        /\ task[q].pc = "compute" => lock'[task[q].ts] = q /\ ~cache'[task[q].ts]
    BY <1>6, <2>2, <2>3
  <2> QED
    BY <2>1, <2>3, <2>4, Zenon
<1>10. /\ task'[p].pc # "idle" => task'[p].ts \in DOMAIN cache'
       /\ task'[p].pc = "compute" => lock'[task'[p].ts] = p /\ ~cache'[task'[p].ts]
       /\ answer'[p] \in Chain => answer'[p] = task'[p].ts
       /\ task'[p].pc # "idle" => answer'[p] = none
  <2>1. CASE pc = "compute"
    <3>1. lock'[t] = p /\ cache' = cache /\ ~cache[t] /\ a = none
      BY <1>1, <2>1 DEF TTypeOK
    <3> QED
      BY <1>1, <1>2, <1>3, <1>4, <3>1 DEF StateAssumption
  <2>2. CASE pc = "idle"
    BY <1>2, <1>3, <1>4, <2>2
  <2> QED
    BY <2>1, <2>2
<1>11. /\ computed' \in [Chain -> Nat]
       /\ \A u \in Chain : computed'[u] = IF u \in DOMAIN cache' /\ cache'[u] THEN 1 ELSE 0
  <2>1. CASE UNCHANGED <<cache, computed>>
    BY <2>1 DEF TasksInv
  <2>2. CASE /\ task[p].pc = "compute"
             /\ cache' = [cache EXCEPT ![t] = TRUE]
             /\ computed' = [computed EXCEPT ![t] = @ + 1]
    <3>1. ~cache[t] /\ computed[t] = 0 /\ computed \in [Chain -> Nat]
      BY <1>1, <2>2 DEF TasksInv
    <3>2. computed'[t] = 1 /\ cache'[t] = TRUE /\ computed' \in [Chain -> Nat]
      BY <1>1, <2>2, <3>1
    <3>3. ASSUME NEW u \in Chain, u # t
          PROVE  computed'[u] = IF u \in DOMAIN cache' /\ cache'[u] THEN 1 ELSE 0
      <4>1. computed'[u] = computed[u] /\ (u \in DOMAIN cache => cache'[u] = cache[u])
        BY <1>6, <2>2, <3>1, <3>3
      <4> QED
        BY <1>6, <4>1 DEF TasksInv
    <3> QED
      BY <1>1, <1>6, <3>2, <3>3
  <2> QED
    BY <2>1, <2>2
<1> QED
  BY <1>7, <1>9, <1>10, <1>11 DEF TasksInv

\* A task inside tipset_state goes on: it takes the lock, or finds the entry
\* filled, or ends its computation.
LEMMA TaskKeeps ==
    ASSUME StateAssumption, TInv, NEW p \in Tasks, TaskStep(p)
    PROVE  TInv'
<1> DEFINE t == task[p].ts
<1>1. TTypeOK /\ TasksInv /\ ValidatorInv
  BY DEF TInv
<1>2. task[p] \in Task /\ t \in Chain /\ task[p].pc # "idle"
  BY <1>1 DEF TTypeOK, Task, TaskStep, Lock, Compute, Fail
<1>3. /\ task \in [Tasks -> Task]
      /\ \A pc \in {"idle", "compute"} :
           [task EXCEPT ![p].pc = pc] = [task EXCEPT ![p] = [pc |-> pc, ts |-> task[p].ts]]
  <2>1. task \in [Tasks -> Task]
    BY <1>1 DEF TTypeOK, Task
  <2>2. ASSUME NEW pc \in {"idle", "compute"}
        PROVE  [task[p] EXCEPT !.pc = pc] = [pc |-> pc, ts |-> task[p].ts]
    BY <1>2 DEF Task
  <2>3. ASSUME NEW pc \in {"idle", "compute"}
        PROVE  [task EXCEPT ![p].pc = pc] = [task EXCEPT ![p] = [task[p] EXCEPT !.pc = pc]]
    BY <2>1
  <2> QED
    BY <2>1, <2>2, <2>3, Zenon
<1>4. answer[p] = none /\ answer = [answer EXCEPT ![p] = none]
  BY <1>1, <1>2 DEF TTypeOK, TasksInv
<1>5. \E pc \in {"idle", "compute"}, a \in Chain \cup {none, "error"} :
        /\ TTypeOK' /\ TasksInv'
        /\ task' = [task EXCEPT ![p] = [pc |-> pc, ts |-> task[p].ts]]
        /\ answer' = [answer EXCEPT ![p] = a]
  <2>1. CASE Lock(p) /\ cache[t]
    <3>1. /\ task' = [task EXCEPT ![p] = [pc |-> "idle", ts |-> task[p].ts]]
          /\ answer' = [answer EXCEPT ![p] = t]
          /\ UNCHANGED <<lock, cache, computed, asks, verdict>> /\ fails' \in 0 .. MaxFails
          /\ task[p].pc = "entry" /\ lock[task[p].ts] = none
      BY <1>1, <1>3, <2>1 DEF Lock, Return, TTypeOK
    <3>2. TTypeOK' /\ TasksInv'
      BY <1>1, <1>2, <3>1, TaskTasks, Zenon
    <3> QED
      BY <1>2, <3>1, <3>2, Zenon
  <2>2. CASE Lock(p) /\ ~cache[t]
    <3>1. /\ task' = [task EXCEPT ![p] = [pc |-> "compute", ts |-> task[p].ts]]
          /\ answer' = [answer EXCEPT ![p] = none]
          /\ lock' = [lock EXCEPT ![task[p].ts] = p] /\ lock[task[p].ts] = none /\ ~cache[task[p].ts]
          /\ UNCHANGED <<cache, computed, asks, verdict>> /\ fails' \in 0 .. MaxFails
          /\ task[p].pc = "entry" /\ none \notin Chain
      BY <1>1, <1>3, <1>4, <2>2 DEF Lock, TTypeOK, StateAssumption
    <3>2. TTypeOK' /\ TasksInv'
      BY <1>1, <1>2, <3>1, TaskTasks, Zenon
    <3> QED
      BY <3>1, <3>2, Zenon
  <2>3. CASE Compute(p)
    <3>1. /\ task' = [task EXCEPT ![p] = [pc |-> "idle", ts |-> task[p].ts]]
          /\ answer' = [answer EXCEPT ![p] = t]
          /\ UNCHANGED <<asks, verdict>> /\ fails' \in 0 .. MaxFails
          /\ task[p].pc = "compute" /\ lock' = [lock EXCEPT ![task[p].ts] = none]
          /\ cache' = [cache EXCEPT ![task[p].ts] = TRUE]
          /\ computed' = [computed EXCEPT ![task[p].ts] = @ + 1]
      BY <1>1, <1>3, <2>3 DEF Compute, Return, TTypeOK
    <3>2. TTypeOK' /\ TasksInv'
      BY <1>1, <1>2, <3>1, TaskTasks, Zenon
    <3> QED
      BY <1>2, <3>1, <3>2, Zenon
  <2>4. CASE Fail(p)
    <3>1. fails' \in 0 .. MaxFails
      BY <1>1, <2>4 DEF Fail, TTypeOK, StateAssumption
    <3>2. /\ task' = [task EXCEPT ![p] = [pc |-> "idle", ts |-> task[p].ts]]
          /\ answer' = [answer EXCEPT ![p] = "error"]
          /\ UNCHANGED <<asks, verdict, cache, computed>>
          /\ task[p].pc = "compute" /\ lock' = [lock EXCEPT ![task[p].ts] = none]
          /\ "error" \notin Chain
      BY <1>3, <2>4 DEF Fail, Return, StateAssumption
    <3>3. TTypeOK' /\ TasksInv'
      BY <1>1, <1>2, <3>1, <3>2, TaskTasks, Zenon
    <3> QED
      BY <3>2, <3>3, Zenon
  <2> QED
    BY <2>1, <2>2, <2>3, <2>4 DEF TaskStep
<1>6. ValidatorInv'
  <2>1. UNCHANGED <<claim, chain, last, verdict>>
    BY DEF TaskStep, Lock, Compute, Fail
  <2>2. PICK pc \in {"idle", "compute"}, a \in Chain \cup {none, "error"} :
          /\ task' = [task EXCEPT ![p] = [pc |-> pc, ts |-> task[p].ts]]
          /\ answer' = [answer EXCEPT ![p] = a]
    BY <1>5, Zenon
  <2>3. Validator \in Tasks
    BY DEF StateAssumption
  <2>4. Busy' => Busy /\ task'[Validator].ts = task[Validator].ts
    <3>1. CASE p = Validator
      BY <1>2, <1>3, <2>2, <3>1 DEF Busy
    <3>2. CASE p # Validator
      BY <1>1, <1>3, <2>2, <2>3, <3>2 DEF Busy, TTypeOK
    <3> QED
      BY <3>1, <3>2
  <2> QED
    BY <1>1, <2>1, <2>4, ValidatorKept
<1> QED
  BY <1>5, <1>6 DEF TInv

\* Another task calls tipset_state.
LEMMA AskKeeps ==
    ASSUME StateAssumption, TInv, NEW p \in Tasks, NEW t \in Chain, Ask(p, t)
    PROVE  TInv'
<1>1. asks' \in 0 .. MaxAsks
  BY DEF Ask, TInv, TTypeOK, StateAssumption
<1>2. /\ Entry(p, t) /\ p # Validator /\ UNCHANGED <<lock, computed, fails>>
      /\ verdict' \in {"none", "running", "ok", "mismatch", "error"}
      /\ UNCHANGED <<claim, chain, last, verdict>>
  BY DEF Ask, TInv, TTypeOK
<1>3. /\ TTypeOK' /\ TasksInv'
      /\ \A q \in Tasks \ {p} : task'[q] = task[q] /\ answer'[q] = answer[q]
  BY <1>1, <1>2, EntryTasks, Zenon DEF TInv
<1>4. task'[Validator] = task[Validator] /\ answer'[Validator] = answer[Validator]
  BY <1>2, <1>3 DEF StateAssumption
<1>5. ValidatorInv'
  BY <1>2, <1>4, ValidatorKept DEF TInv, Busy
<1> QED
  BY <1>3, <1>5 DEF TInv

\* VerdictIsRight speaks of the walk from the tip.
LEMMA VerdictOfWalk ==
    /\ VerdictIsRight <=> VerdictOf(Judged)
    /\ VerdictIsRight' <=> VerdictOf(Judged)'
<1>1. VerdictIsRight <=> VerdictOf(Judged)
  BY DEF VerdictIsRight, VerdictOf, Judged, Right
<1>2. VerdictIsRight' <=> VerdictOf(Judged)'
  BY DEF VerdictIsRight, VerdictOf, Judged, Right
<1> QED
  BY <1>1, <1>2

\* validate_chain walks down from the tip.
LEMMA StartKeeps ==
    ASSUME StateAssumption, TInv, StartValidate
    PROVE  TInv'
<1>1. TTypeOK' /\ TasksInv'
  BY DEF TInv, TTypeOK, TasksInv, StartValidate
<1>2. Judged' = Judged
  BY DEF Judged, WalkFrom, StartValidate
<1>3. Busy' <=> Busy
  BY DEF Busy, StartValidate
<1>4. ~Busy
  BY DEF TInv, ValidatorInv, StartValidate
<1>5. CASE Judged = <<>>
  <2>1. verdict' = "error"
    BY <1>5 DEF StartValidate, Judged
  <2> QED
    BY <1>1, <2>1, VerdictOfWalk DEF TInv, ValidatorInv, VerdictOf
<1>6. CASE Judged # <<>>
  <2>1. /\ chain' = Judged /\ verdict' = "running" /\ UNCHANGED claim
        /\ last' = [state |-> claim.state[Head(Judged)], receipts |-> claim.receipts[Head(Judged)]]
    BY <1>6 DEF StartValidate, Judged
  <2>2. Judged \in Seq(Chain)
    BY WalkInChain DEF Judged, StateAssumption
  <2>3. Head(Judged) = Judged[1] /\ Len(Judged) \in Nat
    BY <1>6, <2>2
  <2>4. Progress(Judged, 0)'
    BY <1>2, <1>3, <1>4, <2>1, <2>2, <2>3 DEF Progress
  <2> QED
    BY <1>1, <1>2, <1>6, <2>1, <2>4, VerdictOfWalk DEF TInv, ValidatorInv, VerdictOf
<1> QED
  BY <1>5, <1>6

\* One round of validate_chain: the next tipset's claims are compared with the
\* last state, and its own state is asked for.
LEMMA CheckKeeps ==
    ASSUME StateAssumption, TInv, CheckNext
    PROVE  TInv'
<1>1. /\ Judged' = Judged /\ UNCHANGED <<claim, lock, computed, fails, asks, chain, last>>
      /\ verdict = "running" /\ ~Busy
  BY DEF Judged, WalkFrom, CheckNext, Busy
<1>2. PICK k \in Nat : Progress(Judged, k)
  BY <1>1 DEF TInv, ValidatorInv
<1>3. Judged # <<>> /\ Judged \in Seq(Chain)
  BY <1>1, WalkInChain DEF TInv, ValidatorInv, Judged, StateAssumption
<1> DEFINE w == Judged
<1>4. /\ w \in Seq(Chain) /\ w # <<>> /\ Len(w) \in Nat /\ w' = w
      /\ Progress(w, k)
  BY <1>1, <1>2, <1>3
<1>5. /\ VerdictIsRight' <=> VerdictOf(w)'
      /\ VerdictOf(w)
  BY VerdictOfWalk DEF TInv, ValidatorInv
<1>6. w' = Judged'
  OBVIOUS
<1> HIDE DEF w
<1>7. CASE chain = <<>> /\ verdict' = "ok" /\ UNCHANGED <<cache, task, answer>>
  <2>1. k = Len(w)
    BY <1>4, <1>7 DEF Progress
  <2>2. \A i \in 2 .. Len(w) : Right(w, i)
    BY <1>4, <2>1 DEF Progress
  <2>3. VerdictOf(w)'
    BY <1>1, <1>4, <1>7, <2>2 DEF VerdictOf, Right
  <2>4. TTypeOK' /\ TasksInv'
    BY <1>1, <1>7 DEF TInv, TTypeOK, TasksInv
  <2> QED
    BY <1>5, <1>7, <2>3, <2>4 DEF TInv, ValidatorInv
<1>8. CASE chain # <<>> /\ ~Matches(Head(chain)) /\ verdict' = "mismatch" /\ UNCHANGED <<cache, task, answer>>
  <2>1. Head(chain) = w[k + 1] /\ k + 1 \in 1 .. Len(w)
    BY <1>4, <1>8 DEF Progress
  <2>2. k # 0
    BY <1>4, <1>8, <2>1 DEF Progress, Matches
  <2>3. ~Right(w, k + 1) /\ k + 1 \in 2 .. Len(w)
    BY <1>4, <1>8, <2>1, <2>2 DEF Progress, Matches, Right
  <2>4. VerdictOf(w)'
    BY <1>1, <1>4, <1>8, <2>3 DEF VerdictOf, Right
  <2>5. TTypeOK' /\ TasksInv'
    BY <1>1, <1>8 DEF TInv, TTypeOK, TasksInv
  <2> QED
    BY <1>5, <1>8, <2>4, <2>5 DEF TInv, ValidatorInv
<1>9. CASE chain # <<>> /\ Matches(Head(chain)) /\ Entry(Validator, Head(chain)) /\ UNCHANGED verdict
  <2>1. Head(chain) = w[k + 1] /\ k + 1 \in 1 .. Len(w) /\ Head(chain) \in Chain
    BY <1>4, <1>9 DEF Progress
  <2>2. k > 0 => Right(w, k + 1)
    BY <1>4, <1>9, <2>1 DEF Progress, Matches, Right
  <2>3. /\ UNCHANGED <<lock, computed, fails>> /\ asks' \in 0 .. MaxAsks
        /\ verdict' \in {"none", "running", "ok", "mismatch", "error"} /\ Validator \in Tasks
    BY <1>1, <1>9 DEF TInv, TTypeOK, StateAssumption
  <2>4. /\ TTypeOK' /\ TasksInv'
        /\ task'[Validator] = [pc |-> "entry", ts |-> Head(chain)]
    BY <1>9, <2>1, <2>3, EntryTasks DEF TInv
  <2>5. task'[Validator].ts = w[k + 1]
    BY <2>1, <2>4
  <2>6. Progress(w, k)'
    <3>1. UNCHANGED <<chain, last, claim>> /\ w' = w /\ k < Len(w)
      BY <1>1, <1>4, <2>1
    <3>2. \A i \in Nat : Right(w, i)' <=> Right(w, i)
      BY <3>1 DEF Right
    <3>3. /\ k \in 0 .. Len(w)'
          /\ chain' \in Seq(Chain) /\ Len(chain') = Len(w)' - k
          /\ \A i \in 1 .. Len(chain') : chain'[i] = w'[k + i]
      BY <1>4, <3>1 DEF Progress
    <3>4. last' = IF k = 0 THEN [state |-> claim'.state[w'[1]], receipts |-> claim'.receipts[w'[1]]]
                  ELSE [state |-> w'[k], receipts |-> w'[k]]
      BY <1>4, <3>1 DEF Progress
    <3>5. /\ \A i \in 2 .. k : Right(w, i)'
          /\ k > 0 => Right(w, k + 1)'
      BY <1>4, <2>2, <3>2 DEF Progress
    <3>6. k < Len(w)' /\ task'[Validator].ts = w'[k + 1]
      BY <2>5, <3>1
    <3> QED
      BY <3>3, <3>4, <3>5, <3>6 DEF Progress
  <2>7. VerdictOf(w)'
    BY <1>1, <1>9 DEF VerdictOf
  <2> QED
    BY <1>1, <1>3, <1>5, <1>9, <2>4, <2>6, <2>7 DEF TInv, ValidatorInv, w
<1> QED
  BY <1>7, <1>8, <1>9 DEF CheckNext

\* validate_chain has the state it asked for.
LEMMA TakeKeeps ==
    ASSUME StateAssumption, TInv, TakeAnswer
    PROVE  TInv'
<1>1. /\ Judged' = Judged /\ UNCHANGED <<claim, cache, lock, task, computed, fails, asks>>
      /\ verdict = "running" /\ Busy /\ answer[Validator] # none
  BY Zenon DEF Judged, WalkFrom, TakeAnswer, Busy
<1>2. PICK k \in Nat : Progress(Judged, k)
  BY <1>1 DEF TInv, ValidatorInv
<1>3. Judged # <<>> /\ Judged \in Seq(Chain)
  BY <1>1, WalkInChain DEF TInv, ValidatorInv, Judged, StateAssumption
<1> DEFINE w == Judged
<1>4. /\ w \in Seq(Chain) /\ w # <<>> /\ Len(w) \in Nat /\ w' = w
      /\ Progress(w, k)
  BY <1>1, <1>2, <1>3
<1>5. /\ VerdictIsRight' <=> VerdictOf(w)'
      /\ VerdictOf(w)
  BY VerdictOfWalk DEF TInv, ValidatorInv
<1> HIDE DEF w
<1>6. Validator \in Tasks /\ none \notin Chain
  BY DEF StateAssumption
<1>7. CASE answer[Validator] = "error"
  <2>1. verdict' = "error" /\ UNCHANGED <<answer>>
    BY <1>7 DEF TakeAnswer
  <2>2. TTypeOK' /\ TasksInv'
    BY <1>1, <2>1 DEF TInv, TTypeOK, TasksInv
  <2> QED
    BY <1>5, <2>1, <2>2 DEF TInv, ValidatorInv, VerdictOf
<1>8. CASE answer[Validator] # "error"
  <2>1. /\ chain' = Tail(chain) /\ UNCHANGED verdict
        /\ last' = [state |-> answer[Validator], receipts |-> answer[Validator]]
        /\ answer' = [answer EXCEPT ![Validator] = none]
    BY <1>8 DEF TakeAnswer
  <2>2. answer[Validator] = task[Validator].ts /\ task[Validator].pc = "idle"
    BY <1>1, <1>6, <1>8 DEF TInv, TTypeOK, TasksInv
  <2>3. /\ answer' \in [Tasks -> Chain \cup {none, "error"}]
        /\ \A q \in Tasks \ {Validator} : answer'[q] = answer[q]
        /\ answer'[Validator] = none
    BY <1>6, <2>1, OneAnswer, Zenon DEF TInv
  <2>4. TTypeOK'
    BY <1>1, <2>1, <2>3 DEF TInv, TTypeOK
  <2>5. TasksInv'
    BY <1>1, <1>6, <2>3 DEF TInv, TasksInv
  <2>6. /\ k < Len(w) /\ answer[Validator] = w[k + 1]
        /\ k > 0 => Right(w, k + 1)
        /\ chain \in Seq(Chain) /\ Len(chain) = Len(w) - k /\ Len(chain) > 0
        /\ \A i \in 1 .. Len(chain) : chain[i] = w[k + i]
        /\ \A i \in 2 .. k : Right(w, i)
    BY <1>1, <1>4, <2>2 DEF Progress
  <2>7. /\ chain' \in Seq(Chain) /\ Len(chain') = Len(w) - (k + 1)
        /\ \A i \in 1 .. Len(chain') : chain'[i] = w[(k + 1) + i]
    <3>1. chain # <<>>
      BY <2>6
    <3>2. /\ Tail(chain) \in Seq(Chain) /\ Len(Tail(chain)) = Len(chain) - 1
          /\ \A i \in 1 .. Len(Tail(chain)) : Tail(chain)[i] = chain[i + 1]
      BY <2>6, <3>1
    <3>3. ASSUME NEW i \in 1 .. Len(chain') PROVE chain'[i] = w[(k + 1) + i]
      <4>1. chain' = Tail(chain) /\ i \in 1 .. Len(Tail(chain)) /\ i \in 1 .. (Len(chain) - 1)
        BY <2>1, <3>2, <3>3
      <4>2. i + 1 \in 1 .. Len(chain) /\ k + (i + 1) = (k + 1) + i
        BY <1>4, <2>6, <4>1
      <4>3. chain'[i] = chain[i + 1]
        BY <3>2, <4>1, Zenon
      <4> QED
        BY <2>6, <4>2, <4>3
    <3>4. Len(w) \in Int /\ Len(chain) \in Int
      BY <1>4, <2>6
    <3>5. Len(Tail(chain)) = Len(w) - (k + 1)
      BY <2>6, <3>2, <3>4
    <3>6. chain' \in Seq(Chain) /\ Len(chain') = Len(w) - (k + 1)
      BY <2>1, <3>2, <3>5
    <3> QED
      BY <3>3, <3>6
  <2>8. ASSUME NEW i \in 2 .. k + 1 PROVE Right(w, i)
    <3>1. i \in 2 .. k \/ (i = k + 1 /\ k > 0)
      BY <2>8
    <3> QED
      BY <2>6, <3>1
  <2>9. ~Busy'
    BY <1>1, <2>2, <2>3 DEF Busy
  <2>10. \A i \in 2 .. k + 1 : Right(w, i)'
    BY <1>1, <1>4, <2>8 DEF Right
  <2>11. Progress(w, k + 1)'
    <3>1. /\ k + 1 \in 0 .. Len(w)' /\ k + 1 # 0
          /\ Len(chain') = Len(w)' - (k + 1)
          /\ \A i \in 1 .. Len(chain') : chain'[i] = w'[(k + 1) + i]
      BY <1>4, <2>6, <2>7
    <3>2. last' = [state |-> w'[k + 1], receipts |-> w'[k + 1]]
      BY <1>4, <2>1, <2>6
    <3> QED
      BY <2>7, <2>9, <2>10, <3>1, <3>2 DEF Progress
  <2>12. VerdictOf(w)'
    BY <1>1, <2>1 DEF VerdictOf
  <2> QED
    BY <1>1, <1>3, <1>5, <2>1, <2>4, <2>5, <2>11, <2>12 DEF TInv, ValidatorInv, w
<1> QED
  BY <1>7, <1>8

\* The invariant holds in the beginning.
LEMMA InitTInv == StateAssumption /\ TInit => TInv
<1> SUFFICES ASSUME StateAssumption, TInit PROVE TInv
  OBVIOUS
<1>1. TTypeOK
  BY DEF TInit, TTypeOK, StateAssumption
<1>2. TasksInv
  BY DEF TInit, TasksInv, StateAssumption
<1>3. ~Busy /\ verdict = "none"
  BY DEF TInit, Busy, StateAssumption
<1> QED
  BY <1>1, <1>2, <1>3, VerdictOfWalk DEF TInv, ValidatorInv, VerdictOf

\* Every step keeps it.
LEMMA NextTInv == StateAssumption /\ TInv /\ [TNext]_tsVars => TInv'
<1> SUFFICES ASSUME StateAssumption, TInv, [TNext]_tsVars PROVE TInv'
  OBVIOUS
<1>1. CASE UNCHANGED tsVars
  <2>1. UNCHANGED <<claim, chain, last, verdict>> /\ UNCHANGED <<task, answer>>
    BY <1>1 DEF tsVars
  <2>2. TTypeOK' /\ TasksInv'
    BY <1>1 DEF TInv, TTypeOK, TasksInv, tsVars
  <2>3. ValidatorInv'
    BY <2>1, ValidatorKept DEF TInv, Busy
  <2> QED
    BY <2>2, <2>3 DEF TInv
<1> QED
  BY <1>1, TaskKeeps, AskKeeps, StartKeeps, CheckKeeps, TakeKeeps DEF TNext, Validate

\* However the tasks' calls of tipset_state interleave and fail, the state of a
\* tipset is computed at most once, and validate_chain accepts a chain only if
\* every tipset above the lowest claims the state and the receipts of the one
\* before it, and finds a mismatch only if one does not: for every chain, every
\* set of tasks and every claim.
THEOREM StatesTheorem == StateAssumption /\ TSpec => []StatesAreRight
<1>1. TInv => StatesAreRight
  <2>1. TasksInv => ComputedOnce
    BY DEF TasksInv, ComputedOnce
  <2> QED
    BY <2>1 DEF TInv, ValidatorInv, StatesAreRight
<1>2. StateAssumption => []StateAssumption
  <2>1. StateAssumption => StateAssumption'
    BY DEF StateAssumption
  <2> QED
    BY <2>1, PTL
<1>3. StateAssumption /\ TInit => TInv
  BY InitTInv
<1>4. StateAssumption /\ TInv /\ [TNext]_tsVars => TInv'
  BY NextTInv
<1> QED
  BY <1>1, <1>2, <1>3, <1>4, PTL DEF TSpec

=============================================================================
