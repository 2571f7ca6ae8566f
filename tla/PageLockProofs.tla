---------------------------- MODULE PageLockProofs ----------------------------
(***************************************************************************)
(* Theorems about PageLock for any tasks and pages.                        *)
(***************************************************************************)
EXTENDS PageLock, KernelListProofs, TLAPS

(* Whoever walks along the queue has q->lock. *)
OneWalker == \A t \in Tasks : pc[t] \in WakePCs <=> qlock = t

(* A task that is not idle is in a call for some page, and only an         *)
(* exclusive waiter aborts.                                                *)
CallOK ==
  \A t \in Tasks : /\ pc[t] # "idle" => call[t] \in [op : Calls, page : Pages]
                   /\ pc[t] = "abort" => Exclusive(t)

(* Where a waiter is that was woken and has not queued itself again. *)
Woken(w) ==
  /\ pc[w] \in {"asleep", "again", "prepare", "abort", "finish", "finish_check", "finish_lock"}
  /\ pc[w] = "asleep" => state[w] = "RUNNING"

(* What the walker knows of the entry it is at. *)
WalkOK ==
  \A t \in Tasks :
    /\ pc[t] \in WakePCs => curr >= 1
    /\ pc[t] \in {"wake_task", "wake_del"} =>
         curr <= Len(task_list) /\ Page(task_list[curr]) = Page(t)
    /\ pc[t] = "wake_del" => Woken(task_list[curr])
    /\ pc[t] = "wake_init" <=> half # NULL /\ qlock = t

(* An entry in the middle of its list_del_init() is linked no more, and    *)
(* somebody is in the middle.                                              *)
HalfOK == half # NULL => half[1] \notin Entries(task_list) /\ qlock # NULL

(* Who sleeps, or is about to, is queued. *)
SleepersQueued ==
  \A t \in Tasks : pc[t] \in {"test", "action", "asleep"} /\ state[t] # "RUNNING"
                     => t \in Entries(task_list)

QueueInv ==
  TypeOK /\ OneWalker /\ CallOK /\ WalkOK /\ HalfOK /\ SleepersQueued /\ EntriesAlive

Sleeper(t) == pc[t] \in {"action", "asleep"} /\ ~schedule_returns(t)

(* Entry t is on the queue at position n or behind. *)
Ahead(t, n) == \E i \in 1 .. Len(task_list) : i >= n /\ task_list[i] = t

(* Task r is on its way to the queue to wake whoever waits for its page,   *)
(* ...                                                                     *)
Coming(r) == pc[r] \in {"unlocked", "wake"}

(* ... or walks along the queue and has not come by t yet, ... *)
Walking(r, t) ==
  \/ pc[r] \in {"wake_test", "wake_task"} /\ Ahead(t, curr)
  \/ pc[r] = "wake_del" /\ ~Exclusive(task_list[curr]) /\ Ahead(t, curr + 1)
  \/ pc[r] = "wake_init" /\ ~Exclusive(half[1]) /\ Ahead(t, curr)

(* ... or is the one exclusive waiter that the wakeup went to. *)
Chosen(r) ==
  /\ Exclusive(r)
  /\ pc[r] \in {"asleep", "again", "abort"} /\ (pc[r] = "asleep" => state[r] = "RUNNING")
  /\ \/ r \notin Entries(task_list)
     \/ \E u \in Tasks : pc[u] = "wake_del" /\ task_list[curr] = r

(* Nobody sleeps for a page that is not locked unless a wakeup is due. *)
WakeDue ==
  \A t \in Tasks : Sleeper(t) /\ Page(t) \notin locked =>
    \E r \in Tasks : Page(r) = Page(t) /\ (Coming(r) \/ Walking(r, t) \/ Chosen(r))

(* The inductive invariant. *)
PageInv == QueueInv /\ WakeDue
-------------------------------------------------------------------------------
(* Entry w is linked, or a waker is in the middle of unlinking it. *)
Linked(w) == w \in Entries(task_list) \/ (half # NULL /\ half[1] = w)

(* A step of task t that does not touch the queue. *)
Quiet(t) ==
  /\ pc[t] \notin WakePCs
  /\ pc' = [pc EXCEPT ![t] = pc'[t]] /\ pc'[t] \in PCs \ WakePCs
  /\ UNCHANGED queueVars
  /\ call' = [call EXCEPT ![t] = call'[t]]
  /\ call'[t] \in [op : Calls, page : Pages] \/ (pc'[t] = "idle" /\ call'[t] = NoCall)
  /\ pc'[t] = "abort" => call'[t].op \in Locks
  /\ locked' \subseteq Pages
  /\ TaskTypeOK' /\ \A x \in Tasks : x # t => state'[x] = state[x] /\ sigpend'[x] = sigpend[x]
  /\ Linked(t) => pc'[t] \in WaitPCs /\ call'[t] = call[t]
  /\ Linked(t) /\ Woken(t) => Woken(t)'
  /\ pc'[t] \in {"test", "action", "asleep"} /\ state'[t] # "RUNNING" =>
       pc[t] \in {"test", "action", "asleep"} /\ state[t] # "RUNNING"

(* What such a step leaves alone. *)
LEMMA QuietFrame ==
  ASSUME QueueInv, NEW t \in Tasks, Quiet(t)
  PROVE  /\ pc' \in [Tasks -> PCs] /\ call' \in [Tasks -> [op : Calls, page : Pages] \cup {NoCall}]
         /\ task_list' = task_list /\ qlock' = qlock /\ curr' = curr /\ half' = half
         /\ \A x \in Tasks : x # t => pc'[x] = pc[x] /\ call'[x] = call[x]
         /\ \A x \in Tasks : pc'[x] \in WakePCs => x # t
         /\ \A x \in Tasks : Linked(x) => call'[x] = call[x] /\ (Woken(x) => Woken(x)')
<1>1. pc \in [Tasks -> PCs] /\ call \in [Tasks -> [op : Calls, page : Pages] \cup {NoCall}]
  BY DEF QueueInv, TypeOK
<1>2. /\ task_list' = task_list /\ qlock' = qlock /\ curr' = curr /\ half' = half
  BY DEF Quiet, queueVars
<1>3. pc' \in [Tasks -> PCs] /\ call' \in [Tasks -> [op : Calls, page : Pages] \cup {NoCall}]
  BY <1>1 DEF Quiet
<1>4. \A x \in Tasks : x # t => pc'[x] = pc[x] /\ call'[x] = call[x] BY <1>1 DEF Quiet
<1>5. \A x \in Tasks : pc'[x] \in WakePCs => x # t BY DEF Quiet
<1>6. \A x \in Tasks : Linked(x) => call'[x] = call[x] /\ (Woken(x) => Woken(x)')
  <2> SUFFICES ASSUME NEW x \in Tasks, Linked(x)
               PROVE  call'[x] = call[x] /\ (Woken(x) => Woken(x)')
    OBVIOUS
  <2>1. CASE x = t BY <2>1 DEF Quiet
  <2>2. CASE x # t BY <1>4, <2>2 DEF Woken, Quiet
  <2>3. QED BY <2>1, <2>2
<1>7. QED BY <1>2, <1>3, <1>4, <1>5, <1>6

LEMMA QuietQueue ==
  ASSUME QueueInv, NEW t \in Tasks, Quiet(t)
  PROVE  QueueInv'
<1>1. TypeOK /\ OneWalker /\ CallOK /\ WalkOK /\ HalfOK /\ SleepersQueued /\ EntriesAlive
  BY DEF QueueInv
<1>2. /\ pc' \in [Tasks -> PCs] /\ call' \in [Tasks -> [op : Calls, page : Pages] \cup {NoCall}]
      /\ task_list' = task_list /\ qlock' = qlock /\ curr' = curr /\ half' = half
      /\ \A x \in Tasks : x # t => pc'[x] = pc[x] /\ call'[x] = call[x]
      /\ \A x \in Tasks : pc'[x] \in WakePCs => x # t
      /\ \A x \in Tasks : Linked(x) => call'[x] = call[x] /\ (Woken(x) => Woken(x)')
  BY QuietFrame
<1>3. TypeOK' BY <1>1, <1>2 DEF TypeOK, Quiet
<1>4. OneWalker'
  <2>1. pc[t] \notin WakePCs /\ pc'[t] \notin WakePCs BY DEF Quiet
  <2>2. QED BY <1>1, <1>2, <2>1 DEF OneWalker
<1>5. CallOK'
  <2>1. pc'[t] # "idle" => call'[t] \in [op : Calls, page : Pages] BY DEF Quiet
  <2>2. pc'[t] = "abort" => call'[t].op \in Locks BY DEF Quiet
  <2>3. QED BY <1>1, <1>2, <2>1, <2>2 DEF CallOK, Exclusive
<1>6. ASSUME NEW u \in Tasks, pc'[u] \in WakePCs
      PROVE  u # t /\ pc[u] = pc'[u] /\ call'[u] = call[u]
  BY <1>2, <1>6
<1>7. \A i \in 1 .. Len(task_list) : task_list[i] \in Tasks /\ Linked(task_list[i])
  BY <1>1 DEF TypeOK, Linked, Entries
<1>8. WalkOK'
  <2> SUFFICES ASSUME NEW u \in Tasks
               PROVE  /\ pc'[u] \in WakePCs => curr >= 1
                      /\ pc'[u] \in {"wake_task", "wake_del"} =>
                           curr <= Len(task_list) /\ call'[task_list[curr]].page = call'[u].page
                      /\ pc'[u] = "wake_del" => Woken(task_list[curr])'
                      /\ pc'[u] = "wake_init" <=> half # NULL /\ qlock = u
    BY <1>2 DEF WalkOK, Page
  <2>1. pc'[u] \in WakePCs => curr >= 1 BY <1>1, <1>6 DEF WalkOK
  <2>2. ASSUME pc'[u] \in {"wake_task", "wake_del"}
        PROVE  /\ curr \in 1 .. Len(task_list)
               /\ call'[task_list[curr]].page = call'[u].page
               /\ pc'[u] = "wake_del" => Woken(task_list[curr])'
    <3>1. pc'[u] = pc[u] /\ call'[u] = call[u] /\ curr >= 1 BY <1>6, <2>1, <2>2 DEF WakePCs
    <3>2. /\ curr <= Len(task_list) /\ call[task_list[curr]].page = call[u].page
          /\ pc[u] = "wake_del" => Woken(task_list[curr])
      BY <1>1, <2>2, <3>1 DEF WalkOK, Page
    <3>3. curr \in 1 .. Len(task_list) BY <1>1, <3>1, <3>2 DEF TypeOK
    <3>4. PICK w : w = task_list[curr] OBVIOUS
    <3>5. w \in Tasks /\ call'[w] = call[w] /\ (Woken(w) => Woken(w)') BY <1>2, <1>7, <3>3, <3>4
    <3>6. Woken(task_list[curr])' <=> Woken(w)' BY <1>2, <3>4 DEF Woken
    <3>7. Woken(task_list[curr]) <=> Woken(w) BY <3>4
    <3>8. QED BY <3>1, <3>2, <3>3, <3>4, <3>5, <3>6, <3>7
  <2>3. pc'[u] = "wake_init" <=> pc[u] = "wake_init"
    BY <1>2, <1>6 DEF WakePCs, Quiet
  <2>4. QED BY <1>1, <2>1, <2>2, <2>3 DEF WalkOK
<1>9. HalfOK' BY <1>1, <1>2 DEF HalfOK
<1>10. SleepersQueued'
  BY <1>1, <1>2 DEF SleepersQueued, Quiet
<1>11. EntriesAlive'
  <2>1. \A x \in Tasks : Linked(x) /\ pc[x] \in WaitPCs => pc'[x] \in WaitPCs
    BY <1>2 DEF Quiet
  <2>2. Entries(task_list) \subseteq Tasks BY <1>1, ListEmpty DEF TypeOK
  <2>3. half # NULL => half[1] \in Tasks BY <1>1, PageLockAssumption DEF TypeOK
  <2>4. QED BY <1>1, <1>2, <2>1, <2>2, <2>3 DEF EntriesAlive, Linked
<1>12. QED BY <1>3, <1>4, <1>5, <1>8, <1>9, <1>10, <1>11 DEF QueueInv

(* A sleeper is on the queue. *)
LEMMA SleeperQueued ==
  ASSUME QueueInv, NEW x \in Tasks, Sleeper(x)
  PROVE  x \in Entries(task_list) /\ ~list_empty(task_list) /\ Ahead(x, 1)
<1>1. x \in Entries(task_list) BY DEF QueueInv, SleepersQueued, Sleeper, schedule_returns
<1>2. Ahead(x, 1) BY <1>1 DEF Ahead, Entries, QueueInv, TypeOK
<1>3. QED BY <1>1, <1>2, ListEmpty DEF QueueInv, TypeOK

(* Whoever else has a wakeup to deliver still has it. *)
LEMMA QuietCarries ==
  ASSUME QueueInv, NEW t \in Tasks, Quiet(t), NEW r \in Tasks, r # t, NEW x \in Tasks
  PROVE  /\ Page(r)' = Page(r)
         /\ Coming(r) \/ Walking(r, x) \/ Chosen(r) => Coming(r)' \/ Walking(r, x)' \/ Chosen(r)'
<1>2. /\ task_list' = task_list /\ qlock' = qlock /\ curr' = curr /\ half' = half
      /\ \A u \in Tasks : u # t => pc'[u] = pc[u] /\ call'[u] = call[u]
      /\ \A u \in Tasks : Linked(u) => call'[u] = call[u]
      /\ pc[t] \notin WakePCs
      /\ \A u \in Tasks : u # t => state'[u] = state[u]
  BY QuietFrame DEF Quiet
<1>3. pc'[r] = pc[r] /\ call'[r] = call[r] /\ state'[r] = state[r] BY <1>2
<1>4. Coming(r) => Coming(r)' BY <1>3 DEF Coming
<1>5. Chosen(r) => Chosen(r)'
  <2>1. \A u \in Tasks : pc[u] = "wake_del" => pc'[u] = "wake_del" BY <1>2 DEF WakePCs
  <2>2. QED BY <1>2, <1>3, <2>1 DEF Chosen, Exclusive
<1>6. Walking(r, x) => Walking(r, x)'
  <2>1. Ahead(x, curr)' <=> Ahead(x, curr) BY <1>2 DEF Ahead
  <2>2. Ahead(x, curr + 1)' <=> Ahead(x, curr + 1) BY <1>2 DEF Ahead
  <2>3. pc[r] = "wake_del" => (Exclusive(task_list[curr])' <=> Exclusive(task_list[curr]))
    <3>1. pc[r] = "wake_del" => curr \in 1 .. Len(task_list)
      BY DEF QueueInv, WalkOK, WakePCs, TypeOK
    <3>2. pc[r] = "wake_del" => task_list[curr] \in Tasks /\ Linked(task_list[curr])
      BY <3>1 DEF Linked, Entries, QueueInv, TypeOK
    <3>3. QED BY <1>2, <3>2 DEF Exclusive
  <2>4. pc[r] = "wake_init" => (Exclusive(half[1])' <=> Exclusive(half[1]))
    <3>1. pc[r] = "wake_init" => half # NULL /\ half[1] \in Tasks
      BY DEF QueueInv, WalkOK, TypeOK
    <3>2. QED BY <1>2, <3>1 DEF Exclusive, Linked
  <2>5. QED BY <1>3, <2>1, <2>2, <2>3, <2>4 DEF Walking
<1>7. Page(r)' = Page(r) BY <1>3 DEF Page
<1>8. QED BY <1>4, <1>5, <1>6, <1>7

(* The wakeups that are due stay due if the step passes its own on. *)
LEMMA QuietDue ==
  ASSUME PageInv, NEW t \in Tasks, Quiet(t), locked \subseteq locked',
         Sleeper(t)' /\ Page(t)' \notin locked' => Sleeper(t) /\ Page(t)' = Page(t),
         Coming(t) \/ Chosen(t) => \/ Page(t)' = Page(t) /\ (Coming(t)' \/ Chosen(t)')
                                   \/ Page(t) \in locked' \/ list_empty(task_list)
  PROVE  WakeDue'
<1>1. QueueInv /\ WakeDue BY DEF PageInv
<1>2. /\ task_list' = task_list /\ qlock' = qlock /\ curr' = curr /\ half' = half
      /\ \A x \in Tasks : x # t => pc'[x] = pc[x] /\ call'[x] = call[x]
      /\ \A x \in Tasks : pc'[x] \in WakePCs => x # t
      /\ \A x \in Tasks : Linked(x) => call'[x] = call[x]
      /\ pc[t] \notin WakePCs
      /\ \A x \in Tasks : x # t => state'[x] = state[x] /\ sigpend'[x] = sigpend[x]
  BY <1>1, QuietFrame DEF Quiet
<1> SUFFICES ASSUME NEW x \in Tasks, Sleeper(x)', Page(x)' \notin locked'
             PROVE  \E r \in Tasks : /\ Page(r)' = Page(x)'
                                     /\ Coming(r)' \/ Walking(r, x)' \/ Chosen(r)'
  BY DEF WakeDue
<1>3. Sleeper(x) /\ Page(x)' = Page(x) /\ Page(x) \notin locked
  <2>1. CASE x = t BY <2>1
  <2>2. CASE x # t
    BY <1>2, <2>2 DEF Sleeper, schedule_returns, signal_pending_state, Page
  <2>3. QED BY <2>1, <2>2
<1>4. PICK r \in Tasks : Page(r) = Page(x) /\ (Coming(r) \/ Walking(r, x) \/ Chosen(r))
  BY <1>1, <1>3 DEF WakeDue
<1>5. CASE r = t
  <2>1. ~Walking(t, x) BY <1>2 DEF Walking, WakePCs
  <2>2. ~list_empty(task_list) BY <1>1, <1>3, SleeperQueued
  <2>3. Page(t) \notin locked' BY <1>3, <1>4, <1>5
  <2>4. Page(t)' = Page(t) /\ (Coming(t)' \/ Chosen(t)') BY <1>4, <1>5, <2>1, <2>2, <2>3
  <2>5. QED BY <1>3, <1>4, <1>5, <2>4
<1>6. CASE r # t BY <1>1, <1>3, <1>4, <1>6, QuietCarries
<1>7. QED BY <1>5, <1>6
-------------------------------------------------------------------------------
(* A task that is idle, has the page or is about to wake is not linked. *)
LEMMA NotLinked ==
  ASSUME QueueInv, NEW t \in Tasks, pc[t] \notin WaitPCs
  PROVE  ~Linked(t)
BY DEF QueueInv, EntriesAlive, Linked

LEMMA Trylock ==
  ASSUME PageInv, NEW t \in Tasks, NEW op \in Calls, NEW p \in Pages,
         trylock_page(t, op, p) \/ MustWait(t, op, p)
  PROVE  PageInv'
<1>1. QueueInv /\ WakeDue /\ TypeOK BY DEF PageInv, QueueInv
<1>2. /\ pc[t] = "idle" /\ pc' = [pc EXCEPT ![t] = pc'[t]] /\ pc'[t] \in {"has", "prepare"}
      /\ call' = [call EXCEPT ![t] = call'[t]] /\ call'[t] = [op |-> op, page |-> p]
      /\ locked' \in {locked, locked \cup {p}} /\ UNCHANGED <<queueVars, taskVars>>
  BY <1>1 DEF trylock_page, MustWait, Goto, TypeOK
<1>3. ~Linked(t) BY <1>1, <1>2, NotLinked DEF WaitPCs
<1>4. Quiet(t)
  <2>1. TaskTypeOK' /\ state' = state /\ sigpend' = sigpend
    BY <1>1, <1>2 DEF taskVars, TypeOK, TaskTypeOK
  <2>2. locked' \subseteq Pages BY <1>1, <1>2 DEF TypeOK
  <2>3. QED BY <1>2, <1>3, <2>1, <2>2 DEF Quiet, PCs, WaitPCs, WakePCs
<1>5. QueueInv' BY <1>1, <1>4, QuietQueue
<1>6. ~Sleeper(t)' /\ ~Coming(t) /\ ~Chosen(t) BY <1>2 DEF Sleeper, Coming, Chosen
<1>7. locked \subseteq locked' BY <1>2
<1>8. WakeDue' BY <1>4, <1>6, <1>7, QuietDue
<1>9. QED BY <1>5, <1>8 DEF PageInv

LEMMA Tests ==
  ASSUME PageInv, NEW t \in Tasks, TestBit(t) \/ ActionSleeps(t) \/ finish_wait(t)
  PROVE  PageInv'
<1>1. QueueInv /\ WakeDue /\ TypeOK /\ CallOK BY DEF PageInv, QueueInv
<1>2. /\ pc' = [pc EXCEPT ![t] = pc'[t]] /\ locked' = locked /\ call' = call
      /\ UNCHANGED <<queueVars, sigpend>>
      /\ \/ pc[t] = "test" /\ pc'[t] \in {"action", "again"} /\ state' = state
            /\ (pc'[t] = "action" => Page(t) \in locked)
         \/ pc[t] = "action" /\ pc'[t] = "asleep" /\ state' = state /\ ~schedule_returns(t)
         \/ pc[t] = "finish" /\ pc'[t] = "finish_check" /\ state' = [state EXCEPT ![t] = "RUNNING"]
  BY <1>1 DEF TestBit, ActionSleeps, finish_wait, set_task_state, Goto, TypeOK, taskVars
<1>3. /\ call[t] \in [op : Calls, page : Pages] /\ call[t] = call'[t]
      /\ call' = [call EXCEPT ![t] = call'[t]]
  BY <1>1, <1>2 DEF CallOK, TypeOK
<1>4. TaskTypeOK' /\ \A x \in Tasks : x # t => state'[x] = state[x] /\ sigpend'[x] = sigpend[x]
  BY <1>1, <1>2 DEF TypeOK, TaskTypeOK, TaskStates
<1>5. Quiet(t)
  BY <1>1, <1>2, <1>3, <1>4 DEF Quiet, PCs, WaitPCs, WakePCs, Woken, TypeOK
<1>6. QueueInv' BY <1>1, <1>5, QuietQueue
<1>7. Page(t)' = Page(t) BY <1>2 DEF Page
<1>8. Sleeper(t)' /\ Page(t)' \notin locked' => Sleeper(t)
  BY <1>2, <1>7 DEF Sleeper, schedule_returns, signal_pending_state
<1>9. ~Coming(t) /\ ~Chosen(t) BY <1>2 DEF Coming, Chosen
<1>10. WakeDue' BY <1>2, <1>5, <1>7, <1>8, <1>9, QuietDue
<1>11. QED BY <1>6, <1>10 DEF PageInv

LEMMA Returns ==
  ASSUME PageInv, NEW t \in Tasks, ActionReturns(t)
  PROVE  PageInv'
<1>1. QueueInv /\ WakeDue /\ TypeOK /\ CallOK BY DEF PageInv, QueueInv
<1>2. /\ pc' = [pc EXCEPT ![t] = pc'[t]] /\ locked' = locked /\ call' = call
      /\ UNCHANGED <<queueVars, sigpend>> /\ state' = [state EXCEPT ![t] = "RUNNING"]
      /\ pc[t] \in {"action", "asleep"} /\ pc'[t] \in {"abort", "again"}
      /\ pc'[t] = "abort" => Mode(t) = "KILLABLE"
  BY <1>1 DEF ActionReturns, set_task_state, Goto, TypeOK
<1>3. /\ call[t] \in [op : Calls, page : Pages] /\ call[t] = call'[t]
      /\ call' = [call EXCEPT ![t] = call'[t]]
      /\ Mode(t) = "KILLABLE" => call[t].op \in Locks
  BY <1>1, <1>2 DEF CallOK, TypeOK, Mode, Locks
<1>4. TaskTypeOK' /\ \A x \in Tasks : x # t => state'[x] = state[x] /\ sigpend'[x] = sigpend[x]
  BY <1>1, <1>2 DEF TypeOK, TaskTypeOK, TaskStates
<1>5. Quiet(t)
  BY <1>1, <1>2, <1>3, <1>4 DEF Quiet, PCs, WaitPCs, WakePCs, Woken, TypeOK
<1>6. QueueInv' BY <1>1, <1>5, QuietQueue
<1>7. Page(t)' = Page(t) BY <1>2 DEF Page
<1>8. ~Sleeper(t)' /\ ~Coming(t) BY <1>2 DEF Sleeper, Coming
<1>9. Chosen(t) => Chosen(t)'
  <2>1. \A u \in Tasks : pc[u] = "wake_del" => pc'[u] = "wake_del"
    BY <1>1, <1>2 DEF TypeOK
  <2>2. QED BY <1>2, <2>1 DEF Chosen, Exclusive, queueVars
<1>10. WakeDue' BY <1>2, <1>5, <1>7, <1>8, <1>9, QuietDue
<1>11. QED BY <1>6, <1>10 DEF PageInv

LEMMA Again ==
  ASSUME PageInv, NEW t \in Tasks, TestAgain(t)
  PROVE  PageInv'
<1>1. QueueInv /\ WakeDue /\ TypeOK /\ CallOK BY DEF PageInv, QueueInv
<1>2. /\ pc[t] = "again" /\ pc' = [pc EXCEPT ![t] = pc'[t]] /\ call' = call
      /\ UNCHANGED <<queueVars, taskVars>>
      /\ \/ pc'[t] = "prepare" /\ locked' = locked /\ Page(t) \in locked
         \/ pc'[t] = "finish" /\ locked' = IF Exclusive(t) THEN locked \cup {Page(t)} ELSE locked
  BY <1>1 DEF TestAgain, Goto, TypeOK
<1>3. /\ call[t] \in [op : Calls, page : Pages] /\ call[t] = call'[t] /\ Page(t) \in Pages
      /\ call' = [call EXCEPT ![t] = call'[t]]
  BY <1>1, <1>2 DEF CallOK, TypeOK, Page
<1>4. TaskTypeOK' /\ state' = state /\ sigpend' = sigpend
  BY <1>1, <1>2 DEF TypeOK, TaskTypeOK, taskVars
<1>5. locked' \subseteq Pages /\ locked \subseteq locked' BY <1>1, <1>2, <1>3 DEF TypeOK
<1>6. Quiet(t)
  BY <1>1, <1>2, <1>3, <1>4, <1>5 DEF Quiet, PCs, WaitPCs, WakePCs, Woken, TypeOK
<1>7. QueueInv' BY <1>1, <1>6, QuietQueue
<1>8. ~Sleeper(t)' /\ ~Coming(t) BY <1>2 DEF Sleeper, Coming
<1>9. Chosen(t) => Page(t) \in locked' BY <1>2 DEF Chosen
<1>10. WakeDue' BY <1>5, <1>6, <1>8, <1>9, QuietDue
<1>11. QED BY <1>7, <1>10 DEF PageInv

LEMMA Checks ==
  ASSUME PageInv, NEW t \in Tasks, FinishCheck(t)
  PROVE  PageInv'
<1>1. QueueInv /\ WakeDue /\ TypeOK /\ CallOK BY DEF PageInv, QueueInv
<1>2. /\ pc[t] = "finish_check" /\ pc' = [pc EXCEPT ![t] = pc'[t]] /\ locked' = locked
      /\ UNCHANGED <<queueVars, taskVars>>
      /\ \/ pc'[t] = "finish_lock" /\ call' = call
         \/ pc'[t] = "has" /\ call' = call /\ list_empty_careful(t)
         \/ pc'[t] = "idle" /\ call' = [call EXCEPT ![t] = NoCall] /\ list_empty_careful(t)
  BY <1>1 DEF FinishCheck, Leave, Return, Goto, TypeOK
<1>3. /\ call[t] \in [op : Calls, page : Pages] /\ call' = [call EXCEPT ![t] = call'[t]]
      /\ call'[t] = call[t] \/ (pc'[t] = "idle" /\ call'[t] = NoCall)
  BY <1>1, <1>2 DEF CallOK, TypeOK
<1>4. TaskTypeOK' /\ state' = state /\ sigpend' = sigpend
  BY <1>1, <1>2 DEF TypeOK, TaskTypeOK, taskVars
<1>5. Linked(t) => pc'[t] = "finish_lock" /\ call'[t] = call[t]
  BY <1>2 DEF Linked, list_empty_careful
<1>6. Quiet(t)
  BY <1>1, <1>2, <1>3, <1>4, <1>5 DEF Quiet, PCs, WaitPCs, WakePCs, Woken, TypeOK
<1>7. QueueInv' BY <1>1, <1>6, QuietQueue
<1>8. ~Sleeper(t)' /\ ~Coming(t) /\ ~Chosen(t) BY <1>2 DEF Sleeper, Coming, Chosen
<1>9. WakeDue' BY <1>2, <1>6, <1>8, QuietDue
<1>10. QED BY <1>7, <1>9 DEF PageInv

LEMMA LooksForWaiters ==
  ASSUME PageInv, NEW t \in Tasks, __wake_up_bit(t)
  PROVE  PageInv'
<1>1. QueueInv /\ WakeDue /\ TypeOK /\ CallOK BY DEF PageInv, QueueInv
<1>2. /\ pc[t] = "unlocked" /\ pc' = [pc EXCEPT ![t] = pc'[t]] /\ locked' = locked
      /\ UNCHANGED <<queueVars, taskVars>>
      /\ \/ pc'[t] = "wake" /\ call' = call
         \/ pc'[t] = "idle" /\ call' = [call EXCEPT ![t] = NoCall] /\ list_empty(task_list)
  BY <1>1 DEF __wake_up_bit, Return, Goto, TypeOK
<1>3. /\ call[t] \in [op : Calls, page : Pages] /\ call' = [call EXCEPT ![t] = call'[t]]
      /\ call'[t] = call[t] \/ (pc'[t] = "idle" /\ call'[t] = NoCall)
  BY <1>1, <1>2 DEF CallOK, TypeOK
<1>4. TaskTypeOK' /\ state' = state /\ sigpend' = sigpend
  BY <1>1, <1>2 DEF TypeOK, TaskTypeOK, taskVars
<1>5. ~Linked(t) BY <1>1, <1>2, NotLinked DEF WaitPCs
<1>6. Quiet(t)
  BY <1>1, <1>2, <1>3, <1>4, <1>5 DEF Quiet, PCs, WaitPCs, WakePCs, TypeOK
<1>7. QueueInv' BY <1>1, <1>6, QuietQueue
<1>8. ~Sleeper(t)' /\ ~Chosen(t) BY <1>2 DEF Sleeper, Chosen
<1>9. list_empty(task_list) \/ (Coming(t)' /\ Page(t)' = Page(t)) BY <1>2 DEF Coming, Page
<1>10. WakeDue' BY <1>2, <1>6, <1>8, <1>9, QuietDue
<1>11. QED BY <1>7, <1>10 DEF PageInv

(* The bit is clear: whoever cleared it is on the way to the queue. *)
LEMMA Unlocks ==
  ASSUME PageInv, NEW t \in Tasks, unlock_page(t)
  PROVE  PageInv'
<1>1. QueueInv /\ WakeDue /\ TypeOK /\ CallOK BY DEF PageInv, QueueInv
<1>2. /\ pc[t] = "has" /\ pc' = [pc EXCEPT ![t] = "unlocked"] /\ pc'[t] = "unlocked"
      /\ locked' = locked \ {Page(t)} /\ call' = call
      /\ UNCHANGED <<queueVars, taskVars>>
  BY <1>1 DEF unlock_page, Goto, TypeOK
<1>3. call[t] \in [op : Calls, page : Pages] /\ call' = [call EXCEPT ![t] = call'[t]]
  BY <1>1, <1>2 DEF CallOK, TypeOK
<1>4. TaskTypeOK' /\ state' = state /\ sigpend' = sigpend
  BY <1>1, <1>2 DEF TypeOK, TaskTypeOK, taskVars
<1>5. ~Linked(t) BY <1>1, <1>2, NotLinked DEF WaitPCs
<1>6. Quiet(t)
  BY <1>1, <1>2, <1>3, <1>4, <1>5 DEF Quiet, PCs, WaitPCs, WakePCs, TypeOK
<1>7. QueueInv' BY <1>1, <1>6, QuietQueue
<1>8. WakeDue'
  <2> SUFFICES ASSUME NEW x \in Tasks, Sleeper(x)', Page(x)' \notin locked'
               PROVE  \E r \in Tasks : /\ Page(r)' = Page(x)'
                                       /\ Coming(r)' \/ Walking(r, x)' \/ Chosen(r)'
    BY DEF WakeDue
  <2>1. Page(x)' = Page(x) /\ Page(t)' = Page(t) BY <1>2 DEF Page
  <2>2. CASE Page(x) = Page(t) BY <1>2, <2>1, <2>2 DEF Coming
  <2>3. CASE Page(x) # Page(t)
    <3>1. Sleeper(x) /\ Page(x) \notin locked
      BY <1>1, <1>2, <1>4, <2>1, <2>3 DEF Sleeper, schedule_returns, signal_pending_state, TypeOK
    <3>2. PICK r \in Tasks : Page(r) = Page(x) /\ (Coming(r) \/ Walking(r, x) \/ Chosen(r))
      BY <1>1, <3>1 DEF WakeDue
    <3>3. r # t BY <2>3, <3>2
    <3>4. QED BY <1>1, <1>6, <2>1, <3>2, <3>3, QuietCarries
  <2>4. QED BY <2>2, <2>3
<1>9. QED BY <1>7, <1>8 DEF PageInv

(* A signal or a stray wakeup only ends sleeps. *)
LEMMA Awakens ==
  ASSUME PageInv, UNCHANGED <<locked, queueVars, call, pc>>, TaskTypeOK',
         \A x \in Tasks : state'[x] \in {state[x], "RUNNING"},
         \A x \in Tasks : pc[x] # "idle" => sigpend'[x] = sigpend[x] \/ sigpend'[x] = "fatal"
  PROVE  PageInv'
<1>1. QueueInv /\ WakeDue /\ TypeOK BY DEF PageInv, QueueInv
<1>2. /\ locked' = locked /\ task_list' = task_list /\ qlock' = qlock /\ curr' = curr
      /\ half' = half /\ call' = call /\ pc' = pc
  BY DEF queueVars
<1>3. \A x : Woken(x) /\ x \in Tasks => Woken(x)' BY <1>2 DEF Woken
<1>4. QueueInv'
  <2>1. TypeOK' BY <1>1, <1>2 DEF TypeOK
  <2>2. OneWalker' /\ CallOK' /\ HalfOK' /\ EntriesAlive'
    BY <1>1, <1>2 DEF QueueInv, OneWalker, CallOK, HalfOK, EntriesAlive, Exclusive
  <2>3. SleepersQueued' BY <1>1, <1>2 DEF QueueInv, SleepersQueued
  <2>4. WalkOK'
    <3> SUFFICES ASSUME NEW u \in Tasks
                 PROVE  pc[u] = "wake_del" => Woken(task_list[curr])'
      BY <1>1, <1>2 DEF QueueInv, WalkOK, Page
    <3> HAVE pc[u] = "wake_del"
    <3>1. curr \in 1 .. Len(task_list) /\ Woken(task_list[curr])
      BY <1>1 DEF QueueInv, WalkOK, WakePCs, TypeOK
    <3>2. task_list[curr] \in Tasks BY <1>1, <3>1 DEF TypeOK
    <3>3. QED BY <1>2, <3>1, <3>2 DEF Woken
  <2>5. QED BY <2>1, <2>2, <2>3, <2>4 DEF QueueInv
<1>5. WakeDue'
  <2> SUFFICES ASSUME NEW x \in Tasks, Sleeper(x)', Page(x)' \notin locked'
               PROVE  \E r \in Tasks : /\ Page(r)' = Page(x)'
                                       /\ Coming(r)' \/ Walking(r, x)' \/ Chosen(r)'
    BY DEF WakeDue
  <2>1. \A r \in Tasks : Page(r)' = Page(r) BY <1>2 DEF Page
  <2>2. Sleeper(x)
    BY <1>1, <1>2 DEF Sleeper, schedule_returns, signal_pending_state
  <2>3. PICK r \in Tasks : Page(r) = Page(x) /\ (Coming(r) \/ Walking(r, x) \/ Chosen(r))
    BY <1>1, <1>2, <2>1, <2>2 DEF WakeDue
  <2>4. Coming(r) => Coming(r)' BY <1>2 DEF Coming
  <2>5. Walking(r, x) => Walking(r, x)' BY <1>2 DEF Walking, Ahead, Exclusive
  <2>6. Chosen(r) => Chosen(r)' BY <1>2 DEF Chosen, Exclusive
  <2>7. QED BY <2>1, <2>3, <2>4, <2>5, <2>6
<1>6. QED BY <1>4, <1>5 DEF PageInv

LEMMA SignalsEndSleeps ==
  ASSUME PageInv, NEW t \in Tasks, Kill(t) \/ Delivered(t) \/ Stray(t)
  PROVE  PageInv'
<1>1. TypeOK BY DEF PageInv, QueueInv
<1>2. UNCHANGED <<locked, queueVars, call, pc>> BY DEF Kill, Delivered, Stray, Other
<1>3. /\ TaskTypeOK' /\ \A x \in Tasks : state'[x] \in {state[x], "RUNNING"}
      /\ \A x \in Tasks : pc[x] # "idle" => sigpend'[x] = sigpend[x] \/ sigpend'[x] = "fatal"
  <2>1. CASE Kill(t)
    BY <1>1, <2>1 DEF Kill, signal_wake_up, TypeOK, TaskTypeOK, TaskStates, Signals
  <2>2. CASE Delivered(t)
    BY <1>1, <2>2 DEF Delivered, SignalDelivered, TypeOK, TaskTypeOK, Signals
  <2>3. CASE Stray(t)
    BY <1>1, <2>3 DEF Stray, StrayWakeup, wake_up_process, TypeOK, TaskTypeOK, TaskStates
  <2>4. QED BY <2>1, <2>2, <2>3
<1>4. QED BY <1>2, <1>3, Awakens
-------------------------------------------------------------------------------
(* While nobody has q->lock, nobody walks and nothing is half unlinked. *)
LEMMA LockFree ==
  ASSUME QueueInv, qlock = NULL
  PROVE  half = NULL /\ \A u \in Tasks : pc[u] \notin WakePCs
BY PageLockAssumption DEF QueueInv, HalfOK, OneWalker

(* A step under q->lock of a task t that links or unlinks its own entry. *)
LEMMA OwnEntry ==
  ASSUME PageInv, NEW t \in Tasks, qlock = NULL, UNCHANGED <<locked, qlock, curr, half, sigpend>>,
         pc' = [pc EXCEPT ![t] = pc'[t]], pc'[t] \in {"idle", "has", "test"},
         call' = [call EXCEPT ![t] = call'[t]],
         call'[t] \in [op : Calls, page : Pages] \/ (pc'[t] = "idle" /\ call'[t] = NoCall),
         TaskTypeOK', \A x \in Tasks : x # t => state'[x] = state[x],
         task_list' \in Seq(Tasks), NoDuplicates(task_list'),
         Entries(task_list) \ {t} \subseteq Entries(task_list'),
         Entries(task_list') \subseteq Entries(task_list) \cup {t},
         t \in Entries(task_list') <=> pc'[t] = "test",
         ~Coming(t), Chosen(t) => list_empty(task_list)
  PROVE  PageInv'
<1>1. QueueInv /\ WakeDue /\ TypeOK BY DEF PageInv, QueueInv
<1>2. half = NULL /\ \A u \in Tasks : pc[u] \notin WakePCs BY <1>1, LockFree
<1>3. /\ pc' \in [Tasks -> PCs] /\ call' \in [Tasks -> [op : Calls, page : Pages] \cup {NoCall}]
      /\ \A x \in Tasks : x # t => pc'[x] = pc[x] /\ call'[x] = call[x]
  BY <1>1 DEF TypeOK, PCs, WaitPCs
<1>4. \A u \in Tasks : pc'[u] \notin WakePCs BY <1>2, <1>3 DEF WakePCs
<1>5. QueueInv'
  <2>1. TypeOK' BY <1>1, <1>3 DEF TypeOK
  <2>2. OneWalker' BY <1>4, PageLockAssumption DEF OneWalker
  <2>3. CallOK' BY <1>1, <1>3 DEF QueueInv, CallOK, Exclusive
  <2>4. WalkOK' BY <1>2, <1>4 DEF WalkOK, WakePCs
  <2>5. HalfOK' BY <1>2 DEF HalfOK
  <2>6. SleepersQueued'
    <3> SUFFICES ASSUME NEW x \in Tasks, pc'[x] \in {"test", "action", "asleep"},
                        state'[x] # "RUNNING"
                 PROVE  x \in Entries(task_list')
      BY DEF SleepersQueued
    <3>1. CASE x = t BY <3>1
    <3>2. CASE x # t BY <1>1, <1>3, <3>2 DEF QueueInv, SleepersQueued
    <3>3. QED BY <3>1, <3>2
  <2>7. EntriesAlive'
    <3>1. Entries(task_list') \subseteq Tasks BY ListEmpty
    <3>2. ASSUME NEW x \in Entries(task_list') PROVE pc'[x] \in WaitPCs
      <4>1. CASE x = t BY <3>2, <4>1 DEF WaitPCs
      <4>2. CASE x # t BY <1>1, <1>3, <3>1, <3>2, <4>2 DEF QueueInv, EntriesAlive
      <4>3. QED BY <4>1, <4>2
    <3>3. QED BY <1>2, <3>2 DEF EntriesAlive
  <2>8. QED BY <2>1, <2>2, <2>3, <2>4, <2>5, <2>6, <2>7 DEF QueueInv
<1>6. WakeDue'
  <2> SUFFICES ASSUME NEW x \in Tasks, Sleeper(x)', Page(x)' \notin locked'
               PROVE  \E r \in Tasks : /\ Page(r)' = Page(x)'
                                       /\ Coming(r)' \/ Walking(r, x)' \/ Chosen(r)'
    BY DEF WakeDue
  <2>1. x # t BY DEF Sleeper
  <2>2. Sleeper(x) /\ Page(x)' = Page(x) /\ Page(x) \notin locked
    BY <1>3, <2>1 DEF Sleeper, schedule_returns, signal_pending_state, Page
  <2>3. PICK r \in Tasks : Page(r) = Page(x) /\ (Coming(r) \/ Walking(r, x) \/ Chosen(r))
    BY <1>1, <2>2 DEF WakeDue
  <2>4. ~Walking(r, x) BY <1>2 DEF Walking, WakePCs
  <2>5. ~list_empty(task_list) BY <1>1, <2>2, SleeperQueued
  <2>6. r # t BY <2>3, <2>4, <2>5
  <2>7. Page(r)' = Page(r) BY <1>3, <2>6 DEF Page
  <2>8. Coming(r) => Coming(r)' BY <1>3, <2>6 DEF Coming
  <2>9. Chosen(r) => Chosen(r)'
    <3>1. Chosen(r) => r \notin Entries(task_list) BY <1>2 DEF Chosen, WakePCs
    <3>2. QED BY <1>3, <2>6, <3>1 DEF Chosen, Exclusive
  <2>10. QED BY <2>2, <2>3, <2>4, <2>7, <2>8, <2>9
<1>7. QED BY <1>5, <1>6 DEF PageInv

LEMMA Prepares ==
  ASSUME PageInv, NEW t \in Tasks, prepare_to_wait(t)
  PROVE  PageInv'
<1>1. QueueInv /\ TypeOK /\ CallOK /\ NoDuplicates(task_list)
  BY DEF PageInv, QueueInv, EntriesAlive
<1>2. /\ pc[t] = "prepare" /\ qlock = NULL /\ UNCHANGED <<locked, qlock, curr, half, call, sigpend>>
      /\ pc' = [pc EXCEPT ![t] = pc'[t]] /\ pc'[t] = "test"
      /\ state' = [state EXCEPT ![t] = Mode(t)]
  BY <1>1 DEF prepare_to_wait, Goto, set_task_state, TypeOK
<1>3. call[t] \in [op : Calls, page : Pages] /\ call' = [call EXCEPT ![t] = call'[t]]
  BY <1>1, <1>2 DEF CallOK, TypeOK
<1>4. TaskTypeOK' /\ \A x \in Tasks : x # t => state'[x] = state[x]
  BY <1>1, <1>2 DEF TypeOK, TaskTypeOK, TaskStates, SleepStates, Mode
<1>5. /\ task_list' \in Seq(Tasks) /\ NoDuplicates(task_list')
      /\ Entries(task_list') = Entries(task_list) \cup {t}
  <2>1. task_list \in Seq(Tasks) BY <1>1 DEF TypeOK
  <2>2. \/ task_list' = task_list /\ t \in Entries(task_list)
        \/ t \notin Entries(task_list) /\ task_list' = list_add_tail(t, task_list)
        \/ t \notin Entries(task_list) /\ task_list' = list_add(t, task_list)
    BY DEF prepare_to_wait, __add_wait_queue
  <2>3. CASE task_list' = task_list /\ t \in Entries(task_list)
    <3>1. Entries(task_list) = Entries(task_list) \cup {t} BY <2>3
    <3>2. QED BY <1>1, <2>1, <2>3, <3>1
  <2>4. CASE t \notin Entries(task_list) /\ task_list' = list_add_tail(t, task_list)
    BY <1>1, <2>1, <2>4, ListAddTail
  <2>5. CASE t \notin Entries(task_list) /\ task_list' = list_add(t, task_list)
    BY <1>1, <2>1, <2>5, ListAdd
  <2>6. QED BY <2>2, <2>3, <2>4, <2>5
<1>6. ~Coming(t) /\ ~Chosen(t) BY <1>2 DEF Coming, Chosen
<1>7. QED BY <1>2, <1>3, <1>4, <1>5, <1>6, OwnEntry

(* What Unlink does. *)
LEMMA Unlinks ==
  ASSUME QueueInv, NEW t \in Tasks, Unlink(t)
  PROVE  /\ task_list' \in Seq(Tasks) /\ NoDuplicates(task_list')
         /\ Entries(task_list') = Entries(task_list) \ {t}
<1>1. task_list \in Seq(Tasks) /\ NoDuplicates(task_list)
  BY DEF QueueInv, TypeOK, EntriesAlive
<1>2. CASE t \in Entries(task_list)
  <2>1. task_list' = list_del(task_list, t) BY <1>2 DEF Unlink
  <2>2. QED BY <1>1, <1>2, <2>1, ListDel, ListDelSeq
<1>3. CASE t \notin Entries(task_list)
  <2>1. task_list' = task_list BY <1>3 DEF Unlink
  <2>2. Entries(task_list) = Entries(task_list) \ {t} BY <1>3
  <2>3. QED BY <1>1, <2>1, <2>2
<1>4. QED BY <1>2, <1>3

LEMMA Finishes ==
  ASSUME PageInv, NEW t \in Tasks, FinishLock(t)
  PROVE  PageInv'
<1>1. QueueInv /\ TypeOK /\ CallOK BY DEF PageInv, QueueInv
<1>2. /\ pc[t] = "finish_lock" /\ qlock = NULL /\ UNCHANGED <<locked, qlock, curr, half, taskVars>>
      /\ pc' = [pc EXCEPT ![t] = pc'[t]]
      /\ \/ pc'[t] = "has" /\ call' = call
         \/ pc'[t] = "idle" /\ call' = [call EXCEPT ![t] = NoCall]
      /\ Unlink(t)
  BY <1>1 DEF FinishLock, Leave, Return, Goto, TypeOK
<1>3. /\ call' = [call EXCEPT ![t] = call'[t]]
      /\ call'[t] \in [op : Calls, page : Pages] \/ (pc'[t] = "idle" /\ call'[t] = NoCall)
  BY <1>1, <1>2 DEF CallOK, TypeOK
<1>4. TaskTypeOK' /\ state' = state /\ sigpend' = sigpend
  BY <1>1, <1>2 DEF TypeOK, TaskTypeOK, taskVars
<1>5. /\ task_list' \in Seq(Tasks) /\ NoDuplicates(task_list')
      /\ Entries(task_list') = Entries(task_list) \ {t}
  BY <1>1, <1>2, Unlinks
<1>6. ~Coming(t) /\ ~Chosen(t) BY <1>2 DEF Coming, Chosen
<1>7. QED BY <1>2, <1>3, <1>4, <1>5, <1>6, OwnEntry

(* A task takes q->lock to walk along the queue. *)
LEMMA Enters ==
  ASSUME PageInv, NEW t \in Tasks, qlock = NULL, qlock' = t, curr' = 1,
         pc[t] \in {"wake", "abort"}, pc' = [pc EXCEPT ![t] = "wake_test"],
         UNCHANGED <<locked, task_list, half, call, sigpend>>,
         TaskTypeOK', \A x \in Tasks : x # t => state'[x] = state[x],
         t \notin Entries(task_list)
  PROVE  PageInv'
<1>1. QueueInv /\ WakeDue /\ TypeOK /\ CallOK BY DEF PageInv, QueueInv
<1>2. half = NULL /\ \A u \in Tasks : pc[u] \notin WakePCs BY <1>1, LockFree
<1>3. /\ pc' \in [Tasks -> PCs] /\ pc'[t] = "wake_test"
      /\ \A x \in Tasks : x # t => pc'[x] = pc[x]
  BY <1>1 DEF TypeOK, PCs, WakePCs
<1>4. QueueInv'
  <2>1. TypeOK' BY <1>1, <1>3 DEF TypeOK
  <2>2. OneWalker' BY <1>2, <1>3 DEF OneWalker, WakePCs
  <2>3. CallOK' BY <1>1, <1>3 DEF CallOK, Exclusive
  <2>4. WalkOK' BY <1>2, <1>3 DEF WalkOK, WakePCs
  <2>5. HalfOK' BY <1>2 DEF HalfOK
  <2>6. SleepersQueued' BY <1>1, <1>3 DEF QueueInv, SleepersQueued
  <2>7. EntriesAlive'
    <3>1. Entries(task_list) \subseteq Tasks BY <1>1, ListEmpty DEF TypeOK
    <3>2. QED BY <1>1, <1>2, <1>3, <3>1 DEF QueueInv, EntriesAlive
  <2>8. QED BY <2>1, <2>2, <2>3, <2>4, <2>5, <2>6, <2>7 DEF QueueInv
<1>5. WakeDue'
  <2> SUFFICES ASSUME NEW x \in Tasks, Sleeper(x)', Page(x)' \notin locked'
               PROVE  \E r \in Tasks : /\ Page(r)' = Page(x)'
                                       /\ Coming(r)' \/ Walking(r, x)' \/ Chosen(r)'
    BY DEF WakeDue
  <2>1. x # t BY <1>3 DEF Sleeper
  <2>2. Sleeper(x) /\ Page(x)' = Page(x) /\ Page(x) \notin locked
    BY <1>3, <2>1 DEF Sleeper, schedule_returns, signal_pending_state, Page
  <2>3. PICK r \in Tasks : Page(r) = Page(x) /\ (Coming(r) \/ Walking(r, x) \/ Chosen(r))
    BY <1>1, <2>2 DEF WakeDue
  <2>4. Page(r)' = Page(r) BY DEF Page
  <2>5. CASE r = t
    <3>1. Ahead(x, 1) BY <1>1, <2>2, SleeperQueued
    <3>2. Walking(t, x)' BY <1>3, <3>1 DEF Walking, Ahead
    <3>3. QED BY <2>2, <2>3, <2>4, <2>5, <3>2
  <2>6. CASE r # t
    <3>1. ~Walking(r, x) BY <1>2 DEF Walking, WakePCs
    <3>2. Coming(r) => Coming(r)' BY <1>3, <2>6 DEF Coming
    <3>3. Chosen(r) => r \notin Entries(task_list) BY <1>2 DEF Chosen, WakePCs
    <3>4. Chosen(r) => Chosen(r)' BY <1>3, <2>6, <3>3 DEF Chosen, Exclusive
    <3>5. QED BY <2>2, <2>3, <2>4, <3>1, <3>2, <3>4
  <2>7. QED BY <2>5, <2>6
<1>6. QED BY <1>4, <1>5 DEF PageInv

LEMMA WalkBegins ==
  ASSUME PageInv, NEW t \in Tasks, __wake_up(t)
  PROVE  PageInv'
<1>1. QueueInv /\ TypeOK BY DEF PageInv, QueueInv
<1>2. /\ pc[t] = "wake" /\ qlock = NULL /\ qlock' = t /\ curr' = 1
      /\ pc' = [pc EXCEPT ![t] = "wake_test"]
      /\ UNCHANGED <<locked, task_list, half, call, taskVars>>
  BY DEF __wake_up, Goto
<1>3. TaskTypeOK' /\ state' = state /\ sigpend' = sigpend
  BY <1>1, <1>2 DEF TypeOK, TaskTypeOK, taskVars
<1>4. t \notin Entries(task_list) BY <1>1, <1>2 DEF QueueInv, EntriesAlive, WaitPCs
<1>5. QED BY <1>2, <1>3, <1>4, Enters

(* The aborting waiter leaves, or passes the wakeup that it got on. *)
LEMMA Aborts ==
  ASSUME PageInv, NEW t \in Tasks, abort_exclusive_wait(t)
  PROVE  PageInv'
<1>1. QueueInv /\ TypeOK /\ CallOK BY DEF PageInv, QueueInv
<1>2. /\ pc[t] = "abort" /\ qlock = NULL /\ UNCHANGED <<locked, half, sigpend>>
      /\ state' = [state EXCEPT ![t] = "RUNNING"]
  BY DEF abort_exclusive_wait, set_task_state
<1>3. TaskTypeOK' /\ \A x \in Tasks : x # t => state'[x] = state[x]
  BY <1>1, <1>2 DEF TypeOK, TaskTypeOK, TaskStates
<1>4. CASE t \in Entries(task_list) \/ list_empty(task_list)
  <2>1. /\ pc' = [pc EXCEPT ![t] = pc'[t]] /\ pc'[t] = "idle" /\ call' = [call EXCEPT ![t] = NoCall]
        /\ Unlink(t) /\ UNCHANGED <<qlock, curr>>
    BY <1>1, <1>4 DEF abort_exclusive_wait, Return, Goto, TypeOK
  <2>2. call' = [call EXCEPT ![t] = call'[t]] /\ call'[t] = NoCall
    BY <1>1, <2>1 DEF TypeOK
  <2>3. /\ task_list' \in Seq(Tasks) /\ NoDuplicates(task_list')
        /\ Entries(task_list') = Entries(task_list) \ {t}
    BY <1>1, <2>1, Unlinks
  <2>4. ~Coming(t) BY <1>2 DEF Coming
  <2>5. Chosen(t) => list_empty(task_list)
    <3>1. \A u \in Tasks : pc[u] # "wake_del" BY <1>1, <1>2, LockFree DEF WakePCs
    <3>2. QED BY <1>4, <3>1 DEF Chosen
  <2>6. QED BY <1>2, <1>3, <2>1, <2>2, <2>3, <2>4, <2>5, OwnEntry
<1>5. CASE ~(t \in Entries(task_list) \/ list_empty(task_list))
  <2>1. /\ qlock' = t /\ curr' = 1 /\ pc' = [pc EXCEPT ![t] = "wake_test"]
        /\ UNCHANGED <<task_list, call>>
    BY <1>5 DEF abort_exclusive_wait, Goto
  <2>2. QED BY <1>2, <1>3, <1>5, <2>1, Enters
<1>6. QED BY <1>4, <1>5
-------------------------------------------------------------------------------
(* A step of the walker: nobody else moves, but one may be woken. *)
Steps(t) ==
  /\ pc[t] \in WakePCs
  /\ pc' = [pc EXCEPT ![t] = pc'[t]] /\ pc'[t] \in WakePCs \cup {"idle"}
  /\ call' = IF pc'[t] = "idle" THEN [call EXCEPT ![t] = NoCall] ELSE call
  /\ qlock' = IF pc'[t] = "idle" THEN NULL ELSE t
  /\ UNCHANGED <<locked, sigpend>>
  /\ TaskTypeOK' /\ \A x \in Tasks : state'[x] \in {state[x], "RUNNING"}

(* Whoever walks is alone and is not on the queue. *)
LEMMA StepsFrame ==
  ASSUME QueueInv, NEW t \in Tasks, Steps(t)
  PROVE  /\ pc' \in [Tasks -> PCs] /\ call' \in [Tasks -> [op : Calls, page : Pages] \cup {NoCall}]
         /\ \A x \in Tasks : x # t => pc'[x] = pc[x] /\ call'[x] = call[x] /\ pc[x] \notin WakePCs
         /\ ~Linked(t) /\ qlock = t
<1>1. pc \in [Tasks -> PCs] /\ call \in [Tasks -> [op : Calls, page : Pages] \cup {NoCall}]
  BY DEF QueueInv, TypeOK
<1>2. qlock = t /\ \A x \in Tasks : x # t => pc[x] \notin WakePCs
  BY DEF QueueInv, OneWalker, Steps
<1>3. pc[t] \notin WaitPCs BY DEF Steps, WakePCs, WaitPCs
<1>4. ~Linked(t) BY <1>3, NotLinked
<1>5. pc' \in [Tasks -> PCs] /\ \A x \in Tasks : x # t => pc'[x] = pc[x]
  BY <1>1 DEF Steps, PCs
<1>6. /\ call' \in [Tasks -> [op : Calls, page : Pages] \cup {NoCall}]
      /\ \A x \in Tasks : x # t => call'[x] = call[x]
  BY <1>1 DEF Steps
<1>7. QED BY <1>2, <1>4, <1>5, <1>6

LEMMA StepsQueue ==
  ASSUME QueueInv, NEW t \in Tasks, Steps(t),
         task_list' \in Seq(Tasks), NoDuplicates(task_list'),
         half' \in (Tasks \X {"next", "prev"}) \cup {NULL},
         curr' \in Nat, pc'[t] # "idle" => curr' >= 1,
         Entries(task_list') \subseteq Entries(task_list),
         \A w \in Entries(task_list) \ Entries(task_list') : Woken(w),
         pc'[t] \in {"wake_task", "wake_del"} =>
           curr' <= Len(task_list') /\ call'[task_list'[curr']].page = call'[t].page,
         pc'[t] = "wake_del" => Woken(task_list[curr])',
         pc'[t] = "wake_init" <=> half' # NULL,
         half' # NULL => half'[1] \notin Entries(task_list') /\ pc'[half'[1]] \in WaitPCs
  PROVE  QueueInv'
<1>1. TypeOK /\ CallOK /\ SleepersQueued /\ EntriesAlive BY DEF QueueInv
<1>2. /\ pc' \in [Tasks -> PCs] /\ call' \in [Tasks -> [op : Calls, page : Pages] \cup {NoCall}]
      /\ \A x \in Tasks : x # t => pc'[x] = pc[x] /\ call'[x] = call[x] /\ pc[x] \notin WakePCs
      /\ ~Linked(t) /\ qlock = t
  BY StepsFrame
<1>3. TypeOK'
  <2>1. qlock' \in Tasks \cup {NULL} /\ locked' = locked /\ TaskTypeOK' BY DEF Steps
  <2>2. QED BY <1>1, <1>2, <2>1 DEF TypeOK
<1>4. OneWalker'
  <2>1. "idle" \notin WakePCs BY DEF WakePCs
  <2>2. QED BY <1>2, <2>1, PageLockAssumption DEF OneWalker, Steps
<1>5. CallOK'
  <2>1. pc[t] # "idle" /\ pc'[t] # "abort" BY DEF Steps, WakePCs
  <2>2. pc'[t] # "idle" => call'[t] = call[t] BY DEF Steps
  <2>3. QED BY <1>1, <1>2, <2>1, <2>2 DEF CallOK, Exclusive
<1>6. WalkOK'
  <2> SUFFICES ASSUME NEW u \in Tasks
               PROVE  /\ pc'[u] \in WakePCs => curr' >= 1
                      /\ pc'[u] \in {"wake_task", "wake_del"} =>
                           /\ curr' <= Len(task_list')
                           /\ call'[task_list'[curr']].page = call'[u].page
                      /\ pc'[u] = "wake_del" => Woken(task_list[curr])'
                      /\ pc'[u] = "wake_init" <=> half' # NULL /\ qlock' = u
    BY DEF WalkOK, Page
  <2>1. CASE u # t
    <3>1. pc'[u] \notin WakePCs BY <1>2, <2>1
    <3>2. qlock' # u BY <2>1, PageLockAssumption DEF Steps
    <3>3. QED BY <3>1, <3>2 DEF WakePCs
  <2>2. CASE u = t
    <3>1. pc'[t] = "wake_init" => qlock' = t BY DEF Steps
    <3>2. pc'[t] \in WakePCs => pc'[t] # "idle" BY DEF WakePCs
    <3>3. QED BY <2>2, <3>1, <3>2
  <2>3. QED BY <2>1, <2>2
<1>7. HalfOK' BY PageLockAssumption DEF HalfOK, Steps
<1>8. SleepersQueued'
  <2> SUFFICES ASSUME NEW x \in Tasks, pc'[x] \in {"test", "action", "asleep"},
                      state'[x] # "RUNNING"
               PROVE  x \in Entries(task_list')
    BY DEF SleepersQueued
  <2>1. x # t BY DEF Steps, WakePCs
  <2>2. pc[x] = pc'[x] /\ state[x] # "RUNNING" BY <1>2, <2>1 DEF Steps
  <2>3. x \in Entries(task_list) BY <1>1, <2>2 DEF SleepersQueued
  <2>4. ~Woken(x) BY <2>2 DEF Woken
  <2>5. QED BY <2>3, <2>4
<1>9. EntriesAlive'
  <2>1. Entries(task_list) \subseteq Tasks BY <1>1, ListEmpty DEF TypeOK
  <2>2. t \notin Entries(task_list) BY <1>2 DEF Linked
  <2>3. QED BY <1>1, <1>2, <2>1, <2>2 DEF EntriesAlive
<1>10. QED BY <1>3, <1>4, <1>5, <1>6, <1>7, <1>8, <1>9 DEF QueueInv

(* The walker keeps what it owes to those ahead, or hands it on. *)
LEMMA StepsDue ==
  ASSUME PageInv, NEW t \in Tasks, Steps(t),
         Entries(task_list') \subseteq Entries(task_list),
         pc[t] = "wake_del" => task_list[curr] \notin Entries(task_list'),
         \A x \in Tasks : /\ Sleeper(x) /\ Sleeper(x)' /\ Page(x) \notin locked
                          /\ Page(x) = Page(t) /\ Walking(t, x)
            => \E r \in Tasks : Page(r)' = Page(x) /\ (Walking(r, x)' \/ Chosen(r)')
  PROVE  WakeDue'
<1>1. QueueInv /\ WakeDue BY DEF PageInv
<1>2. /\ \A x \in Tasks : x # t => pc'[x] = pc[x] /\ call'[x] = call[x] /\ pc[x] \notin WakePCs
      /\ ~Linked(t) /\ qlock = t
  BY <1>1, StepsFrame
<1> SUFFICES ASSUME NEW x \in Tasks, Sleeper(x)', Page(x)' \notin locked'
             PROVE  \E r \in Tasks : /\ Page(r)' = Page(x)'
                                     /\ Coming(r)' \/ Walking(r, x)' \/ Chosen(r)'
  BY DEF WakeDue
<1>3. x # t BY DEF Sleeper, Steps, WakePCs
<1>4. Sleeper(x) /\ Page(x)' = Page(x) /\ Page(x) \notin locked
  <2>1. /\ locked' = locked /\ sigpend' = sigpend /\ state'[x] \in {state[x], "RUNNING"}
        /\ pc'[x] = pc[x] /\ call'[x] = call[x]
    BY <1>2, <1>3 DEF Steps
  <2>2. QED BY <2>1 DEF Sleeper, schedule_returns, signal_pending_state, Page
<1>5. PICK r \in Tasks : Page(r) = Page(x) /\ (Coming(r) \/ Walking(r, x) \/ Chosen(r))
  BY <1>1, <1>4 DEF WakeDue
<1>6. CASE r = t
  <2>1. ~Coming(t) /\ ~Chosen(t) BY DEF Coming, Chosen, Steps, WakePCs
  <2>2. QED BY <1>4, <1>5, <1>6, <2>1
<1>7. CASE r # t
  <2>1. pc'[r] = pc[r] /\ call'[r] = call[r] /\ pc[r] \notin WakePCs BY <1>2, <1>7
  <2>2. Page(r)' = Page(r) BY <2>1 DEF Page
  <2>3. ~Walking(r, x) BY <2>1 DEF Walking, WakePCs
  <2>4. Coming(r) => Coming(r)' BY <2>1 DEF Coming
  <2>5. Chosen(r) => Chosen(r)'
    <3>1. state'[r] \in {state[r], "RUNNING"} BY DEF Steps
    <3>2. CASE r \notin Entries(task_list) BY <2>1, <3>1, <3>2 DEF Chosen, Exclusive
    <3>3. CASE \E u \in Tasks : pc[u] = "wake_del" /\ task_list[curr] = r
      <4>1. pc[t] = "wake_del" /\ task_list[curr] = r BY <1>2, <3>3 DEF WakePCs
      <4>2. QED BY <2>1, <3>1, <4>1 DEF Chosen, Exclusive
    <3>4. QED BY <3>2, <3>3 DEF Chosen
  <2>6. QED BY <1>4, <1>5, <2>2, <2>3, <2>4, <2>5
<1>8. QED BY <1>6, <1>7

(* Where an entry that is ahead is when the walker moves on. *)
LEMMA AheadNext ==
  ASSUME TypeOK, NEW x, Ahead(x, curr), curr <= Len(task_list) => task_list[curr] # x
  PROVE  Ahead(x, curr + 1)
<1>1. PICK i \in 1 .. Len(task_list) : i >= curr /\ task_list[i] = x BY DEF Ahead
<1>2. i \in Nat /\ curr \in Nat /\ Len(task_list) \in Nat BY DEF TypeOK
<1>3. i # curr BY <1>1
<1>4. QED BY <1>1, <1>2, <1>3 DEF Ahead

LEMMA WalkTests ==
  ASSUME PageInv, NEW t \in Tasks, wake_bit_function(t)
  PROVE  PageInv'
<1>1. QueueInv /\ TypeOK /\ CallOK BY DEF PageInv, QueueInv
<1>2. pc[t] = "wake_test" /\ UNCHANGED <<locked, task_list, half, taskVars>>
  BY DEF wake_bit_function
<1>3. TaskTypeOK' /\ state' = state /\ sigpend' = sigpend
  BY <1>1, <1>2 DEF TypeOK, TaskTypeOK, taskVars
<1>4. curr \in Nat /\ curr >= 1 /\ Len(task_list) \in Nat /\ qlock = t /\ half = NULL
  BY <1>1, <1>2 DEF QueueInv, TypeOK, WalkOK, OneWalker, WakePCs
<1>5. \/ /\ curr > Len(task_list) /\ qlock' = NULL /\ curr' = 0
         /\ pc' = [pc EXCEPT ![t] = "idle"] /\ call' = [call EXCEPT ![t] = NoCall]
      \/ /\ curr <= Len(task_list) /\ Page(task_list[curr]) = Page(t)
         /\ pc' = [pc EXCEPT ![t] = "wake_task"] /\ UNCHANGED <<qlock, curr, call>>
      \/ /\ curr <= Len(task_list) /\ ~Wakes(t, task_list[curr])
         /\ pc' = [pc EXCEPT ![t] = "wake_test"] /\ curr' = curr + 1 /\ UNCHANGED <<qlock, call>>
  BY DEF wake_bit_function, WakeUpDone, WakeUpNext, Return, Goto, Wakes
<1>6. pc' = [pc EXCEPT ![t] = pc'[t]] /\ pc'[t] \in {"idle", "wake_task", "wake_test"}
  BY <1>1, <1>5 DEF TypeOK
<1>7. Steps(t)
  <2>1. pc'[t] = "idle" <=> curr > Len(task_list) BY <1>1, <1>4, <1>5 DEF TypeOK
  <2>2. QED BY <1>2, <1>3, <1>4, <1>5, <1>6, <2>1 DEF Steps, WakePCs
<1>8. QueueInv'
  <2>1. pc'[t] # "idle" => curr' >= 1 BY <1>1, <1>4, <1>5 DEF TypeOK
  <2>2. pc'[t] = "wake_task" =>
          curr' <= Len(task_list') /\ call'[task_list'[curr']].page = call'[t].page
    BY <1>1, <1>2, <1>5 DEF TypeOK, Page
  <2>3. curr' \in Nat BY <1>4, <1>5
  <2>4. task_list \in Seq(Tasks) /\ NoDuplicates(task_list) BY <1>1 DEF QueueInv, TypeOK, EntriesAlive
  <2>5. QED BY <1>1, <1>2, <1>4, <1>6, <1>7, <2>1, <2>2, <2>3, <2>4, StepsQueue
<1>9. WakeDue'
  <2>1. ASSUME NEW x \in Tasks, Sleeper(x), Page(x) \notin locked, Page(x) = Page(t), Walking(t, x)
        PROVE  Page(t)' = Page(x) /\ Walking(t, x)'
    <3>1. Ahead(x, curr) BY <1>2, <2>1 DEF Walking
    <3>2. curr <= Len(task_list) BY <1>4, <3>1 DEF Ahead
    <3>3. call' = call /\ Page(t)' = Page(t) BY <1>4, <1>5, <3>2 DEF Page
    <3>4. CASE pc' = [pc EXCEPT ![t] = "wake_task"] /\ curr' = curr
      <4>1. pc'[t] = "wake_task" BY <1>1, <3>4 DEF TypeOK
      <4>2. QED BY <1>2, <2>1, <3>1, <3>3, <3>4, <4>1 DEF Walking, Ahead
    <3>5. CASE /\ ~Wakes(t, task_list[curr]) /\ pc' = [pc EXCEPT ![t] = "wake_test"]
               /\ curr' = curr + 1
      <4>1. pc'[t] = "wake_test" BY <1>1, <3>5 DEF TypeOK
      <4>2. task_list[curr] # x BY <2>1, <3>5 DEF Wakes
      <4>3. Ahead(x, curr + 1) BY <1>1, <3>1, <4>2, AheadNext
      <4>4. QED BY <1>2, <2>1, <3>3, <3>5, <4>1, <4>3 DEF Walking, Ahead
    <3>6. QED BY <1>4, <1>5, <3>2, <3>4, <3>5
  <2>2. QED BY <1>2, <1>7, <2>1, StepsDue
<1>10. QED BY <1>8, <1>9 DEF PageInv

LEMMA WalkWakes ==
  ASSUME PageInv, NEW t \in Tasks, try_to_wake_up(t)
  PROVE  PageInv'
<1>1. QueueInv /\ TypeOK /\ CallOK BY DEF PageInv, QueueInv
<1>2. PICK w : w = task_list[curr] OBVIOUS
<1>3. /\ pc[t] = "wake_task" /\ UNCHANGED <<locked, task_list, half, sigpend>>
      /\ state' = [state EXCEPT ![w] = "RUNNING"]
      /\ call' = call /\ qlock' = qlock
      /\ \/ Success(w) /\ pc' = [pc EXCEPT ![t] = "wake_del"] /\ curr' = curr
         \/ pc' = [pc EXCEPT ![t] = "wake_test"] /\ curr' = curr + 1
  BY <1>2 DEF try_to_wake_up, wake_up_process, WakeUpNext, Goto
<1>4. /\ curr \in Nat /\ curr >= 1 /\ curr <= Len(task_list) /\ Len(task_list) \in Nat
      /\ qlock = t /\ half = NULL /\ Page(w) = Page(t)
  BY <1>1, <1>2, <1>3 DEF QueueInv, TypeOK, WalkOK, OneWalker, WakePCs
<1>5. w \in Tasks /\ w \in Entries(task_list) /\ pc[w] \in WaitPCs /\ w # t
  <2>1. w \in Tasks /\ w \in Entries(task_list) BY <1>1, <1>2, <1>4 DEF TypeOK, Entries
  <2>2. pc[w] \in WaitPCs BY <1>1, <2>1 DEF QueueInv, EntriesAlive
  <2>3. QED BY <1>3, <2>1, <2>2 DEF WaitPCs
<1>6. /\ pc' = [pc EXCEPT ![t] = pc'[t]] /\ pc'[t] \in {"wake_del", "wake_test"}
      /\ pc'[w] = pc[w] /\ state'[w] = "RUNNING"
  BY <1>1, <1>3, <1>5 DEF TypeOK, TaskTypeOK
<1>7. TaskTypeOK' /\ \A x \in Tasks : state'[x] \in {state[x], "RUNNING"}
  BY <1>1, <1>3 DEF TypeOK, TaskTypeOK, TaskStates
<1>8. Steps(t) BY <1>3, <1>4, <1>6, <1>7 DEF Steps, WakePCs
<1>9. pc'[t] = "wake_del" => Success(w) /\ curr' = curr /\ task_list'[curr'] = w
  BY <1>1, <1>2, <1>3 DEF TypeOK
<1>10. QueueInv'
  <2>1. curr' \in Nat /\ curr' >= 1 BY <1>3, <1>4
  <2>2. pc'[t] = "wake_del" =>
          curr' <= Len(task_list') /\ call'[task_list'[curr']].page = call'[t].page
    BY <1>3, <1>4, <1>9 DEF Page
  <2>3. pc'[t] = "wake_del" => Woken(task_list[curr])'
    BY <1>6, <1>9 DEF Woken, Success
  <2>4. task_list \in Seq(Tasks) /\ NoDuplicates(task_list) BY <1>1 DEF QueueInv, TypeOK, EntriesAlive
  <2>5. QED BY <1>1, <1>3, <1>4, <1>6, <1>8, <2>1, <2>2, <2>3, <2>4, StepsQueue
<1>11. WakeDue'
  <2>1. ASSUME NEW x \in Tasks, Sleeper(x)', Page(x) = Page(t), Walking(t, x)
        PROVE  \E r \in Tasks : Page(r)' = Page(x) /\ (Walking(r, x)' \/ Chosen(r)')
    <3>1. x # w BY <1>6, <2>1 DEF Sleeper, schedule_returns
    <3>2. Ahead(x, curr) BY <1>3, <2>1 DEF Walking
    <3>3. Ahead(x, curr + 1) BY <1>1, <1>2, <3>1, <3>2, AheadNext
    <3>4. Page(t)' = Page(t) /\ Page(w)' = Page(w) BY <1>3 DEF Page
    <3>5. CASE pc'[t] = "wake_test"
      <4>1. curr' = curr + 1 BY <1>1, <1>3, <3>5 DEF TypeOK
      <4>2. Walking(t, x)' BY <1>3, <3>3, <3>5, <4>1 DEF Walking, Ahead
      <4>3. QED BY <2>1, <3>4, <4>2
    <3>6. CASE pc'[t] = "wake_del" /\ Exclusive(w)
      <4>1. Chosen(w)' BY <1>3, <1>6, <1>9, <3>6 DEF Chosen, Exclusive, Success
      <4>2. QED BY <1>4, <1>5, <2>1, <3>4, <4>1
    <3>7. CASE pc'[t] = "wake_del" /\ ~Exclusive(w)
      <4>1. Walking(t, x)' BY <1>3, <1>9, <3>3, <3>7 DEF Walking, Ahead, Exclusive
      <4>2. QED BY <2>1, <3>4, <4>1
    <3>8. QED BY <1>6, <3>5, <3>6, <3>7
  <2>2. QED BY <1>3, <1>8, <2>1, StepsDue
<1>12. QED BY <1>10, <1>11 DEF PageInv

LEMMA WalkUnlinks ==
  ASSUME PageInv, NEW t \in Tasks, WakeDel(t)
  PROVE  PageInv'
<1>1. QueueInv /\ TypeOK /\ CallOK /\ task_list \in Seq(Tasks) /\ NoDuplicates(task_list)
  BY DEF PageInv, QueueInv, TypeOK, EntriesAlive
<1>2. PICK w : w = task_list[curr] OBVIOUS
<1>3. /\ pc[t] = "wake_del" /\ UNCHANGED <<locked, qlock, curr, call, taskVars>>
      /\ \E pointer \in {"next", "prev"} : half' = <<w, pointer>>
      /\ task_list' = list_del(task_list, w)
      /\ pc' = [pc EXCEPT ![t] = "wake_init"]
  BY <1>2 DEF WakeDel, Goto
<1>4. /\ curr \in 1 .. Len(task_list) /\ Len(task_list) \in Nat /\ qlock = t
      /\ Woken(w)
  BY <1>1, <1>2, <1>3 DEF QueueInv, TypeOK, WalkOK, OneWalker, WakePCs
<1>5. w \in Tasks /\ w \in Entries(task_list) /\ pc[w] \in WaitPCs /\ w # t
  <2>1. w \in Tasks /\ w \in Entries(task_list) BY <1>1, <1>2, <1>4 DEF Entries
  <2>2. pc[w] \in WaitPCs BY <1>1, <2>1 DEF QueueInv, EntriesAlive
  <2>3. QED BY <1>3, <2>1, <2>2 DEF WaitPCs
<1>6. /\ pc' = [pc EXCEPT ![t] = pc'[t]] /\ pc'[t] = "wake_init" /\ pc'[w] = pc[w]
      /\ TaskTypeOK' /\ state' = state /\ sigpend' = sigpend
  BY <1>1, <1>3, <1>5 DEF TypeOK, TaskTypeOK, taskVars
<1>7. Steps(t) BY <1>3, <1>4, <1>6 DEF Steps, WakePCs
<1>8. /\ task_list' \in Seq(Tasks) /\ NoDuplicates(task_list')
      /\ Entries(task_list') = Entries(task_list) \ {w}
  BY <1>1, <1>3, <1>5, ListDelSeq, ListDel
<1>9. /\ Len(task_list') = Len(task_list) - 1
      /\ \A j \in 1 .. (Len(task_list) - 1) :
           task_list'[j] = IF j < curr THEN task_list[j] ELSE task_list[j + 1]
  BY <1>1, <1>2, <1>3, <1>4, ListDelAt
<1>10. half' \in Tasks \X {"next", "prev"} /\ half'[1] = w /\ half' # NULL
  <2>1. half' \in Tasks \X {"next", "prev"} /\ half'[1] = w BY <1>3, <1>5
  <2>2. QED BY <2>1, PageLockAssumption
<1>11. QueueInv'
  BY <1>1, <1>3, <1>4, <1>5, <1>6, <1>7, <1>8, <1>10, StepsQueue
<1>12. WakeDue'
  <2>1. ASSUME NEW x \in Tasks, Page(x) = Page(t), Walking(t, x)
        PROVE  Page(t)' = Page(x) /\ Walking(t, x)'
    <3>1. ~Exclusive(w) /\ Ahead(x, curr + 1) BY <1>2, <1>3, <2>1 DEF Walking
    <3>2. PICK i \in 1 .. Len(task_list) : i >= curr + 1 /\ task_list[i] = x BY <3>1 DEF Ahead
    <3>3. i - 1 \in 1 .. Len(task_list') /\ i - 1 >= curr /\ task_list'[i - 1] = x
      <4>1. i \in Nat /\ curr \in Nat /\ curr >= 1 /\ i <= Len(task_list) BY <1>4, <3>2
      <4>2. i - 1 \in 1 .. (Len(task_list) - 1) /\ ~(i - 1 < curr) /\ (i - 1) + 1 = i
        BY <1>4, <3>2, <4>1
      <4>3. QED BY <1>9, <3>2, <4>1, <4>2
    <3>4. Ahead(x, curr)' BY <1>3, <3>3 DEF Ahead
    <3>5. Walking(t, x)' BY <1>3, <1>6, <1>10, <3>1, <3>4 DEF Walking, Exclusive
    <3>6. QED BY <1>3, <2>1, <3>5 DEF Page
  <2>2. QED BY <1>2, <1>7, <1>8, <2>1, StepsDue
<1>13. QED BY <1>11, <1>12 DEF PageInv

LEMMA WalkGoesOn ==
  ASSUME PageInv, NEW t \in Tasks, WakeInit(t)
  PROVE  PageInv'
<1>1. QueueInv /\ TypeOK /\ CallOK /\ task_list \in Seq(Tasks) /\ NoDuplicates(task_list)
  BY DEF PageInv, QueueInv, TypeOK, EntriesAlive
<1>2. /\ pc[t] = "wake_init" /\ half' = NULL /\ UNCHANGED <<locked, task_list, taskVars>>
      /\ \/ /\ Exclusive(half[1]) /\ qlock' = NULL /\ curr' = 0
            /\ pc' = [pc EXCEPT ![t] = "idle"] /\ call' = [call EXCEPT ![t] = NoCall]
         \/ /\ ~Exclusive(half[1]) /\ pc' = [pc EXCEPT ![t] = "wake_test"]
            /\ UNCHANGED <<qlock, curr, call>>
  BY DEF WakeInit, WakeUpDone, Return, Goto
<1>3. curr \in Nat /\ curr >= 1 /\ qlock = t
  BY <1>1, <1>2 DEF QueueInv, TypeOK, WalkOK, OneWalker, WakePCs
<1>4. /\ pc' = [pc EXCEPT ![t] = pc'[t]] /\ pc'[t] \in {"idle", "wake_test"}
      /\ TaskTypeOK' /\ state' = state /\ sigpend' = sigpend
  BY <1>1, <1>2 DEF TypeOK, TaskTypeOK, taskVars
<1>5. pc'[t] = "idle" <=> Exclusive(half[1]) BY <1>1, <1>2 DEF TypeOK
<1>6. Steps(t) BY <1>2, <1>3, <1>4, <1>5 DEF Steps, WakePCs
<1>7. QueueInv'
  <2>1. curr' \in Nat /\ (pc'[t] # "idle" => curr' >= 1) BY <1>2, <1>3, <1>5
  <2>2. QED BY <1>1, <1>2, <1>4, <1>6, <2>1, StepsQueue
<1>8. WakeDue'
  <2>1. ASSUME NEW x \in Tasks, Page(x) = Page(t), Walking(t, x)
        PROVE  Page(t)' = Page(x) /\ Walking(t, x)'
    <3>1. ~Exclusive(half[1]) /\ Ahead(x, curr) BY <1>2, <2>1 DEF Walking
    <3>2. pc'[t] = "wake_test" /\ curr' = curr /\ call' = call BY <1>2, <1>4, <1>5, <3>1
    <3>3. QED BY <1>2, <2>1, <3>1, <3>2 DEF Walking, Ahead, Page
  <2>2. QED BY <1>2, <1>6, <2>1, StepsDue
<1>9. QED BY <1>7, <1>8 DEF PageInv
-------------------------------------------------------------------------------
LEMMA PageInit ==
  ASSUME Init
  PROVE  PageInv
<1>1. TypeOK BY DEF Init, TypeOK, TaskInit, TaskTypeOK, TaskStates, Signals, PCs
<1>2. \A t \in Tasks : pc[t] = "idle" /\ state[t] = "RUNNING" BY DEF Init, TaskInit
<1>3. Len(task_list) = 0 /\ Entries(task_list) = {} /\ half = NULL /\ qlock = NULL
  BY DEF Init, Entries
<1>4. OneWalker BY <1>2, <1>3, PageLockAssumption DEF OneWalker, WakePCs
<1>5. CallOK /\ WalkOK /\ HalfOK /\ SleepersQueued
  BY <1>2, <1>3 DEF CallOK, WalkOK, HalfOK, SleepersQueued, WakePCs
<1>6. EntriesAlive BY <1>3 DEF EntriesAlive, NoDuplicates
<1>7. WakeDue BY <1>2 DEF WakeDue, Sleeper
<1>8. QED BY <1>1, <1>4, <1>5, <1>6, <1>7 DEF PageInv, QueueInv

LEMMA PageStep ==
  ASSUME PageInv, [Next]_vars
  PROVE  PageInv'
<1>1. CASE UNCHANGED vars
  <2>1. TaskTypeOK BY DEF PageInv, QueueInv, TypeOK
  <2>2. UNCHANGED <<locked, queueVars, call, pc>> /\ state' = state /\ sigpend' = sigpend
    BY <1>1 DEF vars, taskVars
  <2>3. TaskTypeOK' BY <2>1, <2>2 DEF TaskTypeOK
  <2>4. QED BY <2>2, <2>3, Awakens
<1>2. CASE Next
  <2>1. PICK t \in Tasks :
          \/ \E op \in Calls, p \in Pages : trylock_page(t, op, p) \/ MustWait(t, op, p)
          \/ Wait(t) \/ Wake(t) \/ Kill(t) \/ Delivered(t) \/ Stray(t)
    BY <1>2 DEF Next
  <2>2. CASE \E op \in Calls, p \in Pages : trylock_page(t, op, p) \/ MustWait(t, op, p)
    BY <2>2, Trylock
  <2>3. CASE Wait(t)
    BY <2>3, Prepares, Tests, Returns, Again, Checks, Finishes, Aborts DEF Wait
  <2>4. CASE Wake(t)
    BY <2>4, Unlocks, LooksForWaiters, WalkBegins, WalkTests, WalkWakes, WalkUnlinks, WalkGoesOn
       DEF Wake
  <2>5. CASE Kill(t) \/ Delivered(t) \/ Stray(t) BY <2>5, SignalsEndSleeps
  <2>6. QED BY <2>1, <2>2, <2>3, <2>4, <2>5
<1>3. QED BY <1>1, <1>2

(* The inductive invariant holds in every state; the theorems below follow *)
(* from it.                                                                *)
THEOREM PageLockInvariant == Spec => []PageInv
<1>1. Init => PageInv BY PageInit
<1>2. PageInv /\ [Next]_vars => PageInv' BY PageStep
<1>3. QED BY <1>1, <1>2, PTL DEF Spec

(* The queue, and a waker in the middle of list_del_init(), only touch     *)
(* entries on the stacks of tasks that have not left their wait, although  *)
(* finish_wait() looks at the entry without q->lock (wait.c:109-122).      *)
THEOREM PageLockEntriesAlive == Spec => []EntriesAlive
<1>1. PageInv => EntriesAlive BY DEF PageInv, QueueInv
<1>2. QED BY <1>1, PageLockInvariant, PTL

(* Nobody sleeps for a page that is not locked once everybody rests: a     *)
(* waiter killed at the moment it is woken passes the wakeup on            *)
(* (wait.c:144).                                                           *)
THEOREM PageLockNoLostWakeup == Spec => []NoLostWakeup
<1>1. ASSUME PageInv PROVE NoLostWakeup
  <2>1. QueueInv /\ WakeDue BY <1>1 DEF PageInv
  <2> SUFFICES ASSUME \A t \in Tasks : pc[t] \in {"idle", "has"} \/ Asleep(t),
                      NEW x \in Tasks, Asleep(x), Page(x) \notin locked
               PROVE  FALSE
    BY DEF NoLostWakeup
  <2>2. Sleeper(x) BY DEF Asleep, Sleeper
  <2>3. PICK r \in Tasks : Coming(r) \/ Walking(r, x) \/ Chosen(r) BY <2>1, <2>2 DEF WakeDue
  <2>4. pc[r] \in {"idle", "has"} \/ (pc[r] = "asleep" /\ state[r] # "RUNNING")
    BY DEF Asleep, schedule_returns
  <2>5. QED BY <2>3, <2>4 DEF Coming, Walking, Chosen
<1>2. QED BY <1>1, PageLockInvariant, PTL

===============================================================================
