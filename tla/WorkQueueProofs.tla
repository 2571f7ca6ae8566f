---------------------------- MODULE WorkQueueProofs ----------------------------
(***************************************************************************)
(* Theorems about WorkQueue for any CPUs, works and callers.               *)
(***************************************************************************)
EXTENDS WorkQueue, KernelListProofs, TLAPS

Records ==
  [op : AllOps \cup {"none"}, pc : CallPcs, work : Works \cup {NULL},
   cwq : Cpus \cup {NULL}, cpu : 0 .. NCpus, ret : {-1, 0, 1}]

(* Where a caller of each function can be. *)
PcsOf(op) ==
  CASE op \in Flushes -> {"del_timer", "requeue", "fw", "fw_lock", "fw_match", "wait", "return"}
    [] op \in Cancels -> {"del_timer", "grab", "data", "grab_lock", "match", "wq", "lock",
                          "wait", "clear"}
    [] op \in Unarms -> {"del_timer", "clear", "return"}
    [] op = "flush_workqueue" -> {"lock", "wait", "return"}
    [] op = "destroy_workqueue" -> {"lock", "wait", "stop", "exited", "return"}
    [] OTHER -> {"idle"}

(* The local variables of a call where they are used. *)
GoodCall(r) ==
  /\ r \in Records /\ r.pc \in PcsOf(r.op)
  /\ r.op = "none" => r = Idle
  /\ r.op \notin CpuLoops \cup {"none"} => r.work \in Works
  /\ r.op \in Cancels => r.work \in Cancelled
  /\ r.pc \in {"lock", "stop", "exited"} => r.cpu \in Cpus
  /\ r.pc = "wait" /\ r.op \notin Flushes => r.cpu \in Cpus
  /\ r.pc = "wait" /\ r.op \in Flushes => r.cwq \in Cpus
  /\ r.pc \in {"fw_lock", "fw_match", "grab_lock", "match"} => r.cwq \in Cpus
  /\ r.pc \in {"del_timer", "grab", "data", "grab_lock", "match"} => r.ret = 0
  /\ r.op \in Cancels /\ r.pc = "clear" => r.ret >= 0

CallOK == \A c \in Callers : GoodCall(call[c])

(* The worker of CPU p has taken x from the list and not called it yet. *)
Hand(x, p) == wpc[p] \in {"clear", "run"} /\ current_work[p] = x

(* A worker has something in its hands before it calls it. *)
HandOK == \A p \in Cpus : wpc[p] \in {"clear", "run"} => current_work[p] \in Items

(* A barrier is in one place. *)
BarrierOnce ==
  \A c \in Callers, p \in Cpus :
    /\ Once(worklist[p], c)
    /\ \A q \in Cpus : c \in Entries(worklist[p]) /\ c \in Entries(worklist[q]) => p = q
    /\ Hand(c, p) => \A q \in Cpus : c \notin Entries(worklist[q]) /\ (Hand(c, q) => p = q)

(* The types of what only the works and the ghosts are about; only a       *)
(* delayed work has a timer.                                               *)
RestOK ==
  /\ pending \subseteq Works /\ timer \subseteq Delayed /\ asked \subseteq Works
  /\ wq_data \in [Works -> Cpus \cup {NULL}]
  /\ queueing \subseteq [work : Works, cpu : Cpus, step : {"insert", "data", "timer", "fn"}]
  /\ \A q \in queueing : q.cpu \in On[q.work] /\ (q.step # "insert" => q.work \in Delayed)
  /\ todo \in [Callers -> SUBSET Pieces]

(* The list and the worker of each CPU. *)
CpuOK ==
  /\ worklist \in [Cpus -> Seq(Items)]
  /\ current_work \in [Cpus -> Items \cup {NULL}]
  /\ wpc \in [Cpus -> WorkerPcs]
  /\ awake \subseteq Cpus /\ should_stop \subseteq Cpus

(* The inductive invariant, whatever the works do. *)
WqInv == TypeOK /\ RestOK /\ CallOK /\ HandOK /\ BarrierOnce /\ BarrierAlive /\ NoLostWakeup

-------------------------------------------------------------------------------
USE DEF Flushes, Cancels, Unarms, CpuLoops

LEMMA CpusFacts ==
  NCpus \in Nat /\ NCpus \in Cpus /\ 1 \in Cpus /\ \A p \in Cpus : p \in 0 .. NCpus
BY WorkQueueAssumption DEF Cpus

(* A call moves on and changes none of its local variables. *)
LEMMA GotoGood ==
  ASSUME NEW r, GoodCall(r), NEW pc \in PcsOf(r.op) \cap CallPcs, r.op # "none",
         pc \in {"lock", "stop", "exited"} => r.cpu \in Cpus,
         pc = "wait" => IF r.op \in Flushes THEN r.cwq \in Cpus ELSE r.cpu \in Cpus,
         pc \in {"fw_lock", "fw_match", "grab_lock", "match"} => r.cwq \in Cpus,
         pc \in {"del_timer", "grab", "data", "grab_lock", "match"} => r.ret = 0,
         r.op \in Cancels /\ pc = "clear" => r.ret >= 0
  PROVE  GoodCall([r EXCEPT !.pc = pc])
<1> DEFINE s == [r EXCEPT !.pc = pc]
<1>1. r \in Records BY DEF GoodCall
<1>2. /\ s \in Records /\ s.pc = pc /\ s.op = r.op /\ s.work = r.work /\ s.cwq = r.cwq
      /\ s.cpu = r.cpu /\ s.ret = r.ret
  BY <1>1 DEF Records
<1> HIDE DEF s
<1>3. GoodCall(s) BY <1>2 DEF GoodCall
<1>4. QED BY <1>3 DEF s

LEMMA NextCpuGood ==
  ASSUME NEW r \in Records, r.op \in CpuLoops \cup Cancels,
         r.op \in Cancels => r.work \in Cancelled
  PROVE  GoodCall(NextCpu(r))
<1>0. r.op \in Cancels => r.work \in Works BY WorkQueueAssumption
<1>1. /\ r.op \in AllOps \cup {"none"} /\ r.pc \in CallPcs /\ r.work \in Works \cup {NULL}
      /\ r.cwq \in Cpus \cup {NULL} /\ r.cpu \in 0 .. NCpus /\ r.ret \in {-1, 0, 1}
  BY DEF Records
<1>2. CASE r.cpu < LastCpu
  <2> DEFINE s == [r EXCEPT !.cpu = r.cpu + 1, !.pc = CpuEntry(r.op)]
  <2>1. r.cpu + 1 \in Cpus /\ r.cpu + 1 \in 0 .. NCpus
    BY <1>1, <1>2, CpusFacts DEF LastCpu, Cpus
  <2>2. /\ s \in Records /\ s.pc = "lock" /\ s.op = r.op /\ s.work = r.work
        /\ s.cpu = r.cpu + 1
    BY <2>1 DEF CpuEntry, Records, CallPcs
  <2> HIDE DEF s
  <2>3. GoodCall(s) BY <1>0, <2>1, <2>2 DEF GoodCall, PcsOf
  <2>4. NextCpu(r) = s BY <1>2 DEF NextCpu, s
  <2>5. QED BY <2>3, <2>4
<1>3. CASE ~(r.cpu < LastCpu) /\ r.op \in CpuLoops
  <2> DEFINE s == [r EXCEPT !.pc = "return"]
  <2>1. /\ s \in Records /\ s.pc = "return" /\ s.op = r.op /\ s.work = r.work
    BY DEF Records, CallPcs
  <2> HIDE DEF s
  <2>2. GoodCall(s) BY <1>3, <2>1 DEF GoodCall, PcsOf
  <2>3. NextCpu(r) = s BY <1>3 DEF NextCpu, s
  <2>4. QED BY <2>2, <2>3
<1>4. CASE ~(r.cpu < LastCpu) /\ r.op \in Cancels /\ r.ret < 0
  <2> DEFINE s == [r EXCEPT !.pc = CancelStart(r.op), !.cpu = 0, !.cwq = NULL, !.ret = 0]
  <2>1. 0 \in 0 .. NCpus BY CpusFacts
  <2>2. /\ s \in Records /\ s.pc \in {"grab", "del_timer"} /\ s.op = r.op /\ s.work = r.work
        /\ s.ret = 0
    BY <2>1 DEF Records, CallPcs, CancelStart
  <2> HIDE DEF s
  <2>3. GoodCall(s) BY <1>0, <1>4, <2>2 DEF GoodCall, PcsOf
  <2>4. NextCpu(r) = s BY <1>4 DEF NextCpu, s
  <2>5. QED BY <2>3, <2>4
<1>5. CASE ~(r.cpu < LastCpu) /\ r.op \in Cancels /\ ~(r.ret < 0)
  <2> DEFINE s == [r EXCEPT !.pc = "clear", !.cpu = 0, !.cwq = NULL]
  <2>1. 0 \in 0 .. NCpus BY CpusFacts
  <2>2. /\ s \in Records /\ s.pc = "clear" /\ s.op = r.op /\ s.work = r.work
        /\ s.ret = r.ret
    BY <2>1 DEF Records, CallPcs
  <2>6. r.ret >= 0 BY <1>1, <1>5
  <2> HIDE DEF s
  <2>3. GoodCall(s) BY <1>0, <1>5, <2>2, <2>6 DEF GoodCall, PcsOf
  <2>4. NextCpu(r) = s BY <1>5 DEF NextCpu, s
  <2>5. QED BY <2>3, <2>4
<1>6. QED BY <1>1, <1>2, <1>3, <1>4, <1>5

(* The record of a call that begins. *)
LEMMA IdleGood ==
  Idle \in Records /\ GoodCall(Idle)
<1>1. 0 \in 0 .. NCpus BY CpusFacts
<1>2. Idle \in Records BY <1>1 DEF Idle, Records, CallPcs
<1>3. QED BY <1>2 DEF GoodCall, PcsOf, Idle

-------------------------------------------------------------------------------
LEMMA TypeParts ==
  TypeOK => CpuOK /\ done \subseteq Callers /\ call \in [Callers -> Records]
BY DEF TypeOK, CpuOK, Records

(* Caller c does something. *)
CallStep(c) == call' = [call EXCEPT ![c] = call'[c]] /\ GoodCall(call'[c])

LEMMA CallFrame ==
  ASSUME TypeOK, CallOK, NEW c \in Callers, CallStep(c)
  PROVE  /\ CallOK' /\ call' \in [Callers -> Records]
         /\ \A d \in Callers : d # c => call'[d] = call[d]
<1>1. call \in [Callers -> Records] BY DEF TypeOK, Records
<1>2. call'[c] \in Records /\ GoodCall(call'[c]) BY DEF CallStep, GoodCall
<1>3. call' \in [Callers -> Records] /\ \A d \in Callers : d # c => call'[d] = call[d]
  BY <1>1, <1>2 DEF CallStep
<1>4. CallOK' BY <1>2, <1>3 DEF CallOK
<1>5. QED BY <1>3, <1>4

(* What a step that links no barrier has to keep. *)
LEMMA BarrierKept ==
  ASSUME BarrierOnce, BarrierAlive,
         \A d \in Callers, p \in Cpus :
           /\ d \in Entries(worklist'[p]) => d \in Entries(worklist[p])
           /\ Once(worklist[p], d) => Once(worklist'[p], d)
           /\ Hand(d, p)' => Hand(d, p),
         \A d \in Callers : call[d].pc = "wait" /\ d \notin done =>
                              call'[d].pc = "wait" /\ d \notin done'
  PROVE  BarrierOnce' /\ BarrierAlive'
<1>1. BarrierOnce'
  <2> SUFFICES ASSUME NEW c \in Callers, NEW p \in Cpus
               PROVE  /\ Once(worklist'[p], c)
                      /\ \A q \in Cpus : c \in Entries(worklist'[p]) /\ c \in Entries(worklist'[q])
                                           => p = q
                      /\ Hand(c, p)' => \A q \in Cpus : /\ c \notin Entries(worklist'[q])
                                                        /\ Hand(c, q)' => p = q
    BY DEF BarrierOnce
  <2>1. QED BY DEF BarrierOnce
<1>2. BarrierAlive'
  <2> SUFFICES ASSUME NEW c \in Callers, NEW p \in Cpus, c \in Entries(worklist'[p]) \/ Hand(c, p)'
               PROVE  call'[c].pc = "wait" /\ c \notin done'
    BY DEF BarrierAlive, Hand
  <2>1. c \in Entries(worklist[p]) \/ Hand(c, p) OBVIOUS
  <2>2. call[c].pc = "wait" /\ c \notin done BY <2>1 DEF BarrierAlive, Hand
  <2>3. QED BY <2>2
<1>3. QED BY <1>1, <1>2

(* A step that leaves the lists and the workers alone. *)
LEMMA RestStep ==
  ASSUME WqInv, RestOK', UNCHANGED <<cwqVars, workerVars>>, CallOK', call' \in [Callers -> Records],
         done' \subseteq Callers,
         \A d \in Callers : call[d].pc = "wait" /\ d \notin done =>
                              call'[d].pc = "wait" /\ d \notin done'
  PROVE  WqInv'
<1>1. /\ worklist' = worklist /\ current_work' = current_work /\ wpc' = wpc /\ awake' = awake
      /\ should_stop' = should_stop
  BY DEF cwqVars, workerVars
<1>2. TypeOK /\ CallOK /\ CpuOK /\ HandOK /\ BarrierOnce /\ BarrierAlive /\ NoLostWakeup
  BY TypeParts DEF WqInv
<1>3. CpuOK' BY <1>1, <1>2 DEF CpuOK
<1>4. TypeOK' BY <1>3 DEF TypeOK, CpuOK, RestOK, Records
<1>5. HandOK' /\ NoLostWakeup' BY <1>1, <1>2 DEF HandOK, NoLostWakeup
<1>6. BarrierOnce' /\ BarrierAlive' BY <1>1, <1>2, BarrierKept DEF Hand
<1>7. QED BY <1>4, <1>5, <1>6 DEF WqInv

LEMMA CallOnly ==
  ASSUME WqInv, NEW c \in Callers, CallStep(c), call[c].pc # "wait", RestOK',
         UNCHANGED <<cwqVars, workerVars, done>>
  PROVE  WqInv'
<1>1. TypeOK /\ CallOK /\ done \subseteq Callers BY DEF WqInv, TypeOK
<1>2. /\ CallOK' /\ call' \in [Callers -> Records]
      /\ \A d \in Callers : d # c => call'[d] = call[d]
  BY <1>1, CallFrame
<1>3. \A d \in Callers : call[d].pc = "wait" => call'[d].pc = "wait" BY <1>2
<1>4. QED BY <1>1, <1>2, <1>3, RestStep

(* A caller that leaves everything but its own state alone. *)
LEMMA CallStepOf ==
  ASSUME TypeOK, NEW c \in Callers, NEW r, GoodCall(r), call' = [call EXCEPT ![c] = r]
  PROVE  CallStep(c) /\ call'[c] = r
<1>1. call'[c] = r BY DEF TypeOK
<1>2. QED BY <1>1 DEF CallStep

LEMMA GotoStep ==
  ASSUME TypeOK, NEW c \in Callers, NEW pc, GoodCall([call[c] EXCEPT !.pc = pc]), Goto(c, pc)
  PROVE  CallStep(c) /\ call'[c] = [call[c] EXCEPT !.pc = pc]
<1>1. call' = [call EXCEPT ![c] = [call[c] EXCEPT !.pc = pc]] BY DEF Goto
<1>2. QED BY <1>1, CallStepOf

(* A caller is in the function whose code it runs. *)
LEMMA CallerIn ==
  ASSUME CallOK, NEW c \in Callers
  PROVE  /\ call[c] \in Records /\ GoodCall(call[c]) /\ call[c].pc \in PcsOf(call[c].op)
         /\ call[c].op \in AllOps \cup {"none"}
         /\ call[c].pc \in {"fw", "fw_lock", "fw_match", "requeue"} =>
              call[c].op \in Flushes /\ call[c].work \in Works
         /\ call[c].pc \in {"grab", "data", "grab_lock", "match", "wq"} =>
              call[c].op \in Cancels /\ call[c].work \in Works
         /\ call[c].pc \in {"stop", "exited"} => call[c].op = "destroy_workqueue"
         /\ call[c].pc \in {"lock", "wait"} => call[c].op \in CpuLoops \cup Cancels \cup Flushes
         /\ call[c].pc = "clear" => call[c].op \in Cancels \cup Unarms /\ call[c].work \in Works
         /\ call[c].pc = "del_timer" =>
              call[c].op \in Cancels \cup Unarms \cup Flushes /\ call[c].work \in Works
         /\ call[c].pc = "lock" => call[c].op \in CpuLoops \cup Cancels
         /\ call[c].op \in Cancels => call[c].work \in Works /\ call[c].work \in Cancelled
<1>1. GoodCall(call[c]) BY DEF CallOK
<1>2. call[c].op \in AllOps \cup {"none"} BY <1>1 DEF GoodCall, Records
<1>3. call[c].pc \in PcsOf(call[c].op) /\ call[c] \in Records BY <1>1 DEF GoodCall
<1>4. QED BY <1>1, <1>2, <1>3 DEF GoodCall, PcsOf, AllOps

(* The ghost of a flush holds pieces of work. *)
LEMMA BusyPieces ==
  ASSUME NEW ws, ws \subseteq Works, NEW ps, ps \subseteq Cpus
  PROVE  Busy(ws, ps) \subseteq Pieces
BY DEF Busy, Pieces

LEMMA ReturnStep ==
  ASSUME WqInv, NEW c \in Callers, Return(c)
  PROVE  WqInv'
<1>1. TypeOK /\ CallOK /\ RestOK BY TypeParts DEF WqInv
<1>2. CallStep(c) BY <1>1, IdleGood, CallStepOf DEF Return
<1>3. RestOK' BY <1>1 DEF Return, RestOK, workVars
<1>4. call[c].pc # "wait" /\ UNCHANGED <<cwqVars, workerVars, done>> BY DEF Return
<1>5. QED BY <1>2, <1>3, <1>4, CallOnly

LEMMA CancelClearsStep ==
  ASSUME WqInv, NEW c \in Callers, CancelClears(c)
  PROVE  WqInv'
<1>1. TypeOK /\ CallOK /\ RestOK BY TypeParts DEF WqInv
<1>2. CallStep(c) BY <1>1, IdleGood, CallStepOf DEF CancelClears
<1>3. RestOK' BY <1>1 DEF CancelClears, RestOK
<1>4. call[c].pc # "wait" /\ UNCHANGED <<cwqVars, workerVars, done>> BY DEF CancelClears
<1>5. QED BY <1>2, <1>3, <1>4, CallOnly

LEMMA ThreadExitedStep ==
  ASSUME WqInv, NEW c \in Callers, ThreadExited(c)
  PROVE  WqInv'
<1>1. TypeOK /\ CallOK /\ RestOK BY TypeParts DEF WqInv
<1>2. GoodCall(NextCpu(call[c])) BY <1>1, CallerIn, NextCpuGood DEF ThreadExited
<1>3. CallStep(c)
  <2>1. call' = [call EXCEPT ![c] = NextCpu(call[c])] BY DEF ThreadExited
  <2>2. QED BY <1>1, <1>2, <2>1, CallStepOf
<1>4. RestOK' BY <1>1 DEF ThreadExited, RestOK, workVars
<1>5. call[c].pc # "wait" /\ UNCHANGED <<cwqVars, workerVars, done>> BY DEF ThreadExited
<1>6. QED BY <1>3, <1>4, <1>5, CallOnly

LEMMA FlushReadsStep ==
  ASSUME WqInv, NEW c \in Callers, FlushReads(c)
  PROVE  WqInv'
<1>1. TypeOK /\ CallOK /\ RestOK BY TypeParts DEF WqInv
<1>2. PICK r : r = call[c] OBVIOUS
<1>3. PICK p : p = wq_data[r.work] OBVIOUS
<1>4. /\ r.pc = "fw" /\ r.op \in Flushes /\ r.work \in Works /\ GoodCall(r) /\ r \in Records
      /\ p \in Cpus \cup {NULL}
  BY <1>1, <1>2, <1>3, CallerIn DEF FlushReads, RestOK
<1>5. CallStep(c)
  <2>1. CASE p = NULL
    <3>1. call' = [call EXCEPT ![c] = [r EXCEPT !.pc = "return"]]
      BY <1>2, <1>3, <2>1 DEF FlushReads
    <3>2. GoodCall([r EXCEPT !.pc = "return"]) BY <1>4, GotoGood DEF PcsOf, CallPcs
    <3>3. QED BY <1>1, <3>1, <3>2, CallStepOf
  <2>2. CASE p # NULL
    <3> DEFINE s == [r EXCEPT !.pc = "fw_lock", !.cwq = p]
    <3>1. call' = [call EXCEPT ![c] = s] BY <1>2, <1>3, <2>2 DEF FlushReads
    <3>2. /\ s \in Records /\ s.pc = "fw_lock" /\ s.op = r.op /\ s.work = r.work /\ s.cwq = p
          /\ s.ret = r.ret
      BY <1>4, <2>2 DEF Records, CallPcs
    <3> HIDE DEF s
    <3>3. GoodCall(s) BY <1>4, <2>2, <3>2 DEF GoodCall, PcsOf
    <3>4. QED BY <1>1, <3>1, <3>3, CallStepOf
  <2>3. QED BY <2>1, <2>2
<1>6. RestOK'
  <2>1. todo' \in [Callers -> SUBSET Pieces]
    <3>1. todo' = [todo EXCEPT ![c] = IF p = NULL THEN {} ELSE Busy({r.work}, {p})]
      BY <1>2, <1>3 DEF FlushReads
    <3>2. p # NULL => Busy({r.work}, {p}) \subseteq Pieces BY <1>4, BusyPieces
    <3>3. QED BY <1>1, <3>1, <3>2 DEF RestOK
  <2>2. UNCHANGED <<workVars, asked>> BY DEF FlushReads
  <2>3. QED BY <1>1, <2>1, <2>2 DEF RestOK, workVars
<1>7. call[c].pc # "wait" /\ UNCHANGED <<cwqVars, workerVars, done>> BY DEF FlushReads
<1>8. QED BY <1>5, <1>6, <1>7, CallOnly

LEMMA DelTimerStep ==
  ASSUME WqInv, NEW c \in Callers, DelTimer(c)
  PROVE  WqInv'
<1>1. TypeOK /\ CallOK /\ RestOK BY TypeParts DEF WqInv
<1>2. PICK r : r = call[c] OBVIOUS
<1>3. /\ r.pc = "del_timer" /\ r.op \in Cancels \cup Unarms \cup Flushes /\ r.work \in Works
      /\ GoodCall(r) /\ r \in Records /\ r.ret = 0
  BY <1>1, <1>2, CallerIn DEF DelTimer, GoodCall
<1>4. \/ call' = [call EXCEPT ![c] =
                CASE r.op \in Cancels -> [r EXCEPT !.ret = 1, !.pc = "wq"]
                  [] r.op \in Unarms -> [r EXCEPT !.pc = "clear"]
                  [] r.op \in Flushes -> [r EXCEPT !.pc = "requeue"]]
      \/ call' = [call EXCEPT ![c] = [r EXCEPT !.pc =
                CASE r.op \in Cancels -> "grab"
                  [] r.op \in Unarms -> "return"
                  [] r.op \in Flushes -> "fw"]]
  BY <1>2 DEF DelTimer, Goto
<1>5. CallStep(c)
  <2>1. CASE r.op \in Cancels
    <3> DEFINE s == [r EXCEPT !.ret = 1, !.pc = "wq"]
    <3>1. call' = [call EXCEPT ![c] = s] \/ call' = [call EXCEPT ![c] = [r EXCEPT !.pc = "grab"]]
      BY <1>4, <2>1
    <3>2. s \in Records /\ s.pc = "wq" /\ s.op = r.op /\ s.work = r.work
      BY <1>3 DEF Records, CallPcs
    <3> HIDE DEF s
    <3>3. GoodCall(s) BY <1>3, <2>1, <3>2 DEF GoodCall, PcsOf
    <3>4. GoodCall([r EXCEPT !.pc = "grab"]) BY <1>3, <2>1, GotoGood DEF PcsOf, CallPcs
    <3>5. QED BY <1>1, <3>1, <3>3, <3>4, CallStepOf
  <2>2. CASE r.op \in Unarms
    <3>1. \/ call' = [call EXCEPT ![c] = [r EXCEPT !.pc = "clear"]]
          \/ call' = [call EXCEPT ![c] = [r EXCEPT !.pc = "return"]]
      BY <1>4, <2>2
    <3>2. GoodCall([r EXCEPT !.pc = "clear"]) BY <1>3, <2>2, GotoGood DEF PcsOf, CallPcs
    <3>3. GoodCall([r EXCEPT !.pc = "return"]) BY <1>3, <2>2, GotoGood DEF PcsOf, CallPcs
    <3>4. QED BY <1>1, <3>1, <3>2, <3>3, CallStepOf
  <2>3. CASE r.op \in Flushes
    <3>1. \/ call' = [call EXCEPT ![c] = [r EXCEPT !.pc = "requeue"]]
          \/ call' = [call EXCEPT ![c] = [r EXCEPT !.pc = "fw"]]
      BY <1>4, <2>3
    <3>2. GoodCall([r EXCEPT !.pc = "requeue"]) BY <1>3, <2>3, GotoGood DEF PcsOf, CallPcs
    <3>3. GoodCall([r EXCEPT !.pc = "fw"]) BY <1>3, <2>3, GotoGood DEF PcsOf, CallPcs
    <3>4. QED BY <1>1, <3>1, <3>2, <3>3, CallStepOf
  <2>4. QED BY <1>3, <2>1, <2>2, <2>3
<1>6. RestOK'
  <2>1. /\ timer' \subseteq timer /\ asked' \subseteq asked
        /\ UNCHANGED <<pending, wq_data, queueing, todo>>
    BY DEF DelTimer
  <2>2. QED BY <1>1, <2>1 DEF RestOK
<1>7. call[c].pc # "wait" /\ UNCHANGED <<cwqVars, workerVars, done>> BY DEF DelTimer
<1>8. QED BY <1>5, <1>6, <1>7, CallOnly

LEMMA GrabBitStep ==
  ASSUME WqInv, NEW c \in Callers, GrabBit(c)
  PROVE  WqInv'
<1>1. TypeOK /\ CallOK /\ RestOK BY TypeParts DEF WqInv
<1>2. /\ call[c].pc = "grab" /\ call[c].op \in Cancels /\ call[c].work \in Works
      /\ GoodCall(call[c]) /\ call[c].ret = 0
  BY <1>1, CallerIn DEF GrabBit, GoodCall
<1>3. GoodCall([call[c] EXCEPT !.pc = "data"]) /\ GoodCall([call[c] EXCEPT !.pc = "wq"])
  BY <1>2, GotoGood DEF PcsOf, CallPcs
<1>4. Goto(c, "data") \/ Goto(c, "wq") BY DEF GrabBit
<1>5. CallStep(c) BY <1>1, <1>3, <1>4, GotoStep
<1>6. RestOK' BY <1>1, <1>2 DEF GrabBit, RestOK
<1>7. call[c].pc # "wait" /\ UNCHANGED <<cwqVars, workerVars, done>> BY DEF GrabBit
<1>8. QED BY <1>5, <1>6, <1>7, CallOnly

(* Giving up: try_to_grab_pending() returns -1. *)
LEMMA GiveUpGood ==
  ASSUME NEW r, GoodCall(r), r.op \in Cancels, NEW n \in {-1, 1}
  PROVE  GoodCall([r EXCEPT !.pc = "wq", !.ret = n])
<1> DEFINE s == [r EXCEPT !.pc = "wq", !.ret = n]
<1>1. r \in Records /\ r.work \in Works BY DEF GoodCall
<1>2. s \in Records /\ s.pc = "wq" /\ s.op = r.op /\ s.work = r.work
  BY <1>1 DEF Records, CallPcs
<1> HIDE DEF s
<1>3. GoodCall(s) BY <1>1, <1>2 DEF GoodCall, PcsOf
<1>4. QED BY <1>3 DEF s

LEMMA GrabReadsStep ==
  ASSUME WqInv, NEW c \in Callers, GrabReads(c)
  PROVE  WqInv'
<1>1. TypeOK /\ CallOK /\ RestOK BY TypeParts DEF WqInv
<1>2. PICK r : r = call[c] OBVIOUS
<1>3. PICK p : p = wq_data[r.work] OBVIOUS
<1>4. /\ r.pc = "data" /\ r.op \in Cancels /\ r.work \in Works /\ GoodCall(r) /\ r \in Records
      /\ p \in Cpus \cup {NULL} /\ r.ret = 0
  BY <1>1, <1>2, <1>3, CallerIn DEF GrabReads, RestOK, GoodCall
<1>5. CallStep(c)
  <2>1. CASE p = NULL
    <3>1. call' = [call EXCEPT ![c] = [r EXCEPT !.pc = "wq", !.ret = -1]]
      BY <1>2, <1>3, <2>1 DEF GrabReads
    <3>2. QED BY <1>1, <1>4, <3>1, GiveUpGood, CallStepOf
  <2>2. CASE p # NULL
    <3> DEFINE s == [r EXCEPT !.pc = "grab_lock", !.cwq = p]
    <3>1. call' = [call EXCEPT ![c] = s] BY <1>2, <1>3, <2>2 DEF GrabReads
    <3>2. /\ s \in Records /\ s.pc = "grab_lock" /\ s.op = r.op /\ s.work = r.work /\ s.cwq = p
          /\ s.ret = r.ret
      BY <1>4, <2>2 DEF Records, CallPcs
    <3> HIDE DEF s
    <3>3. GoodCall(s) BY <1>4, <2>2, <3>2 DEF GoodCall, PcsOf
    <3>4. QED BY <1>1, <3>1, <3>3, CallStepOf
  <2>3. QED BY <2>1, <2>2
<1>6. RestOK' BY <1>1 DEF GrabReads, RestOK, workVars
<1>7. call[c].pc # "wait" /\ UNCHANGED <<cwqVars, workerVars, done>> BY DEF GrabReads
<1>8. QED BY <1>5, <1>6, <1>7, CallOnly

LEMMA GrabLooksStep ==
  ASSUME WqInv, NEW c \in Callers, GrabLooks(c)
  PROVE  WqInv'
<1>1. TypeOK /\ CallOK /\ RestOK BY TypeParts DEF WqInv
<1>2. PICK r : r = call[c] OBVIOUS
<1>3. /\ r.pc = "grab_lock" /\ r.op \in Cancels /\ GoodCall(r) /\ r.cwq \in Cpus /\ r.ret = 0
  BY <1>1, <1>2, CallerIn DEF GrabLooks, GoodCall
<1>4. \/ call' = [call EXCEPT ![c] = [r EXCEPT !.pc = "match"]]
      \/ call' = [call EXCEPT ![c] = [r EXCEPT !.pc = "wq", !.ret = -1]]
  BY <1>2 DEF GrabLooks
<1>5. GoodCall([r EXCEPT !.pc = "match"]) BY <1>3, GotoGood DEF PcsOf, CallPcs
<1>6. CallStep(c) BY <1>1, <1>3, <1>4, <1>5, GiveUpGood, CallStepOf
<1>7. RestOK' BY <1>1 DEF GrabLooks, RestOK, workVars
<1>8. call[c].pc # "wait" /\ UNCHANGED <<cwqVars, workerVars, done>> BY DEF GrabLooks
<1>9. QED BY <1>6, <1>7, <1>8, CallOnly

LEMMA WaitOnWorkStep ==
  ASSUME WqInv, NEW c \in Callers, wait_on_work(c)
  PROVE  WqInv'
<1>1. TypeOK /\ CallOK /\ RestOK BY TypeParts DEF WqInv
<1>2. PICK r : r = call[c] OBVIOUS
<1>3. r.pc = "wq" /\ r.op \in Cancels /\ GoodCall(r) /\ r.work \in Works /\ r \in Records
  BY <1>1, <1>2, CallerIn DEF wait_on_work
<1>4. CASE wq_data[r.work] = NULL
  <2> DEFINE s == [r EXCEPT !.cpu = LastCpu]
  <2>1. call' = [call EXCEPT ![c] = NextCpu(s)] BY <1>2, <1>4 DEF wait_on_work
  <2>2. LastCpu \in 0 .. NCpus BY CpusFacts DEF LastCpu
  <2>3. s \in Records /\ s.op = r.op /\ s.work = r.work BY <1>3, <2>2 DEF Records
  <2> HIDE DEF s
  <2>4. GoodCall(NextCpu(s)) BY <1>3, <2>3, NextCpuGood DEF GoodCall
  <2>5. CallStep(c) BY <1>1, <2>1, <2>4, CallStepOf
  <2>6. QED BY <1>1, <1>2, <1>3, <2>5, CallOnly DEF wait_on_work, RestOK, workVars
<1>5. CASE wq_data[r.work] # NULL
  <2> DEFINE s == [r EXCEPT !.pc = "lock", !.cpu = FirstCpu, !.cwq = NULL]
  <2>1. call' = [call EXCEPT ![c] = s] BY <1>2, <1>5 DEF wait_on_work
  <2>2. FirstCpu \in 0 .. NCpus /\ FirstCpu \in Cpus BY CpusFacts DEF FirstCpu
  <2>3. s \in Records /\ s.op = r.op /\ s.work = r.work /\ s.pc = "lock" /\ s.cpu = FirstCpu
    BY <1>3, <2>2 DEF Records, CallPcs
  <2> HIDE DEF s
  <2>4. GoodCall(s) BY <1>3, <2>2, <2>3 DEF GoodCall, PcsOf
  <2>5. CallStep(c) BY <1>1, <2>1, <2>4, CallStepOf
  <2>6. QED BY <1>1, <1>2, <1>3, <2>5, CallOnly DEF wait_on_work, RestOK, workVars
<1>6. QED BY <1>4, <1>5

LEMMA BeginCpuLoopStep ==
  ASSUME WqInv, NEW c \in Callers, NEW op \in CpuLoops, BeginCpuLoop(c, op)
  PROVE  WqInv'
<1>1. TypeOK /\ CallOK /\ RestOK BY TypeParts DEF WqInv
<1> DEFINE s == [Idle EXCEPT !.op = op, !.pc = CpuEntry(op), !.cpu = 1]
<1>2. call' = [call EXCEPT ![c] = s] BY DEF BeginCpuLoop
<1>3. s \in Records /\ s.op = op /\ s.pc = "lock" /\ s.cpu = 1
  <2>1. 1 \in 0 .. NCpus BY CpusFacts
  <2>2. QED BY <2>1, IdleGood DEF Records, CallPcs, CpuEntry, AllOps
<1> HIDE DEF s
<1>4. GoodCall(s) BY <1>3, CpusFacts DEF GoodCall, PcsOf
<1>5. CallStep(c) BY <1>1, <1>2, <1>4, CallStepOf
<1>6. RestOK'
  <2>1. Busy(Works, Cpus) \subseteq Pieces BY BusyPieces
  <2>2. todo' = [todo EXCEPT ![c] = Busy(Works, Cpus)] /\ UNCHANGED <<workVars, asked>>
    BY DEF BeginCpuLoop
  <2>3. QED BY <1>1, <2>1, <2>2 DEF RestOK, workVars
<1>7. call[c].pc # "wait" /\ UNCHANGED <<cwqVars, workerVars, done>> BY DEF BeginCpuLoop, Idle
<1>8. QED BY <1>5, <1>6, <1>7, CallOnly

LEMMA BeginStep ==
  ASSUME WqInv, NEW c \in Callers, NEW op \in AllOps, NEW w \in Works, Begin(c, op, w)
  PROVE  WqInv'
<1>1. TypeOK /\ CallOK /\ RestOK BY TypeParts DEF WqInv
<1>2. op \in Flushes \cup Cancels \cup Unarms /\ call[c] = Idle
      /\ UNCHANGED <<cwqVars, workerVars, workVars, done, asked, todo>>
  BY DEF Begin, AllOps
<1>12. op \in Cancels => w \in Cancelled BY DEF Begin
<1>3. PICK pc : pc = CASE op = "flush_work" -> "fw"
                       [] op \in Cancels -> CancelStart(op)
                       [] OTHER -> "del_timer"
  OBVIOUS
<1> DEFINE s == [Idle EXCEPT !.op = op, !.work = w, !.pc = pc]
<1>4. call' = [call EXCEPT ![c] = s] BY <1>3 DEF Begin
<1>5. pc \in PcsOf(op) /\ pc \in {"fw", "grab", "del_timer"} BY <1>2, <1>3 DEF PcsOf, CancelStart
<1>6. s \in Records /\ s.op = op /\ s.pc = pc /\ s.work = w /\ s.ret = 0
  <2>1. Idle.ret = 0 BY DEF Idle
  <2>2. QED BY <1>5, <2>1, IdleGood DEF Records, CallPcs
<1> HIDE DEF s
<1>7. GoodCall(s) BY <1>2, <1>5, <1>6, <1>12 DEF GoodCall
<1>8. CallStep(c) BY <1>1, <1>4, <1>7, CallStepOf
<1>9. RestOK' BY <1>1, <1>2 DEF RestOK, workVars
<1>10. call[c].pc # "wait" /\ UNCHANGED <<cwqVars, workerVars, done>> BY <1>2 DEF Idle
<1>11. QED BY <1>8, <1>9, <1>10, CallOnly

(* The completed caller goes on. *)
LEMMA WaitForCompletionStep ==
  ASSUME WqInv, NEW c \in Callers, wait_for_completion(c)
  PROVE  WqInv'
<1>1. TypeOK /\ CallOK /\ RestOK /\ done \subseteq Callers BY TypeParts DEF WqInv
<1>2. PICK r : r = call[c] OBVIOUS
<1>3. /\ r.pc = "wait" /\ c \in done /\ GoodCall(r) /\ r \in Records
      /\ r.op \in Flushes \cup CpuLoops \cup Cancels /\ (r.op \in Cancels => r.work \in Works)
  BY <1>1, <1>2, CallerIn DEF wait_for_completion, Completed
<1>4. CallStep(c)
  <2>1. CASE r.op \in Flushes
    <3>1. call' = [call EXCEPT ![c] = [r EXCEPT !.pc = "return"]]
      BY <1>2, <2>1 DEF wait_for_completion
    <3>2. GoodCall([r EXCEPT !.pc = "return"]) BY <1>3, <2>1, GotoGood DEF PcsOf, CallPcs
    <3>3. QED BY <1>1, <3>1, <3>2, CallStepOf
  <2>2. CASE r.op = "destroy_workqueue"
    <3>1. call' = [call EXCEPT ![c] = [r EXCEPT !.pc = "stop"]]
      BY <1>2, <2>2 DEF wait_for_completion, CpuFlushed
    <3>2. r.cpu \in Cpus BY <1>3, <2>2 DEF GoodCall
    <3>3. GoodCall([r EXCEPT !.pc = "stop"]) BY <1>3, <2>2, <3>2, GotoGood DEF PcsOf, CallPcs
    <3>4. QED BY <1>1, <3>1, <3>3, CallStepOf
  <2>3. CASE r.op = "flush_workqueue" \/ r.op \in Cancels
    <3>1. call' = [call EXCEPT ![c] = NextCpu(r)]
      BY <1>2, <2>3 DEF wait_for_completion, CpuFlushed
    <3>2. QED BY <1>1, <1>3, <2>3, <3>1, NextCpuGood, CallStepOf DEF GoodCall
  <2>4. QED BY <1>3, <2>1, <2>2, <2>3
<1>5. done' = done \ {c} /\ UNCHANGED <<cwqVars, workerVars, workVars, asked, todo>>
  BY DEF wait_for_completion
<1>6. RestOK' BY <1>1, <1>5 DEF RestOK, workVars
<1>7. /\ CallOK' /\ call' \in [Callers -> Records]
      /\ \A d \in Callers : d # c => call'[d] = call[d]
  BY <1>1, <1>4, CallFrame
<1>8. \A d \in Callers : call[d].pc = "wait" /\ d \notin done =>
                           call'[d].pc = "wait" /\ d \notin done'
  BY <1>3, <1>5, <1>7
<1>9. QED BY <1>1, <1>5, <1>6, <1>7, <1>8, RestStep

-------------------------------------------------------------------------------
(* A step that links no barrier and wakes whoever has more to do. *)
LEMMA ListStep ==
  ASSUME WqInv, CpuOK', RestOK', CallOK', call' \in [Callers -> Records], done' \subseteq Callers,
         HandOK',
         \A d \in Callers, p \in Cpus :
           /\ d \in Entries(worklist'[p]) => d \in Entries(worklist[p])
           /\ Once(worklist[p], d) => Once(worklist'[p], d)
           /\ Hand(d, p)' => Hand(d, p),
         \A d \in Callers : call[d].pc = "wait" /\ d \notin done =>
                              call'[d].pc = "wait" /\ d \notin done',
         \A p \in Cpus : wpc'[p] = "schedule" /\ p \notin awake' =>
                           list_empty(worklist'[p]) /\ p \notin should_stop'
  PROVE  WqInv'
<1>1. TypeOK' BY DEF TypeOK, CpuOK, RestOK, Records
<1>2. NoLostWakeup' BY DEF NoLostWakeup
<1>3. BarrierOnce' /\ BarrierAlive' BY BarrierKept DEF WqInv
<1>4. QED BY <1>1, <1>2, <1>3 DEF WqInv

(* What __queue_work() does. *)
LEMMA QueueWork ==
  ASSUME WqInv, NEW w \in Works, NEW p \in Cpus, __queue_work(w, p),
         UNCHANGED <<current_work, wpc, should_stop>>
  PROVE  /\ CpuOK' /\ HandOK' /\ wq_data' \in [Works -> Cpus \cup {NULL}]
         /\ todo' \in [Callers -> SUBSET Pieces]
         /\ \A d \in Callers, q \in Cpus :
              /\ d \in Entries(worklist'[q]) => d \in Entries(worklist[q])
              /\ Once(worklist[q], d) => Once(worklist'[q], d)
              /\ Hand(d, q)' => Hand(d, q)
         /\ \A q \in Cpus : wpc'[q] = "schedule" /\ q \notin awake' =>
                              list_empty(worklist'[q]) /\ q \notin should_stop'
<1>1. RestOK /\ CpuOK /\ HandOK /\ NoLostWakeup BY TypeParts DEF WqInv
<1>2. w \in Items /\ w \notin Callers BY WorkQueueAssumption DEF Items
<1>3. /\ worklist' = [worklist EXCEPT ![p] = list_add_tail(w, worklist[p])]
      /\ awake' = awake \cup {p} /\ wq_data' = [wq_data EXCEPT ![w] = p] /\ todo' = Moved(w, p)
  BY DEF __queue_work, wake_up
<1>4. worklist[p] \in Seq(Items) BY <1>1 DEF CpuOK
<1>5. /\ list_add_tail(w, worklist[p]) \in Seq(Items)
      /\ Entries(list_add_tail(w, worklist[p])) = Entries(worklist[p]) \cup {w}
  BY <1>2, <1>4, ListAddTail
<1>6. /\ worklist' \in [Cpus -> Seq(Items)] /\ worklist'[p] = list_add_tail(w, worklist[p])
      /\ \A q \in Cpus : q # p => worklist'[q] = worklist[q]
  BY <1>1, <1>3, <1>5 DEF CpuOK
<1>7. CpuOK' BY <1>1, <1>3, <1>6 DEF CpuOK
<1>8. HandOK' BY <1>1 DEF HandOK
<1>9. wq_data' \in [Works -> Cpus \cup {NULL}] BY <1>1, <1>3 DEF RestOK
<1>10. todo' \in [Callers -> SUBSET Pieces] BY <1>1, <1>3 DEF Moved, RestOK
<1>11. ASSUME NEW d \in Callers, NEW q \in Cpus
       PROVE  /\ d \in Entries(worklist'[q]) => d \in Entries(worklist[q])
              /\ Once(worklist[q], d) => Once(worklist'[q], d)
              /\ Hand(d, q)' => Hand(d, q)
  <2>1. Hand(d, q)' => Hand(d, q) BY DEF Hand
  <2>2. CASE q # p BY <1>6, <2>1, <2>2
  <2>3. CASE q = p
    <3>1. d # w BY <1>2
    <3>2. Once(worklist[p], d) => Once(worklist'[p], d) BY <1>2, <1>4, <1>6, <3>1, OnceAddTail
    <3>3. QED BY <1>5, <1>6, <2>1, <2>3, <3>1, <3>2
  <2>4. QED BY <2>2, <2>3
<1>12. ASSUME NEW q \in Cpus, wpc'[q] = "schedule", q \notin awake'
       PROVE  list_empty(worklist'[q]) /\ q \notin should_stop'
  BY <1>1, <1>3, <1>6, <1>12 DEF NoLostWakeup
<1>13. QED BY <1>7, <1>8, <1>9, <1>10, <1>11, <1>12

(* A context that queues a work. *)
LEMMA QueueingIn ==
  ASSUME RestOK, NEW q \in queueing
  PROVE  /\ q \in [work : Works, cpu : Cpus, step : {"insert", "data", "timer", "fn"}]
         /\ q.work \in Works /\ q.cpu \in Cpus
BY DEF RestOK

LEMMA InsertStep ==
  ASSUME WqInv, NEW q \in queueing, Insert(q)
  PROVE  WqInv'
<1>1. TypeOK /\ CallOK /\ RestOK /\ done \subseteq Callers BY TypeParts DEF WqInv
<1>2. q.work \in Works /\ q.cpu \in Cpus BY <1>1, QueueingIn
<1>3. /\ __queue_work(q.work, q.cpu) /\ queueing' = queueing \ {q}
      /\ UNCHANGED <<current_work, wpc, should_stop, pending, timer, callVars, asked>>
  BY DEF Insert
<1>4. call' = call /\ done' = done BY <1>3 DEF callVars
<1>5. CallOK' /\ call' \in [Callers -> Records] BY <1>1, <1>4, TypeParts DEF CallOK
<1>6. PICK w \in Works, p \in Cpus : w = q.work /\ p = q.cpu BY <1>2
<1>7. __queue_work(w, p) BY <1>3, <1>6
<1>8. /\ CpuOK' /\ HandOK' /\ wq_data' \in [Works -> Cpus \cup {NULL}]
      /\ todo' \in [Callers -> SUBSET Pieces]
      /\ \A d \in Callers, n \in Cpus :
           /\ d \in Entries(worklist'[n]) => d \in Entries(worklist[n])
           /\ Once(worklist[n], d) => Once(worklist'[n], d)
           /\ Hand(d, n)' => Hand(d, n)
      /\ \A n \in Cpus : wpc'[n] = "schedule" /\ n \notin awake' =>
                           list_empty(worklist'[n]) /\ n \notin should_stop'
  BY <1>3, <1>7, QueueWork
<1>9. RestOK' BY <1>1, <1>3, <1>8 DEF RestOK
<1>10. QED BY <1>1, <1>4, <1>5, <1>8, <1>9, ListStep

(* The other steps of the queueing side. *)
LEMMA QueueingStep ==
  ASSUME WqInv,
         \/ \E w \in Works, p \in Cpus, step \in {"insert", "data"} : queue_work_on(w, p, step)
         \/ \E q \in queueing : SetWqData(q) \/ add_timer(q)
         \/ \E w \in Delayed, p \in Cpus : delayed_work_timer_fn(w, p)
  PROVE  WqInv'
<1>1. TypeOK /\ CallOK /\ RestOK /\ done \subseteq Callers /\ call \in [Callers -> Records]
  BY TypeParts DEF WqInv
<1>2. UNCHANGED <<cwqVars, workerVars>> /\ call' = call /\ done' = done
  BY DEF queue_work_on, SetWqData, add_timer, delayed_work_timer_fn, callVars
<1>3. RestOK'
  <2>1. CASE \E w \in Works, p \in Cpus, step \in {"insert", "data"} : queue_work_on(w, p, step)
    <3>1. PICK w \in Works, p \in Cpus, step \in {"insert", "data"} : queue_work_on(w, p, step)
      BY <2>1
    <3>2. /\ pending' \in {pending, pending \cup {w}} /\ asked' \in {asked, asked \cup {w}}
          /\ queueing' \in {queueing, queueing \cup {[work |-> w, cpu |-> p, step |-> step]}}
          /\ UNCHANGED <<wq_data, timer, todo>> /\ p \in On[w] /\ (step = "data" => w \in Delayed)
      BY <3>1 DEF queue_work_on, Asked
    <3>3. QED BY <1>1, <3>2 DEF RestOK
  <2>2. CASE \E q \in queueing : SetWqData(q)
    <3>1. PICK q \in queueing : SetWqData(q) BY <2>2
    <3>2. q \in [work : Works, cpu : Cpus, step : {"insert", "data", "timer", "fn"}]
      BY <1>1, QueueingIn
    <3>3. [q EXCEPT !.step = "timer"] \in [work : Works, cpu : Cpus, step : {"insert", "data", "timer", "fn"}]
      BY <3>2
    <3>4. /\ wq_data' = [wq_data EXCEPT ![q.work] = q.cpu]
          /\ queueing' = (queueing \ {q}) \cup {[q EXCEPT !.step = "timer"]}
          /\ UNCHANGED <<pending, timer, asked, todo>>
      BY <3>1 DEF SetWqData
    <3>5. wq_data' \in [Works -> Cpus \cup {NULL}] BY <1>1, <3>2, <3>4 DEF RestOK
    <3>6. \A x \in queueing' : x.cpu \in On[x.work] /\ (x.step # "insert" => x.work \in Delayed)
      <4>1. q.cpu \in On[q.work] /\ q.work \in Delayed BY <1>1, <3>1 DEF RestOK, SetWqData
      <4>2. QED BY <1>1, <3>2, <3>4, <4>1 DEF RestOK
    <3>7. queueing' \subseteq [work : Works, cpu : Cpus, step : {"insert", "data", "timer", "fn"}]
      BY <1>1, <3>3, <3>4 DEF RestOK
    <3>8. QED BY <1>1, <3>4, <3>5, <3>6, <3>7 DEF RestOK
  <2>3. CASE \E q \in queueing : add_timer(q)
    <3>1. PICK q \in queueing : add_timer(q) BY <2>3
    <3>2. q.work \in Delayed BY <1>1, <3>1 DEF RestOK, add_timer
    <3>3. /\ timer' = timer \cup {q.work} /\ queueing' = queueing \ {q}
          /\ UNCHANGED <<pending, wq_data, asked, todo>>
      BY <3>1 DEF add_timer
    <3>4. QED BY <1>1, <3>2, <3>3 DEF RestOK
  <2>4. CASE \E w \in Delayed, p \in Cpus : delayed_work_timer_fn(w, p)
    <3>1. PICK w \in Delayed, p \in Cpus : delayed_work_timer_fn(w, p) BY <2>4
    <3>2. w \in Works BY WorkQueueAssumption
    <3>3. /\ timer' = timer \ {w} /\ UNCHANGED <<pending, wq_data, asked, todo>>
          /\ queueing' = queueing \cup {[work |-> w, cpu |-> p, step |-> "fn"]}
      BY <3>1 DEF delayed_work_timer_fn
    <3>4. p \in On[w] BY <3>1 DEF delayed_work_timer_fn
    <3>5. QED BY <1>1, <3>2, <3>3, <3>4 DEF RestOK
  <2>5. QED BY <2>1, <2>2, <2>3, <2>4
<1>4. CallOK' /\ call' \in [Callers -> Records] BY <1>1, <1>2 DEF CallOK
<1>5. QED BY <1>1, <1>2, <1>3, <1>4, RestStep

LEMMA FlushRequeuesStep ==
  ASSUME WqInv, NEW c \in Callers, FlushRequeues(c)
  PROVE  WqInv'
<1>1. TypeOK /\ CallOK /\ RestOK /\ done \subseteq Callers BY TypeParts DEF WqInv
<1>2. call[c].pc = "requeue" /\ call[c].op \in Flushes /\ call[c].work \in Works /\ GoodCall(call[c])
  BY <1>1, CallerIn DEF FlushRequeues
<1>3. PICK w \in Works : w = call[c].work BY <1>2
<1>4. PICK p \in On[w] : __queue_work(w, p) BY <1>3 DEF FlushRequeues
<1>5. p \in Cpus BY WorkQueueAssumption
<1>6. /\ Goto(c, "fw") /\ done' = done
      /\ UNCHANGED <<current_work, wpc, should_stop, pending, timer, queueing, asked>>
  BY DEF FlushRequeues
<1>7. GoodCall([call[c] EXCEPT !.pc = "fw"]) BY <1>2, GotoGood DEF PcsOf, CallPcs
<1>8. CallStep(c) BY <1>1, <1>6, <1>7, GotoStep
<1>9. /\ CallOK' /\ call' \in [Callers -> Records]
      /\ \A d \in Callers : d # c => call'[d] = call[d]
  BY <1>1, <1>8, CallFrame
<1>10. /\ CpuOK' /\ HandOK' /\ wq_data' \in [Works -> Cpus \cup {NULL}]
       /\ todo' \in [Callers -> SUBSET Pieces]
       /\ \A d \in Callers, n \in Cpus :
            /\ d \in Entries(worklist'[n]) => d \in Entries(worklist[n])
            /\ Once(worklist[n], d) => Once(worklist'[n], d)
            /\ Hand(d, n)' => Hand(d, n)
       /\ \A n \in Cpus : wpc'[n] = "schedule" /\ n \notin awake' =>
                            list_empty(worklist'[n]) /\ n \notin should_stop'
  BY <1>4, <1>5, <1>6, QueueWork
<1>11. RestOK' BY <1>1, <1>6, <1>10 DEF RestOK
<1>12. \A d \in Callers : call[d].pc = "wait" => call'[d].pc = "wait" BY <1>2, <1>9
<1>13. QED BY <1>1, <1>6, <1>9, <1>10, <1>11, <1>12, ListStep

(* The work is stolen from its list. *)
LEMMA GrabMatchesStep ==
  ASSUME WqInv, NEW c \in Callers, GrabMatches(c)
  PROVE  WqInv'
<1>1. TypeOK /\ CallOK /\ RestOK /\ CpuOK /\ HandOK /\ NoLostWakeup /\ done \subseteq Callers
  BY TypeParts DEF WqInv
<1>2. PICK r : r = call[c] OBVIOUS
<1>3. r.pc = "match" /\ r.op \in Cancels /\ GoodCall(r)
  BY <1>1, <1>2, CallerIn DEF GrabMatches
<1>4. PICK w : w = r.work OBVIOUS
<1>5. /\ \/ call' = [call EXCEPT ![c] = [r EXCEPT !.pc = "wq", !.ret = 1]]
         \/ call' = [call EXCEPT ![c] = [r EXCEPT !.pc = "wq", !.ret = -1]]
      /\ \/ worklist' = worklist
         \/ worklist' = [q \in Cpus |-> IF w \in Entries(worklist[q])
                                        THEN list_del(worklist[q], w) ELSE worklist[q]]
      /\ asked' \subseteq asked /\ todo' \in [Callers -> SUBSET Pieces]
      /\ UNCHANGED <<current_work, workerVars, workVars, done>>
  BY <1>1, <1>2, <1>4 DEF GrabMatches, RestOK
<1>6. CallStep(c) BY <1>1, <1>3, <1>5, GiveUpGood, CallStepOf
<1>7. /\ CallOK' /\ call' \in [Callers -> Records]
      /\ \A d \in Callers : d # c => call'[d] = call[d]
  BY <1>1, <1>6, CallFrame
<1>8. ASSUME NEW p \in Cpus
      PROVE  /\ worklist'[p] \in Seq(Items) /\ Entries(worklist'[p]) \subseteq Entries(worklist[p])
             /\ \A d : Once(worklist[p], d) => Once(worklist'[p], d)
             /\ list_empty(worklist[p]) => list_empty(worklist'[p])
  <2>1. worklist[p] \in Seq(Items) BY <1>1 DEF CpuOK
  <2>2. CASE worklist'[p] = worklist[p] BY <2>1, <2>2
  <2>3. CASE w \in Entries(worklist[p]) /\ worklist'[p] = list_del(worklist[p], w)
    <3>1. ~list_empty(worklist[p]) BY <2>1, <2>3, ListEmpty
    <3>2. worklist'[p] \in Seq(Items) BY <2>1, <2>3, ListDelSeq
    <3>3. \A d : Once(worklist[p], d) => Once(worklist'[p], d) BY <2>1, <2>3, OnceDel
    <3>4. Once(worklist[p], NULL)
      <4>1. NULL \notin Items BY WorkQueueAssumption
      <4>2. QED BY <2>1, <4>1 DEF Once
    <3>5. Entries(worklist'[p]) \subseteq Entries(worklist[p]) BY <2>1, <2>3, <3>4, OnceDel
    <3>6. QED BY <3>1, <3>2, <3>3, <3>5
  <2>4. QED BY <1>5, <2>2, <2>3
<1>9. worklist' \in [Cpus -> Seq(Items)]
  <2>1. worklist' = [p \in Cpus |-> worklist'[p]] BY <1>1, <1>5 DEF CpuOK
  <2>2. QED BY <1>8, <2>1
<1>10. CpuOK' BY <1>1, <1>5, <1>9 DEF CpuOK, workerVars
<1>11. HandOK' BY <1>1, <1>5 DEF HandOK, workerVars
<1>12. RestOK' BY <1>1, <1>5 DEF RestOK, workVars
<1>13. \A d \in Callers, p \in Cpus : Hand(d, p)' => Hand(d, p) BY <1>5 DEF Hand, workerVars
<1>14. \A p \in Cpus : wpc'[p] = "schedule" /\ p \notin awake' =>
                         list_empty(worklist'[p]) /\ p \notin should_stop'
  BY <1>1, <1>5, <1>8 DEF NoLostWakeup, workerVars
<1>15. \A d \in Callers : call[d].pc = "wait" => call'[d].pc = "wait" BY <1>2, <1>3, <1>7
<1>16. done' = done BY <1>5
<1>17. QED BY <1>1, <1>7, <1>8, <1>10, <1>11, <1>12, <1>13, <1>14, <1>15, <1>16, ListStep

LEMMA KthreadStopStep ==
  ASSUME WqInv, NEW c \in Callers, kthread_stop(c)
  PROVE  WqInv'
<1>1. TypeOK /\ CallOK /\ RestOK /\ CpuOK /\ HandOK /\ NoLostWakeup /\ done \subseteq Callers
  BY TypeParts DEF WqInv
<1>2. /\ call[c].pc = "stop" /\ call[c].op = "destroy_workqueue" /\ call[c].cpu \in Cpus
      /\ GoodCall(call[c])
  BY <1>1, CallerIn DEF kthread_stop, GoodCall
<1>3. /\ should_stop' = should_stop \cup {call[c].cpu} /\ awake' = awake \cup {call[c].cpu}
      /\ Goto(c, "exited") /\ UNCHANGED <<cwqVars, wpc, workVars, done, asked, todo>>
  BY DEF kthread_stop
<1>4. GoodCall([call[c] EXCEPT !.pc = "exited"]) BY <1>2, GotoGood DEF PcsOf, CallPcs
<1>5. CallStep(c) BY <1>1, <1>3, <1>4, GotoStep
<1>6. /\ CallOK' /\ call' \in [Callers -> Records]
      /\ \A d \in Callers : d # c => call'[d] = call[d]
  BY <1>1, <1>5, CallFrame
<1>7. worklist' = worklist /\ current_work' = current_work /\ wpc' = wpc /\ done' = done
  BY <1>3 DEF cwqVars
<1>8. CpuOK' BY <1>1, <1>2, <1>3, <1>7 DEF CpuOK
<1>9. HandOK' BY <1>1, <1>7 DEF HandOK
<1>10. RestOK' BY <1>1, <1>3 DEF RestOK, workVars
<1>11. \A d \in Callers : call[d].pc = "wait" => call'[d].pc = "wait" BY <1>2, <1>6
<1>12. \A d \in Callers, p \in Cpus : Hand(d, p)' => Hand(d, p) BY <1>7 DEF Hand
<1>13. \A p \in Cpus : wpc'[p] = "schedule" /\ p \notin awake' =>
                         list_empty(worklist'[p]) /\ p \notin should_stop'
  BY <1>1, <1>3, <1>7 DEF NoLostWakeup
<1>14. QED BY <1>1, <1>6, <1>7, <1>8, <1>9, <1>10, <1>11, <1>12, <1>13, ListStep

LEMMA CreateStep ==
  ASSUME WqInv, create_workqueue
  PROVE  WqInv'
<1>1. TypeOK /\ CallOK /\ RestOK /\ CpuOK /\ done \subseteq Callers /\ call \in [Callers -> Records]
  BY TypeParts DEF WqInv
<1>2. /\ wpc' = [p \in Cpus |-> "prepare"] /\ should_stop' = {}
      /\ worklist' = [p \in Cpus |-> << >>] /\ current_work' = [p \in Cpus |-> NULL]
      /\ wq_data' = [w \in Works |-> NULL]
      /\ UNCHANGED <<awake, pending, timer, queueing, callVars, asked, todo>>
  BY DEF create_workqueue
<1>3. call' = call /\ done' = done BY <1>2 DEF callVars
<1>4. \A p \in Cpus : /\ worklist'[p] = << >> /\ wpc'[p] = "prepare"
                      /\ Entries(worklist'[p]) = {} /\ Len(worklist'[p]) = 0
  BY <1>2 DEF Entries
<1>5. CpuOK' BY <1>1, <1>2 DEF CpuOK, WorkerPcs
<1>6. HandOK' BY <1>4 DEF HandOK
<1>7. RestOK' BY <1>1, <1>2 DEF RestOK
<1>8. CallOK' /\ call' \in [Callers -> Records] BY <1>1, <1>3 DEF CallOK
<1>9. \A d \in Callers, p \in Cpus : /\ d \notin Entries(worklist'[p]) /\ ~Hand(d, p)'
                                     /\ Once(worklist'[p], d)
  BY <1>4 DEF Hand, Once
<1>10. QED BY <1>1, <1>3, <1>4, <1>5, <1>6, <1>7, <1>8, <1>9, ListStep

-------------------------------------------------------------------------------
(* The worker's steps that take nothing from the list and call nothing. *)
LEMMA WorkerStep ==
  ASSUME WqInv, NEW p \in Cpus,
         prepare_to_wait(p) \/ WorkerTest(p) \/ finish_wait(p) \/ work_clear_pending(p)
  PROVE  WqInv'
<1>1. /\ TypeOK /\ CallOK /\ RestOK /\ CpuOK /\ HandOK /\ NoLostWakeup /\ done \subseteq Callers
      /\ call \in [Callers -> Records]
  BY TypeParts DEF WqInv
<1>2. /\ UNCHANGED <<cwqVars, should_stop, wq_data, timer, queueing, callVars, asked, todo>>
      /\ pending' \subseteq pending
      /\ \/ wpc[p] = "prepare" /\ wpc' = [wpc EXCEPT ![p] = "test"] /\ awake' = awake \ {p}
         \/ /\ wpc[p] = "test" /\ wpc' = [wpc EXCEPT ![p] = "schedule"] /\ awake' = awake
            /\ p \notin should_stop /\ list_empty(worklist[p])
         \/ wpc[p] = "test" /\ wpc' = [wpc EXCEPT ![p] = "finish"] /\ awake' = awake
         \/ wpc' = [wpc EXCEPT ![p] = "exit"] /\ awake' = awake \cup {p}
         \/ wpc' = [wpc EXCEPT ![p] = "lock"] /\ awake' = awake \cup {p}
         \/ wpc[p] = "clear" /\ wpc' = [wpc EXCEPT ![p] = "run"] /\ awake' = awake
  BY DEF prepare_to_wait, WorkerTest, finish_wait, work_clear_pending, workVars
<1>3. /\ worklist' = worklist /\ current_work' = current_work /\ should_stop' = should_stop
      /\ call' = call /\ done' = done
  BY <1>2 DEF cwqVars, callVars
<1>4. wpc \in [Cpus -> WorkerPcs] /\ awake \subseteq Cpus BY <1>1 DEF CpuOK
<1>5. \A q \in Cpus : q # p => wpc'[q] = wpc[q] /\ (q \in awake' <=> q \in awake) BY <1>2, <1>4
<1>6. /\ wpc'[p] \in {"test", "schedule", "finish", "exit", "lock", "run"}
      /\ wpc'[p] = "run" => wpc[p] = "clear"
      /\ wpc'[p] = "schedule" => p \notin should_stop /\ list_empty(worklist[p])
  BY <1>2, <1>4
<1>7. wpc' \in [Cpus -> WorkerPcs] /\ awake' \subseteq Cpus BY <1>2, <1>4 DEF WorkerPcs
<1>8. CpuOK' BY <1>1, <1>3, <1>7 DEF CpuOK
<1>9. HandOK' BY <1>1, <1>3, <1>5, <1>6 DEF HandOK
<1>10. RestOK' BY <1>1, <1>2 DEF RestOK
<1>11. CallOK' /\ call' \in [Callers -> Records] BY <1>1, <1>3 DEF CallOK
<1>12. \A d \in Callers, q \in Cpus : Hand(d, q)' => Hand(d, q) BY <1>3, <1>5, <1>6 DEF Hand
<1>13. \A q \in Cpus : wpc'[q] = "schedule" /\ q \notin awake' =>
                         list_empty(worklist'[q]) /\ q \notin should_stop'
  BY <1>1, <1>3, <1>5, <1>6 DEF NoLostWakeup
<1>14. QED BY <1>1, <1>3, <1>8, <1>9, <1>10, <1>11, <1>12, <1>13, ListStep

(* f(work); the barrier that is called is in nobody's hands any more. *)
LEMMA CallFuncStep ==
  ASSUME WqInv, NEW p \in Cpus, CallFunc(p)
  PROVE  WqInv'
<1>1. /\ TypeOK /\ CallOK /\ RestOK /\ CpuOK /\ HandOK /\ NoLostWakeup /\ done \subseteq Callers
      /\ call \in [Callers -> Records] /\ BarrierOnce /\ BarrierAlive
  BY TypeParts DEF WqInv
<1>2. /\ UNCHANGED <<cwqVars, awake, should_stop, workVars, call, todo>>
      /\ wpc[p] = "run" /\ wpc' = [wpc EXCEPT ![p] = "running"]
      /\ asked' \subseteq asked
      /\ done' = done \/ (current_work[p] \in Callers /\ done' = done \cup {current_work[p]})
  BY DEF CallFunc
<1>3. /\ worklist' = worklist /\ current_work' = current_work /\ should_stop' = should_stop
      /\ call' = call /\ awake' = awake
  BY <1>2 DEF cwqVars
<1>4. /\ wpc' \in [Cpus -> WorkerPcs] /\ wpc'[p] = "running"
      /\ \A q \in Cpus : q # p => wpc'[q] = wpc[q]
  BY <1>1, <1>2 DEF CpuOK, WorkerPcs
<1>5. CpuOK' BY <1>1, <1>3, <1>4 DEF CpuOK
<1>6. HandOK' BY <1>1, <1>3, <1>4 DEF HandOK
<1>7. RestOK' BY <1>1, <1>2 DEF RestOK, workVars
<1>8. CallOK' /\ call' \in [Callers -> Records] BY <1>1, <1>3 DEF CallOK
<1>9. TypeOK' BY <1>2, <1>1, <1>5, <1>7, <1>8 DEF TypeOK, CpuOK, RestOK, Records
<1>10. NoLostWakeup' BY <1>1, <1>3, <1>4 DEF NoLostWakeup
<1>11. \A d \in Callers, q \in Cpus : Hand(d, q)' => Hand(d, q) /\ q # p
  BY <1>3, <1>4 DEF Hand
<1>12. BarrierOnce' BY <1>1, <1>3, <1>11 DEF BarrierOnce
<1>13. BarrierAlive'
  <2> SUFFICES ASSUME NEW d \in Callers, NEW q \in Cpus, d \in Entries(worklist[q]) \/ Hand(d, q)'
               PROVE  call[d].pc = "wait" /\ d \notin done'
    BY <1>3 DEF BarrierAlive, Hand
  <2>1. call[d].pc = "wait" /\ d \notin done BY <1>1, <1>11 DEF BarrierAlive, Hand
  <2>2. d # current_work[p]
    <3>1. Hand(current_work[p], p) BY <1>2 DEF Hand
    <3>2. QED BY <1>1, <1>11, <3>1 DEF BarrierOnce
  <2>3. QED BY <1>2, <2>1, <2>2
<1>14. QED BY <1>6, <1>7, <1>8, <1>9, <1>10, <1>12, <1>13 DEF WqInv

(* run_workqueue() takes the first entry, or finds the list empty. *)
LEMMA RunStep ==
  ASSUME WqInv, NEW p \in Cpus, run_workqueue(p)
  PROVE  WqInv'
<1>1. /\ TypeOK /\ CallOK /\ RestOK /\ CpuOK /\ HandOK /\ NoLostWakeup /\ done \subseteq Callers
      /\ call \in [Callers -> Records] /\ BarrierOnce /\ BarrierAlive
  BY TypeParts DEF WqInv
<1>2. /\ UNCHANGED <<awake, should_stop, workVars, asked>> /\ call' = call /\ done' = done
      /\ wpc[p] \in {"lock", "running"}
  BY DEF run_workqueue, callVars
<1>3. CallOK' /\ call' \in [Callers -> Records] BY <1>1, <1>2 DEF CallOK
<1>4. worklist[p] \in Seq(Items) BY <1>1 DEF CpuOK
<1>5. todo' \in [Callers -> SUBSET Pieces]
  <2>1. \A t \in SUBSET Pieces : Finished(t, p) \in SUBSET Pieces BY DEF Finished
  <2>2. \A w : \A t \in SUBSET Pieces : Taken(t, w, p) \in SUBSET Pieces
    BY DEF Taken, Pieces
  <2>3. \/ todo' = [c \in Callers |-> Finished(todo[c], p)]
        \/ \E w : todo' = [c \in Callers |-> Taken(Finished(todo[c], p), w, p)]
    BY DEF run_workqueue
  <2>4. QED BY <1>1, <2>1, <2>2, <2>3 DEF RestOK
<1>6. RestOK' BY <1>1, <1>2, <1>5 DEF RestOK, workVars
<1>7. CASE list_empty(worklist[p])
  <2>1. /\ worklist' = worklist /\ current_work' = [current_work EXCEPT ![p] = NULL]
        /\ wpc' = [wpc EXCEPT ![p] = "prepare"]
    BY <1>7 DEF run_workqueue
  <2>2. /\ wpc' \in [Cpus -> WorkerPcs] /\ current_work' \in [Cpus -> Items \cup {NULL}]
        /\ wpc'[p] = "prepare"
        /\ \A q \in Cpus : q # p => wpc'[q] = wpc[q] /\ current_work'[q] = current_work[q]
    BY <1>1, <2>1 DEF CpuOK, WorkerPcs
  <2>3. CpuOK' BY <1>1, <1>2, <2>1, <2>2 DEF CpuOK
  <2>4. HandOK' BY <1>1, <2>2 DEF HandOK
  <2>5. \A d \in Callers, q \in Cpus : Hand(d, q)' => Hand(d, q) BY <2>2 DEF Hand
  <2>6. \A q \in Cpus : wpc'[q] = "schedule" /\ q \notin awake' =>
                          list_empty(worklist'[q]) /\ q \notin should_stop'
    BY <1>1, <1>2, <2>1, <2>2 DEF NoLostWakeup
  <2>7. QED BY <1>1, <1>2, <1>3, <1>6, <2>1, <2>3, <2>4, <2>5, <2>6, ListStep
<1>8. CASE ~list_empty(worklist[p])
  <2>1. PICK w : w = list_first_entry(worklist[p]) OBVIOUS
  <2>2. /\ worklist' = [worklist EXCEPT ![p] = Tail(worklist[p])]
        /\ current_work' = [current_work EXCEPT ![p] = w]
        /\ wpc' = [wpc EXCEPT ![p] = "clear"]
    BY <1>8, <2>1 DEF run_workqueue
  <2>3. w \in Entries(worklist[p]) /\ w \in Items BY <1>4, <1>8, <2>1, ListEmpty
  <2>4. /\ wpc' \in [Cpus -> WorkerPcs] /\ current_work' \in [Cpus -> Items \cup {NULL}]
        /\ wpc'[p] = "clear" /\ current_work'[p] = w
        /\ \A q \in Cpus : q # p => wpc'[q] = wpc[q] /\ current_work'[q] = current_work[q]
    BY <1>1, <2>2, <2>3 DEF CpuOK, WorkerPcs
  <2>5. Once(worklist[p], NULL)
    <3>1. NULL \notin Items BY WorkQueueAssumption
    <3>2. QED BY <1>4, <3>1 DEF Once
  <2>6. /\ Tail(worklist[p]) \in Seq(Items) /\ Entries(Tail(worklist[p])) \subseteq Entries(worklist[p])
        /\ \A d : Once(worklist[p], d) =>
             Once(Tail(worklist[p]), d) /\ (w = d => d \notin Entries(Tail(worklist[p])))
    BY <1>4, <1>8, <2>1, <2>5, OnceTail
  <2>7. /\ worklist' \in [Cpus -> Seq(Items)] /\ worklist'[p] = Tail(worklist[p])
        /\ \A q \in Cpus : q # p => worklist'[q] = worklist[q]
    BY <1>1, <2>2, <2>6 DEF CpuOK
  <2>8. CpuOK' BY <1>1, <1>2, <2>4, <2>7 DEF CpuOK
  <2>9. HandOK' BY <1>1, <2>3, <2>4 DEF HandOK
  <2>10. TypeOK' BY <1>1, <1>2, <1>3, <1>6, <2>8 DEF TypeOK, CpuOK, RestOK, Records
  <2>11. NoLostWakeup' BY <1>1, <1>2, <2>4, <2>7 DEF NoLostWakeup
  <2>12. \A d \in Callers, q \in Cpus :
           /\ d \in Entries(worklist'[q]) => d \in Entries(worklist[q]) /\ ~(d = w /\ q = p)
           /\ Once(worklist'[q], d)
           /\ Hand(d, q)' <=> (Hand(d, q) \/ (d = w /\ q = p))
    <3> SUFFICES ASSUME NEW d \in Callers, NEW q \in Cpus
                 PROVE  /\ d \in Entries(worklist'[q]) => d \in Entries(worklist[q]) /\ ~(d = w /\ q = p)
                        /\ Once(worklist'[q], d)
                        /\ Hand(d, q)' <=> (Hand(d, q) \/ (d = w /\ q = p))
      OBVIOUS
    <3>1. Once(worklist[q], d) BY <1>1 DEF BarrierOnce
    <3>2. CASE q = p BY <1>2, <2>4, <2>6, <2>7, <3>1, <3>2 DEF Hand
    <3>3. CASE q # p BY <2>4, <2>7, <3>1, <3>3 DEF Hand
    <3>4. QED BY <3>2, <3>3
  <2>13. BarrierOnce'
    <3> SUFFICES ASSUME NEW c \in Callers, NEW q \in Cpus
                 PROVE  /\ Once(worklist'[q], c)
                        /\ \A n \in Cpus : c \in Entries(worklist'[q]) /\ c \in Entries(worklist'[n])
                                             => q = n
                        /\ Hand(c, q)' => \A n \in Cpus : /\ c \notin Entries(worklist'[n])
                                                          /\ Hand(c, n)' => q = n
      BY DEF BarrierOnce
    <3>1. Once(worklist'[q], c) BY <2>12
    <3>2. \A n \in Cpus : c \in Entries(worklist'[q]) /\ c \in Entries(worklist'[n]) => q = n
      BY <1>1, <2>12 DEF BarrierOnce
    <3>3. ASSUME Hand(c, q)', NEW n \in Cpus
          PROVE  c \notin Entries(worklist'[n]) /\ (Hand(c, n)' => q = n)
      <4>1. CASE c # w BY <1>1, <2>12, <3>3, <4>1 DEF BarrierOnce
      <4>2. CASE c = w
        <5>1. c \in Entries(worklist[p]) BY <2>3, <4>2
        <5>2. \A m \in Cpus : ~Hand(c, m) BY <1>1, <5>1 DEF BarrierOnce
        <5>3. \A m \in Cpus : c \in Entries(worklist[m]) => m = p BY <1>1, <5>1 DEF BarrierOnce
        <5>4. QED BY <2>12, <3>3, <4>2, <5>2, <5>3
      <4>3. QED BY <4>1, <4>2
    <3>4. QED BY <3>1, <3>2, <3>3
  <2>14. BarrierAlive'
    <3> SUFFICES ASSUME NEW d \in Callers, NEW q \in Cpus, d \in Entries(worklist'[q]) \/ Hand(d, q)'
                 PROVE  call[d].pc = "wait" /\ d \notin done
      BY <1>2 DEF BarrierAlive, Hand
    <3>1. d \in Entries(worklist[q]) \/ Hand(d, q) BY <2>3, <2>12
    <3>2. QED BY <1>1, <3>1 DEF BarrierAlive, Hand
  <2>15. QED BY <1>3, <1>6, <2>9, <2>10, <2>11, <2>13, <2>14 DEF WqInv
<1>9. QED BY <1>7, <1>8

-------------------------------------------------------------------------------
(* A caller links its barrier to a list whose worker is woken, or has      *)
(* something to do anyway.                                                 *)
LEMMA BarrierStep ==
  ASSUME WqInv, NEW c \in Callers, NEW p \in Cpus, NEW q \in Cpus,
         NEW i \in 1 .. Len(worklist[q]) + 1, insert_wq_barrier(c, p, q, i),
         p = q \/ ~list_empty(worklist[q]),
         call[c].pc # "wait", GoodCall([call[c] EXCEPT !.pc = "wait"]),
         UNCHANGED <<current_work, wpc, should_stop, workVars, asked, todo>>
  PROVE  WqInv'
<1>1. /\ TypeOK /\ CallOK /\ RestOK /\ CpuOK /\ HandOK /\ NoLostWakeup /\ done \subseteq Callers
      /\ call \in [Callers -> Records] /\ BarrierOnce /\ BarrierAlive
  BY TypeParts DEF WqInv
<1>2. /\ worklist' = [worklist EXCEPT ![q] = list_insert(worklist[q], i, c)]
      /\ done' = done \ {c} /\ awake' = awake \cup {p} /\ Goto(c, "wait")
  BY DEF insert_wq_barrier, list_insert, wake_up
<1>3. CallStep(c) /\ call'[c] = [call[c] EXCEPT !.pc = "wait"] BY <1>1, <1>2, GotoStep
<1>4. /\ CallOK' /\ call' \in [Callers -> Records]
      /\ \A d \in Callers : d # c => call'[d] = call[d]
  BY <1>1, <1>3, CallFrame
<1>5. call'[c].pc = "wait"
  <2>1. call[c] \in Records BY <1>1
  <2>2. QED BY <1>3, <2>1 DEF Records
<1>6. c \in Items /\ worklist[q] \in Seq(Items) BY <1>1 DEF Items, CpuOK
<1>7. /\ list_insert(worklist[q], i, c) \in Seq(Items)
      /\ Entries(list_insert(worklist[q], i, c)) = Entries(worklist[q]) \cup {c}
      /\ \A x : x # c /\ Once(worklist[q], x) => Once(list_insert(worklist[q], i, c), x)
      /\ c \notin Entries(worklist[q]) => Once(list_insert(worklist[q], i, c), c)
  BY <1>6, ListInsert, InsertEntries
<1>8. /\ worklist' \in [Cpus -> Seq(Items)] /\ worklist'[q] = list_insert(worklist[q], i, c)
      /\ \A n \in Cpus : n # q => worklist'[n] = worklist[n]
  BY <1>1, <1>2, <1>7 DEF CpuOK
<1>9. CpuOK' BY <1>1, <1>2, <1>8 DEF CpuOK
<1>10. HandOK' BY <1>1 DEF HandOK
<1>11. RestOK' BY <1>1 DEF RestOK, workVars
<1>12. TypeOK' BY <1>1, <1>2, <1>4, <1>9, <1>11 DEF TypeOK, CpuOK, RestOK, Records
<1>13. NoLostWakeup' BY <1>1, <1>2, <1>8 DEF NoLostWakeup
<1>14. \A n \in Cpus : c \notin Entries(worklist[n]) /\ ~Hand(c, n)
  BY <1>1 DEF BarrierAlive, Hand
<1>15. \A d \in Callers, n \in Cpus :
         /\ d # c /\ d \in Entries(worklist'[n]) => d \in Entries(worklist[n])
         /\ c \in Entries(worklist'[n]) => n = q
         /\ Once(worklist'[n], d)
         /\ Hand(d, n)' <=> Hand(d, n)
  <2> SUFFICES ASSUME NEW d \in Callers, NEW n \in Cpus
               PROVE  /\ d # c /\ d \in Entries(worklist'[n]) => d \in Entries(worklist[n])
                      /\ c \in Entries(worklist'[n]) => n = q
                      /\ Once(worklist'[n], d)
                      /\ Hand(d, n)' <=> Hand(d, n)
    OBVIOUS
  <2>1. Hand(d, n)' <=> Hand(d, n) BY DEF Hand
  <2>2. Once(worklist[n], d) BY <1>1 DEF BarrierOnce
  <2>3. CASE n = q BY <1>7, <1>8, <1>14, <2>1, <2>2, <2>3
  <2>4. CASE n # q BY <1>8, <1>14, <2>1, <2>2, <2>4
  <2>5. QED BY <2>3, <2>4
<1>16. BarrierOnce'
  <2> SUFFICES ASSUME NEW d \in Callers, NEW n \in Cpus
               PROVE  /\ Once(worklist'[n], d)
                      /\ \A m \in Cpus : d \in Entries(worklist'[n]) /\ d \in Entries(worklist'[m])
                                           => n = m
                      /\ Hand(d, n)' => \A m \in Cpus : /\ d \notin Entries(worklist'[m])
                                                        /\ Hand(d, m)' => n = m
    BY DEF BarrierOnce
  <2>1. CASE d = c BY <1>14, <1>15, <2>1
  <2>2. CASE d # c BY <1>1, <1>15, <2>2 DEF BarrierOnce
  <2>3. QED BY <2>1, <2>2
<1>17. BarrierAlive'
  <2> SUFFICES ASSUME NEW d \in Callers, NEW n \in Cpus, d \in Entries(worklist'[n]) \/ Hand(d, n)'
               PROVE  call'[d].pc = "wait" /\ d \notin done'
    BY DEF BarrierAlive, Hand
  <2>1. CASE d = c BY <1>2, <1>5, <2>1
  <2>2. CASE d # c
    <3>1. d \in Entries(worklist[n]) \/ Hand(d, n) BY <1>15, <2>2
    <3>2. call[d].pc = "wait" /\ d \notin done BY <1>1, <3>1 DEF BarrierAlive, Hand
    <3>3. QED BY <1>2, <1>4, <2>2, <3>2
  <2>3. QED BY <2>1, <2>2
<1>18. QED BY <1>4, <1>10, <1>11, <1>12, <1>13, <1>16, <1>17 DEF WqInv

LEMMA FlushCpuStep ==
  ASSUME WqInv, NEW c \in Callers, flush_cpu_workqueue(c)
  PROVE  WqInv'
<1>1. /\ TypeOK /\ CallOK /\ RestOK /\ CpuOK BY TypeParts DEF WqInv
<1>2. PICK r : r = call[c] OBVIOUS
<1>3. /\ r.pc = "lock" /\ r.op \in CpuLoops /\ GoodCall(r) /\ r \in Records /\ r.cpu \in Cpus
      /\ UNCHANGED <<current_work, wpc, should_stop, workVars, asked, todo>>
  BY <1>1, <1>2, CallerIn DEF flush_cpu_workqueue, GoodCall
<1>4. PICK p \in Cpus : p = r.cpu BY <1>3
<1>5. CASE call' = [call EXCEPT ![c] = CpuFlushed(r)] /\ UNCHANGED <<worklist, awake, done>>
  <2>1. GoodCall(CpuFlushed(r))
    <3>1. CASE r.op = "destroy_workqueue"
      <4>1. GoodCall([r EXCEPT !.pc = "stop"]) BY <1>3, <3>1, GotoGood DEF PcsOf, CallPcs
      <4>2. QED BY <3>1, <4>1 DEF CpuFlushed
    <3>2. CASE r.op # "destroy_workqueue" BY <1>3, <3>2, NextCpuGood DEF CpuFlushed
    <3>3. QED BY <3>1, <3>2
  <2>2. CallStep(c) BY <1>1, <1>5, <2>1, CallStepOf
  <2>3. QED BY <1>1, <1>2, <1>3, <1>5, <2>2, CallOnly DEF RestOK, cwqVars, workerVars, workVars
<1>6. CASE insert_wq_barrier(c, p, p, Len(worklist[p]) + 1)
  <2>1. worklist[p] \in Seq(Items) BY <1>1 DEF CpuOK
  <2>2. Len(worklist[p]) + 1 \in 1 .. Len(worklist[p]) + 1 BY <2>1
  <2>3. GoodCall([r EXCEPT !.pc = "wait"]) BY <1>3, GotoGood DEF PcsOf, CallPcs
  <2>4. QED BY <1>2, <1>3, <1>6, <2>2, <2>3, BarrierStep
<1>7. QED BY <1>2, <1>4, <1>5, <1>6 DEF flush_cpu_workqueue

LEMMA WaitOnCpuStep ==
  ASSUME WqInv, NEW c \in Callers, wait_on_cpu_work(c)
  PROVE  WqInv'
<1>1. /\ TypeOK /\ CallOK /\ RestOK /\ CpuOK BY TypeParts DEF WqInv
<1>2. PICK r : r = call[c] OBVIOUS
<1>3. /\ r.pc = "lock" /\ r.op \in Cancels /\ GoodCall(r) /\ r \in Records /\ r.cpu \in Cpus
      /\ r.work \in Works
      /\ UNCHANGED <<current_work, wpc, should_stop, workVars, asked, todo>>
  BY <1>1, <1>2, CallerIn DEF wait_on_cpu_work, GoodCall
<1>4. PICK p \in Cpus : p = r.cpu BY <1>3
<1>5. CASE call' = [call EXCEPT ![c] = NextCpu(r)] /\ UNCHANGED <<worklist, awake, done>>
  <2>1. CallStep(c) BY <1>1, <1>3, <1>5, NextCpuGood, CallStepOf DEF GoodCall
  <2>2. QED BY <1>1, <1>2, <1>3, <1>5, <2>1, CallOnly DEF RestOK, cwqVars, workerVars, workVars
<1>6. CASE insert_wq_barrier(c, p, p, 1)
  <2>1. worklist[p] \in Seq(Items) BY <1>1 DEF CpuOK
  <2>2. 1 \in 1 .. Len(worklist[p]) + 1 BY <2>1
  <2>3. GoodCall([r EXCEPT !.pc = "wait"]) BY <1>3, GotoGood DEF PcsOf, CallPcs
  <2>4. QED BY <1>2, <1>3, <1>6, <2>2, <2>3, BarrierStep
<1>7. QED BY <1>2, <1>4, <1>5, <1>6 DEF wait_on_cpu_work

LEMMA FlushLooksStep ==
  ASSUME WqInv, NEW c \in Callers, FlushLooks(c)
  PROVE  WqInv'
<1>1. /\ TypeOK /\ CallOK /\ RestOK /\ CpuOK BY TypeParts DEF WqInv
<1>2. PICK r : r = call[c] OBVIOUS
<1>3. /\ r.pc = "fw_lock" /\ r.op \in Flushes /\ GoodCall(r) /\ r.cwq \in Cpus
      /\ UNCHANGED <<current_work, wpc, should_stop, workVars, asked, todo>>
  BY <1>1, <1>2, CallerIn DEF FlushLooks, GoodCall
<1>4. PICK p \in Cpus : p = r.cwq BY <1>3
<1>5. CASE (Goto(c, "fw_match") \/ Goto(c, "return")) /\ UNCHANGED <<worklist, awake, done>>
  <2>1. GoodCall([r EXCEPT !.pc = "fw_match"]) /\ GoodCall([r EXCEPT !.pc = "return"])
    BY <1>3, GotoGood DEF PcsOf, CallPcs
  <2>2. CallStep(c) BY <1>1, <1>2, <1>5, <2>1, GotoStep
  <2>3. QED BY <1>1, <1>2, <1>3, <1>5, <2>2, CallOnly DEF RestOK, cwqVars, workerVars, workVars
<1>6. CASE insert_wq_barrier(c, p, p, 1)
  <2>1. worklist[p] \in Seq(Items) BY <1>1 DEF CpuOK
  <2>2. 1 \in 1 .. Len(worklist[p]) + 1 BY <2>1
  <2>3. GoodCall([r EXCEPT !.pc = "wait"]) BY <1>3, GotoGood DEF PcsOf, CallPcs
  <2>4. QED BY <1>2, <1>3, <1>6, <2>2, <2>3, BarrierStep
<1>7. QED BY <1>2, <1>4, <1>5, <1>6 DEF FlushLooks

LEMMA FlushMatchesStep ==
  ASSUME WqInv, NEW c \in Callers, FlushMatches(c)
  PROVE  WqInv'
<1>1. /\ TypeOK /\ CallOK /\ RestOK /\ CpuOK /\ HandOK /\ NoLostWakeup BY TypeParts DEF WqInv
<1>2. PICK r : r = call[c] OBVIOUS
<1>3. /\ r.pc = "fw_match" /\ r.op \in Flushes /\ GoodCall(r) /\ r.cwq \in Cpus
      /\ UNCHANGED <<current_work, wpc, should_stop, workVars, asked, todo>>
  BY <1>1, <1>2, CallerIn DEF FlushMatches, GoodCall
<1>4. PICK p \in Cpus : p = r.cwq BY <1>3
<1>5. GoodCall([r EXCEPT !.pc = "wait"]) /\ GoodCall([r EXCEPT !.pc = "return"])
  BY <1>3, GotoGood DEF PcsOf, CallPcs
<1>6. CASE Goto(c, "return") /\ UNCHANGED <<worklist, awake, done>>
  <2>1. CallStep(c) BY <1>1, <1>2, <1>5, <1>6, GotoStep
  <2>2. QED BY <1>1, <1>2, <1>3, <1>6, <2>1, CallOnly DEF RestOK, cwqVars, workerVars, workVars
<1>7. CASE \E q \in Cpus : /\ r.work \in Entries(worklist[q])
                           /\ insert_wq_barrier(c, p, q, Position(worklist[q], r.work) + 1)
  <2>1. PICK q \in Cpus : /\ r.work \in Entries(worklist[q])
                          /\ insert_wq_barrier(c, p, q, Position(worklist[q], r.work) + 1)
    BY <1>7
  <2>2. worklist[q] \in Seq(Items) BY <1>1 DEF CpuOK
  <2>3. ~list_empty(worklist[q]) BY <2>1, <2>2, ListEmpty
  <2>4. Position(worklist[q], r.work) \in 1 .. Len(worklist[q])
    BY <2>1 DEF Entries, Position
  <2>5. Position(worklist[q], r.work) + 1 \in 1 .. Len(worklist[q]) + 1 BY <2>2, <2>4
  <2>6. QED BY <1>2, <1>3, <1>5, <2>1, <2>3, <2>5, BarrierStep
<1>8. CASE Goto(c, "wait") /\ done' = done \ {c} /\ wake_up(p) /\ UNCHANGED worklist
  <2>1. CallStep(c) BY <1>1, <1>2, <1>5, <1>8, GotoStep
  <2>2. /\ CallOK' /\ call' \in [Callers -> Records]
        /\ \A d \in Callers : d # c => call'[d] = call[d]
    BY <1>1, <2>1, CallFrame
  <2>3. CpuOK' BY <1>1, <1>3, <1>8 DEF CpuOK, wake_up
  <2>4. HandOK' BY <1>1, <1>3 DEF HandOK
  <2>5. RestOK' BY <1>1, <1>3 DEF RestOK, workVars
  <2>6. \A d \in Callers : call[d].pc = "wait" /\ d \notin done =>
                             call'[d].pc = "wait" /\ d \notin done'
    BY <1>2, <1>3, <1>8, <2>2
  <2>7. done' \subseteq Callers BY <1>1, <1>8, TypeParts
  <2>8. \A d \in Callers, n \in Cpus : Hand(d, n)' => Hand(d, n) BY <1>3 DEF Hand
  <2>9. \A n \in Cpus : wpc'[n] = "schedule" /\ n \notin awake' =>
                          list_empty(worklist'[n]) /\ n \notin should_stop'
    BY <1>1, <1>3, <1>8 DEF NoLostWakeup, wake_up
  <2>10. QED BY <1>8, <2>2, <2>3, <2>4, <2>5, <2>6, <2>7, <2>8, <2>9, ListStep
<1>9. QED BY <1>2, <1>4, <1>6, <1>7, <1>8 DEF FlushMatches

-------------------------------------------------------------------------------
LEMMA WqInit ==
  ASSUME Init
  PROVE  WqInv
<1>1. \A p \in Cpus : worklist[p] = << >> /\ Entries(worklist[p]) = {} /\ Len(worklist[p]) = 0
                      /\ wpc[p] = "prepare"
  BY DEF Init, Entries
<1>2. CpuOK BY DEF Init, CpuOK, WorkerPcs
<1>3. RestOK BY DEF Init, RestOK
<1>4. CallOK /\ call \in [Callers -> Records] /\ done \subseteq Callers
  BY IdleGood DEF Init, CallOK
<1>5. TypeOK BY <1>2, <1>3, <1>4 DEF TypeOK, CpuOK, RestOK, Records
<1>6. HandOK /\ NoLostWakeup BY <1>1 DEF HandOK, NoLostWakeup
<1>7. \A c : \A p \in Cpus : /\ Once(worklist[p], c) /\ c \notin Entries(worklist[p])
                          /\ wpc[p] \notin {"clear", "run"}
  BY <1>1 DEF Once
<1>8. BarrierOnce BY <1>7 DEF BarrierOnce, Hand
<1>9. BarrierAlive BY <1>7 DEF BarrierAlive
<1>10. QED BY <1>3, <1>4, <1>5, <1>6, <1>8, <1>9 DEF WqInv

LEMMA WqStep ==
  ASSUME WqInv, [Next]_vars
  PROVE  WqInv'
<1>1. CASE UNCHANGED vars
  <2>1. /\ worklist' = worklist /\ current_work' = current_work /\ wpc' = wpc /\ awake' = awake
        /\ should_stop' = should_stop /\ pending' = pending /\ wq_data' = wq_data
        /\ timer' = timer /\ queueing' = queueing /\ call' = call /\ done' = done
        /\ asked' = asked /\ todo' = todo
    BY <1>1 DEF vars
  <2>2. RestOK /\ CallOK /\ done \subseteq Callers /\ call \in [Callers -> Records]
    BY TypeParts DEF WqInv
  <2>3. RestOK' BY <2>1, <2>2 DEF RestOK
  <2>4. CallOK' BY <2>1, <2>2 DEF CallOK
  <2>5. QED BY <2>1, <2>2, <2>3, <2>4, RestStep DEF cwqVars, workerVars
<1>2. CASE \/ \E w \in Works, p \in Cpus, step \in {"insert", "data"} : queue_work_on(w, p, step)
           \/ \E q \in queueing : SetWqData(q) \/ add_timer(q)
           \/ \E w \in Delayed, p \in Cpus : delayed_work_timer_fn(w, p)
  BY <1>2, QueueingStep
<1>3. CASE \E q \in queueing : Insert(q) BY <1>3, InsertStep
<1>4. CASE \E p \in Cpus : Worker(p)
  BY <1>4, WorkerStep, RunStep, CallFuncStep DEF Worker
<1>5. ASSUME NEW c \in Callers, Caller(c) PROVE WqInv'
  BY <1>5, FlushCpuStep, WaitForCompletionStep, KthreadStopStep, ThreadExitedStep, ReturnStep,
     FlushReadsStep, FlushLooksStep, FlushMatchesStep, FlushRequeuesStep, DelTimerStep,
     GrabBitStep, GrabReadsStep, GrabLooksStep, GrabMatchesStep, WaitOnWorkStep,
     WaitOnCpuStep, CancelClearsStep
     DEF Caller
<1>6. CASE \E c \in Callers, op \in CpuLoops : BeginCpuLoop(c, op) BY <1>6, BeginCpuLoopStep
<1>7. CASE \E c \in Callers, op \in AllOps, w \in Works : Begin(c, op, w) BY <1>7, BeginStep
<1>8. CASE create_workqueue BY <1>8, CreateStep
<1>9. QED BY <1>1, <1>2, <1>3, <1>4, <1>5, <1>6, <1>7, <1>8 DEF Next

(* The invariant holds in every state, for works of any kind queued on any *)
(* CPUs; the next two theorems follow from it.                             *)
THEOREM WorkQueueInvariant == Spec => []WqInv
<1>1. Init => WqInv BY WqInit
<1>2. WqInv /\ [Next]_vars => WqInv' BY WqStep
<1>3. QED BY <1>1, <1>2, PTL DEF Spec

(* No list and no worker has a barrier whose caller has left the stack     *)
(* frame that it lives in (workqueue.c:376, 366-370).                      *)
THEOREM WorkQueueBarrierAlive == Spec => []BarrierAlive
<1>1. WqInv => BarrierAlive BY DEF WqInv
<1>2. QED BY <1>1, WorkQueueInvariant, PTL

(* A worker that looks at its list without the lock never sleeps on work   *)
(* or on the order to stop (workqueue.c:330-334).                          *)
THEOREM WorkQueueNoLostWakeup == Spec => []NoLostWakeup
<1>1. WqInv => NoLostWakeup BY DEF WqInv
<1>2. QED BY <1>1, WorkQueueInvariant, PTL

-------------------------------------------------------------------------------
(* destroy_workqueue(): caller c has drained the CPUs before its cpu, and  *)
(* what it waits for is the last thing on the list.                        *)
Destroying(c) == call[c].op = "destroy_workqueue"

Drains(c) ==
  /\ \A p \in should_stop :
       p < call[c].cpu \/ (p = call[c].cpu /\ call[c].pc \in {"exited", "return"})
  /\ call[c].pc \in {"stop", "exited"} => list_empty(worklist[call[c].cpu])
  /\ call[c].pc = "wait" =>
       /\ c \in done => list_empty(worklist[call[c].cpu])
       /\ \A q \in Cpus :
            /\ Hand(c, q) => q = call[c].cpu /\ list_empty(worklist[q])
            /\ c \in Entries(worklist[q]) =>
                 q = call[c].cpu /\ worklist[q][Len(worklist[q])] = c

(* Nobody but the one destroyer uses a work queue that is being destroyed. *)
Quiet ==
  /\ queueing = {} /\ timer = {}
  /\ \A c \in Callers : call[c].op \in {"none", "destroy_workqueue"}
  /\ \A c, d \in Callers : Destroying(c) /\ Destroying(d) => c = d

(* The workers that are told to stop. *)
Stopped ==
  /\ \A p \in Cpus : wpc[p] = "exit" => p \in should_stop
  /\ \A p \in should_stop :
       /\ list_empty(worklist[p])
       /\ \/ wpc[p] = "exit"
          \/ \E c \in Callers : Destroying(c) /\ call[c].pc = "exited" /\ call[c].cpu = p

DestroyInv ==
  /\ ~Usable => Quiet
  /\ Stopped
  /\ \A c \in Callers : Destroying(c) => Drains(c)

LEMMA UsableFacts ==
  Usable <=> /\ \A p \in Cpus : wpc[p] # "exit"
             /\ \A c \in Callers : ~Destroying(c)
BY CpusFacts DEF Usable, Destroying

(* Nobody is told to stop while the work queue is in use. *)
LEMMA UsableRuns ==
  ASSUME Stopped, Usable, CpuOK
  PROVE  should_stop = {}
BY UsableFacts DEF Stopped, CpuOK

LEMMA UsableDestroy ==
  ASSUME Usable, should_stop = {}
  PROVE  DestroyInv
BY UsableFacts DEF DestroyInv, Stopped

(* The last entry of a list stays the last when the first is taken. *)
LEMMA LastOfTail ==
  ASSUME NEW S, NEW l \in Seq(S), ~list_empty(l), NEW x, Once(l, x), l[Len(l)] = x
  PROVE  /\ list_first_entry(l) = x => list_empty(Tail(l))
         /\ x \in Entries(Tail(l)) => Tail(l)[Len(Tail(l))] = x
<1> DEFINE d == Tail(l)
<1>1. /\ d \in Seq(S) /\ Len(l) \in Nat /\ Len(l) > 0 /\ Len(d) = Len(l) - 1
      /\ \A j \in 1 .. (Len(l) - 1) : d[j] = l[j + 1]
      /\ list_first_entry(l) = l[1]
  BY DEF list_empty, list_first_entry
<1>2. ASSUME list_first_entry(l) = x PROVE list_empty(d)
  <2>1. 1 \in 1 .. Len(l) /\ Len(l) \in 1 .. Len(l) /\ l[1] = x BY <1>1, <1>2
  <2>2. Len(l) = 1 BY <2>1 DEF Once
  <2>3. QED BY <1>1, <2>2 DEF list_empty
<1>3. ASSUME x \in Entries(d) PROVE d[Len(d)] = x
  <2>1. Len(d) > 0 BY <1>1, <1>3 DEF Entries
  <2>2. QED BY <1>1, <2>1
<1>4. QED BY <1>2, <1>3

(* A worker goes on with a work queue that is being destroyed. *)
LEMMA WorkerDestroyStep ==
  ASSUME WqInv, DestroyInv, ~Usable, NEW p \in Cpus, Worker(p)
  PROVE  DestroyInv'
<1>1. CpuOK /\ CallOK /\ HandOK /\ BarrierOnce BY TypeParts DEF WqInv
<1>2. Quiet /\ Stopped /\ \A c \in Callers : Destroying(c) => Drains(c) BY DEF DestroyInv
<1>3. /\ queueing' = queueing /\ timer' = timer /\ call' = call /\ should_stop' = should_stop
      /\ wpc[p] # "exit"
      /\ \A n \in Cpus : n # p => wpc'[n] = wpc[n] /\ worklist'[n] = worklist[n]
                                    /\ current_work'[n] = current_work[n]
      /\ wpc'[p] = "exit" => p \in should_stop
  BY <1>1 DEF Worker, prepare_to_wait, WorkerTest, finish_wait, run_workqueue, work_clear_pending,
              CallFunc, cwqVars, workerVars, workVars, callVars, CpuOK
<1>4. \/ /\ worklist' = worklist /\ \A c : Hand(c, p)' => Hand(c, p)
         /\ \A c \in Callers : c \in done' => c \in done \/ Hand(c, p)
      \/ /\ list_empty(worklist[p]) /\ worklist' = worklist /\ wpc'[p] = "prepare" /\ done' = done
      \/ /\ ~list_empty(worklist[p]) /\ worklist'[p] = Tail(worklist[p]) /\ done' = done
         /\ current_work'[p] = list_first_entry(worklist[p])
  <2>1. CASE prepare_to_wait(p) \/ WorkerTest(p) \/ finish_wait(p) \/ work_clear_pending(p)
    BY <1>1, <2>1 DEF prepare_to_wait, WorkerTest, finish_wait, work_clear_pending, Hand, CpuOK,
                      cwqVars, callVars
  <2>2. CASE CallFunc(p)
    BY <1>1, <2>2 DEF CallFunc, Hand, CpuOK, cwqVars
  <2>3. CASE run_workqueue(p)
    BY <1>1, <2>3 DEF run_workqueue, CpuOK, callVars
  <2>4. QED BY <2>1, <2>2, <2>3 DEF Worker
<1>5. \A n \in Cpus : list_empty(worklist[n]) => list_empty(worklist'[n])
  BY <1>3, <1>4
<1>6. ~Usable' BY <1>3, CpusFacts DEF Usable
<1>7. Quiet' BY <1>2, <1>3 DEF Quiet, Destroying
<1>8. Stopped' BY <1>1, <1>2, <1>3, <1>5 DEF Stopped, Destroying, CpuOK
<1>9. ASSUME NEW c \in Callers, Destroying(c)' PROVE Drains(c)'
  <2>1. PICK r : r = call[c] OBVIOUS
  <2>2. Drains(c) /\ r = call'[c] BY <1>2, <1>3, <1>9, <2>1 DEF Destroying
  <2>3. r.pc \in {"stop", "exited", "wait"} => r.cpu \in Cpus
    BY <1>1, <1>3, <1>9, <2>1, <2>2 DEF CallOK, GoodCall, Destroying
  <2>4. \A q \in should_stop' : q < r.cpu \/ (q = r.cpu /\ r.pc \in {"exited", "return"})
    BY <1>3, <2>1, <2>2 DEF Drains
  <2>5. r.pc \in {"stop", "exited"} => list_empty(worklist'[r.cpu])
    BY <1>5, <2>1, <2>2, <2>3 DEF Drains
  <2>6. ASSUME r.pc = "wait"
        PROVE  /\ c \in done' => list_empty(worklist'[r.cpu])
               /\ \A q \in Cpus :
                    /\ Hand(c, q)' => q = r.cpu /\ list_empty(worklist'[q])
                    /\ c \in Entries(worklist'[q]) =>
                         q = r.cpu /\ worklist'[q][Len(worklist'[q])] = c
    <3>1. /\ c \in done => list_empty(worklist[r.cpu])
          /\ \A q \in Cpus :
               /\ Hand(c, q) => q = r.cpu /\ list_empty(worklist[q])
               /\ c \in Entries(worklist[q]) =>
                    q = r.cpu /\ worklist[q][Len(worklist[q])] = c
      BY <2>1, <2>2, <2>6 DEF Drains
    <3>2. c \in done' => list_empty(worklist'[r.cpu])
      BY <1>4, <1>5, <2>3, <2>6, <3>1
    <3>3. ASSUME NEW q \in Cpus, q # p
          PROVE  /\ Hand(c, q)' => q = r.cpu /\ list_empty(worklist'[q])
                 /\ c \in Entries(worklist'[q]) =>
                      q = r.cpu /\ worklist'[q][Len(worklist'[q])] = c
      BY <1>3, <3>1, <3>3 DEF Hand
    <3>4. /\ Hand(c, p)' => p = r.cpu /\ list_empty(worklist'[p])
          /\ c \in Entries(worklist'[p]) => p = r.cpu /\ worklist'[p][Len(worklist'[p])] = c
      <4>1. CASE worklist' = worklist /\ (Hand(c, p)' => Hand(c, p))
        BY <3>1, <4>1
      <4>2. CASE worklist' = worklist /\ wpc'[p] = "prepare"
        BY <3>1, <4>2 DEF Hand
      <4>3. CASE /\ ~list_empty(worklist[p]) /\ worklist'[p] = Tail(worklist[p])
                 /\ current_work'[p] = list_first_entry(worklist[p])
        <5>1. worklist[p] \in Seq(Items) /\ Once(worklist[p], c)
          BY <1>1 DEF CpuOK, BarrierOnce
        <5>2. CASE c \in Entries(worklist[p])
          BY <3>1, <4>3, <5>1, <5>2, LastOfTail DEF Hand
        <5>3. CASE c \notin Entries(worklist[p])
          <6>1. list_first_entry(worklist[p]) # c BY <4>3, <5>1, <5>3, ListEmpty
          <6>2. Entries(Tail(worklist[p])) \subseteq Entries(worklist[p])
            BY <4>3, <5>1, OnceTail
          <6>3. QED BY <4>3, <5>3, <6>1, <6>2 DEF Hand
        <5>4. QED BY <5>2, <5>3
      <4>4. QED BY <1>4, <4>1, <4>2, <4>3
    <3>5. QED BY <3>2, <3>3, <3>4
  <2>7. QED BY <2>2, <2>4, <2>5, <2>6 DEF Drains
<1>10. QED BY <1>6, <1>7, <1>8, <1>9 DEF DestroyInv

(* The destroyer moves on. *)
LEMMA DestroyerStep ==
  ASSUME WqInv, DestroyInv, NEW c \in Callers, Destroying(c), CallStep(c), Destroying(c)',
         queueing' = queueing, timer' = timer, wpc' = wpc, Stopped', Drains(c)'
  PROVE  DestroyInv'
<1>1. CallOK /\ TypeOK BY DEF WqInv
<1>2. ~Usable BY UsableFacts
<1>3. Quiet BY <1>2 DEF DestroyInv
<1>4. \A d \in Callers : d # c => call'[d] = call[d] BY <1>1, CallFrame
<1>5. \A d \in Callers : Destroying(d)' <=> d = c BY <1>3, <1>4 DEF Quiet, Destroying
<1>6. Quiet'
  <2>1. \A d \in Callers : call'[d].op \in {"none", "destroy_workqueue"}
    BY <1>3, <1>4 DEF Quiet, Destroying
  <2>2. QED BY <1>3, <1>5, <2>1 DEF Quiet
<1>7. QED BY <1>5, <1>6 DEF DestroyInv

(* What a step of the destroyer leaves of Stopped: the worker it waits for *)
(* is the one at its own CPU.                                              *)
LEMMA StoppedStep ==
  ASSUME WqInv, DestroyInv, NEW c \in Callers, Destroying(c), CallStep(c), wpc' = wpc,
         should_stop' = should_stop,
         call[c].pc = "exited" => wpc[call[c].cpu] = "exit",
         \A p \in should_stop : list_empty(worklist[p]) => list_empty(worklist'[p])
  PROVE  Stopped'
<1>1. CallOK /\ TypeOK /\ CpuOK BY TypeParts DEF WqInv
<1>2. ~Usable BY UsableFacts
<1>3. Quiet /\ Stopped BY <1>2 DEF DestroyInv
<1>4. \A p \in should_stop : wpc[p] = "exit" BY <1>3 DEF Stopped, Quiet
<1>5. QED BY <1>1, <1>3, <1>4 DEF Stopped, CpuOK

LEMMA FlushCpuDestroyStep ==
  ASSUME WqInv, DestroyInv, NEW c \in Callers, Destroying(c), flush_cpu_workqueue(c)
  PROVE  DestroyInv'
<1>1. TypeOK /\ CallOK /\ CpuOK /\ BarrierAlive BY TypeParts DEF WqInv
<1>2. PICK r : r = call[c] OBVIOUS
<1>3. PICK p : p = r.cpu OBVIOUS
<1>4. /\ r.op = "destroy_workqueue" /\ r.pc = "lock" /\ GoodCall(r) /\ r \in Records /\ p \in Cpus
      /\ queueing' = queueing /\ timer' = timer /\ wpc' = wpc /\ should_stop' = should_stop
      /\ current_work' = current_work
  BY <1>1, <1>2, <1>3, CallerIn DEF flush_cpu_workqueue, GoodCall, workVars, Destroying
<1>5. Drains(c) BY DEF DestroyInv
<1>6. p \notin should_stop /\ \A q \in should_stop : q < r.cpu
  BY <1>2, <1>3, <1>4, <1>5, CpusFacts DEF Drains, Cpus
<1>7. CASE Idling(p) /\ call' = [call EXCEPT ![c] = CpuFlushed(r)] /\ worklist' = worklist
  <2> DEFINE s == [r EXCEPT !.pc = "stop"]
  <2>1. GoodCall(s) BY <1>3, <1>4, GotoGood DEF PcsOf, CallPcs
  <2>2. s.op = r.op /\ s.pc = "stop" /\ s.cpu = r.cpu BY <1>4 DEF Records
  <2>3. call' = [call EXCEPT ![c] = s] BY <1>4, <1>7 DEF CpuFlushed
  <2> HIDE DEF s
  <2>4. CallStep(c) /\ call'[c] = s BY <1>1, <2>1, <2>3, CallStepOf
  <2>5. Destroying(c)' BY <1>4, <2>2, <2>4 DEF Destroying
  <2>6. Stopped' BY <1>2, <1>4, <1>7, <2>4, StoppedStep
  <2>7. Drains(c)' BY <1>3, <1>4, <1>6, <1>7, <2>2, <2>4 DEF Drains, Idling
  <2>8. QED BY <1>4, <2>4, <2>5, <2>6, <2>7, DestroyerStep
<1>8. CASE insert_wq_barrier(c, p, p, Len(worklist[p]) + 1)
  <2> DEFINE s == [r EXCEPT !.pc = "wait"]
             l == worklist[p]
             n == Len(l) + 1
  <2>1. GoodCall(s) BY <1>3, <1>4, GotoGood DEF PcsOf, CallPcs
  <2>2. s.op = r.op /\ s.pc = "wait" /\ s.cpu = r.cpu BY <1>4 DEF Records
  <2>3. call' = [call EXCEPT ![c] = s] BY <1>2, <1>8 DEF insert_wq_barrier, Goto
  <2>4. CallStep(c) /\ call'[c] = s BY <1>1, <2>1, <2>3, CallStepOf
  <2>5. Destroying(c)' BY <1>4, <2>2, <2>4 DEF Destroying
  <2>6. /\ l \in Seq(Items) /\ c \in Items /\ n \in 1 .. Len(l) + 1 /\ Len(l) \in Nat
    BY <1>1, <1>4 DEF CpuOK, Items
  <2>7. worklist' = [worklist EXCEPT ![p] = list_insert(l, n, c)]
    BY <1>8 DEF insert_wq_barrier, list_insert
  <2>8. worklist'[p] = list_insert(l, n, c) /\ \A q \in Cpus : q # p => worklist'[q] = worklist[q]
    BY <1>1, <1>4, <2>7 DEF CpuOK
  <2>9. worklist'[p][Len(worklist'[p])] = c
    <3>1. Len(worklist'[p]) = n BY <2>6, <2>8, ListInsert
    <3>2. QED BY <2>6, <2>8, <3>1, ListInsert
  <2>10. \A q \in Cpus : q # p => c \notin Entries(worklist'[q])
    BY <1>1, <1>2, <1>4, <2>8 DEF BarrierAlive
  <2>11. \A q \in Cpus : ~Hand(c, q)'
    BY <1>1, <1>2, <1>4 DEF BarrierAlive, Hand
  <2>12. c \notin done' BY <1>8 DEF insert_wq_barrier
  <2> HIDE DEF s, l, n
  <2>13. Stopped'
    <3>1. \A q \in should_stop : worklist'[q] = worklist[q] BY <1>1, <1>6, <2>8 DEF CpuOK
    <3>2. QED BY <1>2, <1>4, <2>4, <3>1, StoppedStep
  <2>14. Drains(c)'
    BY <1>3, <1>4, <1>6, <2>2, <2>4, <2>9, <2>10, <2>11, <2>12 DEF Drains
  <2>15. QED BY <1>4, <2>4, <2>5, <2>13, <2>14, DestroyerStep
<1>9. QED BY <1>2, <1>3, <1>7, <1>8 DEF flush_cpu_workqueue

LEMMA CompletionDestroyStep ==
  ASSUME WqInv, DestroyInv, NEW c \in Callers, Destroying(c), wait_for_completion(c)
  PROVE  DestroyInv'
<1>1. TypeOK /\ CallOK BY TypeParts DEF WqInv
<1>2. PICK r : r = call[c] OBVIOUS
<1>3. /\ r.op = "destroy_workqueue" /\ r.pc = "wait" /\ GoodCall(r) /\ r \in Records
      /\ r.cpu \in Cpus /\ c \in done
      /\ queueing' = queueing /\ timer' = timer /\ wpc' = wpc /\ should_stop' = should_stop
      /\ worklist' = worklist
  BY <1>1, <1>2, CallerIn DEF wait_for_completion, Completed, GoodCall, workVars, workerVars, cwqVars,
                              Destroying
<1>4. Drains(c) BY DEF DestroyInv
<1> DEFINE s == [r EXCEPT !.pc = "stop"]
<1>5. GoodCall(s) BY <1>3, GotoGood DEF PcsOf, CallPcs
<1>6. s.op = r.op /\ s.pc = "stop" /\ s.cpu = r.cpu BY <1>3 DEF Records
<1>7. call' = [call EXCEPT ![c] = s] BY <1>2, <1>3 DEF wait_for_completion, CpuFlushed
<1> HIDE DEF s
<1>8. CallStep(c) /\ call'[c] = s BY <1>1, <1>5, <1>7, CallStepOf
<1>9. Destroying(c)' BY <1>3, <1>6, <1>8 DEF Destroying
<1>10. Stopped' BY <1>2, <1>3, <1>8, StoppedStep
<1>11. Drains(c)' BY <1>2, <1>3, <1>4, <1>6, <1>8 DEF Drains
<1>12. QED BY <1>3, <1>8, <1>9, <1>10, <1>11, DestroyerStep

LEMMA KthreadStopDestroyStep ==
  ASSUME WqInv, DestroyInv, NEW c \in Callers, kthread_stop(c)
  PROVE  DestroyInv'
<1>1. TypeOK /\ CallOK /\ CpuOK BY TypeParts DEF WqInv
<1>2. PICK r : r = call[c] OBVIOUS
<1>3. /\ r.op = "destroy_workqueue" /\ r.pc = "stop" /\ GoodCall(r) /\ r \in Records
      /\ r.cpu \in Cpus /\ Destroying(c)
      /\ queueing' = queueing /\ timer' = timer /\ wpc' = wpc /\ worklist' = worklist
      /\ should_stop' = should_stop \cup {r.cpu} /\ Goto(c, "exited")
  BY <1>1, <1>2, CallerIn DEF kthread_stop, GoodCall, workVars, cwqVars, Destroying
<1>4. Drains(c) /\ Stopped /\ Quiet BY <1>3, UsableFacts DEF DestroyInv
<1> DEFINE s == [r EXCEPT !.pc = "exited"]
<1>5. GoodCall(s) BY <1>3, GotoGood DEF PcsOf, CallPcs
<1>6. s.op = r.op /\ s.pc = "exited" /\ s.cpu = r.cpu BY <1>3 DEF Records
<1>7. call' = [call EXCEPT ![c] = s] BY <1>2, <1>3 DEF Goto
<1> HIDE DEF s
<1>8. CallStep(c) /\ call'[c] = s BY <1>1, <1>5, <1>7, CallStepOf
<1>9. Destroying(c)' BY <1>3, <1>6, <1>8 DEF Destroying
<1>10. list_empty(worklist[r.cpu]) /\ \A q \in should_stop : q < r.cpu
  BY <1>2, <1>3, <1>4 DEF Drains
<1>11. Stopped'
  <2>1. \A q \in should_stop : wpc[q] = "exit" BY <1>2, <1>3, <1>4 DEF Stopped, Quiet
  <2>2. QED BY <1>3, <1>4, <1>6, <1>8, <1>9, <1>10, <2>1 DEF Stopped
<1>12. Drains(c)' BY <1>3, <1>6, <1>8, <1>10 DEF Drains
<1>13. QED BY <1>3, <1>8, <1>9, <1>11, <1>12, DestroyerStep

LEMMA ThreadExitedDestroyStep ==
  ASSUME WqInv, DestroyInv, NEW c \in Callers, ThreadExited(c)
  PROVE  DestroyInv'
<1>1. TypeOK /\ CallOK /\ CpuOK BY TypeParts DEF WqInv
<1>2. PICK r : r = call[c] OBVIOUS
<1>3. /\ r.op = "destroy_workqueue" /\ r.pc = "exited" /\ GoodCall(r) /\ r \in Records
      /\ r.cpu \in Cpus /\ Destroying(c) /\ wpc[r.cpu] = "exit"
      /\ queueing' = queueing /\ timer' = timer /\ wpc' = wpc /\ worklist' = worklist
      /\ should_stop' = should_stop
  BY <1>1, <1>2, CallerIn DEF ThreadExited, GoodCall, workVars, workerVars, cwqVars, Destroying
<1>4. Drains(c) BY <1>3 DEF DestroyInv
<1> DEFINE s == NextCpu(r)
<1>5. GoodCall(s) BY <1>3, NextCpuGood
<1>6. /\ s.op = r.op
      /\ \/ s.pc = "lock" /\ s.cpu = r.cpu + 1
         \/ s.pc = "return" /\ s.cpu = r.cpu
  BY <1>3 DEF NextCpu, CpuEntry, Records
<1>7. call' = [call EXCEPT ![c] = s] BY <1>2 DEF ThreadExited
<1> HIDE DEF s
<1>8. CallStep(c) /\ call'[c] = s BY <1>1, <1>5, <1>7, CallStepOf
<1>9. Destroying(c)' BY <1>3, <1>6, <1>8 DEF Destroying
<1>10. Stopped' BY <1>2, <1>3, <1>8, StoppedStep
<1>11. \A q \in should_stop : q \in Nat /\ (q < r.cpu \/ q = r.cpu)
  BY <1>1, <1>2, <1>3, <1>4, CpusFacts DEF Drains, CpuOK, Cpus
<1>12. r.cpu \in Nat BY <1>3, CpusFacts DEF Cpus
<1>13. Drains(c)' BY <1>3, <1>6, <1>8, <1>11, <1>12 DEF Drains
<1>14. QED BY <1>3, <1>8, <1>9, <1>10, <1>13, DestroyerStep

LEMMA ReturnDestroyStep ==
  ASSUME WqInv, DestroyInv, NEW c \in Callers, Destroying(c), Return(c)
  PROVE  DestroyInv'
<1>1. TypeOK /\ CallOK /\ CpuOK BY TypeParts DEF WqInv
<1>2. /\ call[c].pc = "return" /\ queueing' = queueing /\ timer' = timer /\ wpc' = wpc
      /\ worklist' = worklist /\ should_stop' = should_stop
  BY DEF Return, workVars, workerVars, cwqVars
<1>3. Quiet /\ Stopped BY UsableFacts DEF DestroyInv
<1>4. CallStep(c) /\ call'[c] = Idle BY <1>1, IdleGood, CallStepOf DEF Return
<1>5. \A d \in Callers : d # c => call'[d] = call[d] BY <1>1, <1>4, CallFrame
<1>6. \A d \in Callers : ~Destroying(d)' BY <1>3, <1>4, <1>5 DEF Quiet, Destroying, Idle
<1>7. Stopped' BY <1>2, <1>4, StoppedStep
<1>8. Quiet'
  <2>1. \A d \in Callers : call'[d].op \in {"none", "destroy_workqueue"}
    BY <1>3, <1>4, <1>5 DEF Quiet, Idle
  <2>2. QED BY <1>2, <1>3, <1>6, <2>1 DEF Quiet
<1>9. QED BY <1>6, <1>7, <1>8 DEF DestroyInv

(* destroy_workqueue() begins when everything is quiet. *)
LEMMA BeginDestroyStep ==
  ASSUME WqInv, DestroyInv, NEW c \in Callers, BeginCpuLoop(c, "destroy_workqueue")
  PROVE  DestroyInv'
<1>1. TypeOK /\ CallOK /\ CpuOK BY TypeParts DEF WqInv
<1>2. Usable /\ Stopped BY DEF BeginCpuLoop, DestroyInv
<1>3. should_stop = {} BY <1>1, <1>2, UsableRuns
<1> DEFINE s == [Idle EXCEPT !.op = "destroy_workqueue", !.pc = "lock", !.cpu = 1]
<1>4. /\ call' = [call EXCEPT ![c] = s] /\ queueing = {} /\ timer = {}
      /\ \A d \in Callers : call[d] = Idle
      /\ queueing' = queueing /\ timer' = timer /\ wpc' = wpc /\ should_stop' = should_stop
  BY DEF BeginCpuLoop, CpuEntry, workVars, workerVars
<1>5. s.op = "destroy_workqueue" /\ s.pc = "lock" BY DEF Idle
<1> HIDE DEF s
<1>6. call'[c] = s /\ \A d \in Callers : d # c => call'[d] = Idle BY <1>1, <1>4 DEF TypeOK
<1>7. \A d \in Callers : Destroying(d)' <=> d = c BY <1>5, <1>6 DEF Destroying, Idle
<1>8. Quiet'
  <2>1. \A d \in Callers : call'[d].op \in {"none", "destroy_workqueue"}
    BY <1>5, <1>6 DEF Idle
  <2>2. QED BY <1>4, <1>7, <2>1 DEF Quiet
<1>9. Stopped' BY <1>2, <1>3, <1>4, UsableFacts DEF Stopped
<1>10. Drains(c)' BY <1>3, <1>4, <1>5, <1>6 DEF Drains
<1>11. QED BY <1>7, <1>8, <1>9, <1>10 DEF DestroyInv

LEMMA CreateDestroyStep ==
  ASSUME create_workqueue
  PROVE  DestroyInv'
<1>1. \A p \in Cpus : wpc'[p] # "exit" BY DEF create_workqueue
<1>2. \A c \in Callers : call'[c].op = "none" BY DEF create_workqueue, callVars, Idle
<1>3. should_stop' = {} BY DEF create_workqueue
<1>4. Usable' BY <1>1, <1>2 DEF Usable
<1>5. QED BY <1>1, <1>2, <1>3, <1>4 DEF DestroyInv, Stopped, Destroying

(* A caller stays in its function or leaves it. *)
LEMMA NextCpuOp ==
  ASSUME NEW r \in Records
  PROVE  NextCpu(r).op = r.op /\ CpuFlushed(r).op = r.op
<1>1. /\ [r EXCEPT !.cpu = r.cpu + 1, !.pc = CpuEntry(r.op)].op = r.op
      /\ [r EXCEPT !.pc = "return"].op = r.op /\ [r EXCEPT !.pc = "stop"].op = r.op
      /\ [r EXCEPT !.pc = CancelStart(r.op), !.cpu = 0, !.cwq = NULL, !.ret = 0].op = r.op
      /\ [r EXCEPT !.pc = "clear", !.cpu = 0, !.cwq = NULL].op = r.op
  BY DEF Records
<1>2. NextCpu(r).op = r.op BY <1>1 DEF NextCpu
<1>3. QED BY <1>1, <1>2 DEF CpuFlushed

LEMMA CallerMoves ==
  ASSUME TypeOK, CallOK, NEW c \in Callers, Caller(c)
  PROVE  /\ \A d \in Callers : d # c => call'[d] = call[d]
         /\ call'[c].op \in {call[c].op, "none"}
         /\ call' = [call EXCEPT ![c] = call'[c]]
<1>1. call \in [Callers -> Records] BY DEF TypeOK, Records
<1>2. PICK r \in Records : r = call[c] BY <1>1
<1>3. SUFFICES \E s : call' = [call EXCEPT ![c] = s] /\ s.op \in {r.op, "none"}
  BY <1>1, <1>2
<1> DEFINE Goal == \E s : call' = [call EXCEPT ![c] = s] /\ s.op \in {r.op, "none"}
<1>4. ASSUME NEW pc, Goto(c, pc) PROVE Goal
  <2>1. [r EXCEPT !.pc = pc].op = r.op BY DEF Records
  <2>2. QED BY <1>2, <1>4, <2>1 DEF Goto
<1>5. ASSUME call' = [call EXCEPT ![c] = NextCpu(r)] \/ call' = [call EXCEPT ![c] = CpuFlushed(r)]
      PROVE  Goal
  BY <1>5, NextCpuOp
<1>6. ASSUME call' = [call EXCEPT ![c] = Idle] PROVE Goal
  <2>1. Idle.op = "none" BY DEF Idle
  <2>2. QED BY <1>6, <2>1
<1>7. ASSUME NEW pc, NEW n, call' = [call EXCEPT ![c] = [r EXCEPT !.pc = pc, !.ret = n]] PROVE Goal
  <2>1. [r EXCEPT !.pc = pc, !.ret = n].op = r.op BY DEF Records
  <2>2. QED BY <1>7, <2>1
<1>8. ASSUME NEW pc, NEW p, call' = [call EXCEPT ![c] = [r EXCEPT !.pc = pc, !.cwq = p]] PROVE Goal
  <2>1. [r EXCEPT !.pc = pc, !.cwq = p].op = r.op BY DEF Records
  <2>2. QED BY <1>8, <2>1
<1>9. CASE flush_cpu_workqueue(c)
  BY <1>2, <1>4, <1>5, <1>9 DEF flush_cpu_workqueue, insert_wq_barrier
<1>10. CASE wait_for_completion(c)
  <2>1. [r EXCEPT !.pc = "return"].op = r.op BY DEF Records
  <2>2. QED BY <1>2, <1>5, <1>10, <2>1 DEF wait_for_completion
<1>11. CASE kthread_stop(c) \/ GrabBit(c) BY <1>4, <1>11 DEF kthread_stop, GrabBit
<1>12. CASE ThreadExited(c) BY <1>2, <1>5, <1>12 DEF ThreadExited
<1>13. CASE Return(c) \/ CancelClears(c) BY <1>6, <1>13 DEF Return, CancelClears
<1>14. CASE FlushReads(c)
  <2>1. PICK p : p = wq_data[r.work] OBVIOUS
  <2>2. \/ call' = [call EXCEPT ![c] = [r EXCEPT !.pc = "return"]]
        \/ call' = [call EXCEPT ![c] = [r EXCEPT !.pc = "fw_lock", !.cwq = p]]
    BY <1>2, <1>14, <2>1 DEF FlushReads
  <2>3. [r EXCEPT !.pc = "return"].op = r.op BY DEF Records
  <2>4. QED BY <1>8, <2>2, <2>3
<1>15. CASE FlushLooks(c) \/ FlushMatches(c) \/ FlushRequeues(c)
  BY <1>4, <1>15 DEF FlushLooks, FlushMatches, FlushRequeues, insert_wq_barrier
<1>16. CASE DelTimer(c)
  <2>1. \/ call' = [call EXCEPT ![c] = [r EXCEPT !.ret = 1, !.pc = "wq"]]
        \/ call' = [call EXCEPT ![c] = [r EXCEPT !.pc = "clear"]]
        \/ call' = [call EXCEPT ![c] = [r EXCEPT !.pc = "requeue"]]
        \/ \E pc : Goto(c, pc)
    BY <1>2, <1>16, CallerIn DEF DelTimer
  <2>2. /\ [r EXCEPT !.ret = 1, !.pc = "wq"].op = r.op /\ [r EXCEPT !.pc = "clear"].op = r.op
        /\ [r EXCEPT !.pc = "requeue"].op = r.op
    BY DEF Records
  <2>3. QED BY <1>4, <2>1, <2>2
<1>17. CASE GrabReads(c)
  <2>1. PICK p : p = wq_data[r.work] OBVIOUS
  <2>2. QED BY <1>2, <1>7, <1>8, <1>17, <2>1 DEF GrabReads
<1>18. CASE GrabLooks(c)
  <2>1. [r EXCEPT !.pc = "match"].op = r.op BY DEF Records
  <2>2. QED BY <1>2, <1>7, <1>18, <2>1 DEF GrabLooks
<1>19. CASE GrabMatches(c)
  <2>1. \/ call' = [call EXCEPT ![c] = [r EXCEPT !.pc = "wq", !.ret = 1]]
        \/ call' = [call EXCEPT ![c] = [r EXCEPT !.pc = "wq", !.ret = -1]]
    BY <1>1, <1>2, <1>19 DEF GrabMatches
  <2>2. QED BY <1>7, <2>1
<1>20. CASE wait_on_work(c)
  <2> DEFINE l == [r EXCEPT !.cpu = LastCpu]
             f == [r EXCEPT !.pc = "lock", !.cpu = FirstCpu, !.cwq = NULL]
  <2>1. NCpus \in 0 .. NCpus BY CpusFacts
  <2>4. l \in Records /\ l.op = r.op /\ f.op = r.op BY <2>1 DEF Records, LastCpu
  <2>2. call' = [call EXCEPT ![c] = NextCpu(l)] \/ call' = [call EXCEPT ![c] = f]
    BY <1>2, <1>20 DEF wait_on_work
  <2> HIDE DEF l, f
  <2>3. QED BY <2>2, <2>4, NextCpuOp
<1>21. CASE wait_on_cpu_work(c)
  BY <1>2, <1>4, <1>5, <1>21 DEF wait_on_cpu_work, insert_wq_barrier
<1>22. QED
  BY <1>9, <1>10, <1>11, <1>12, <1>13, <1>14, <1>15, <1>16, <1>17, <1>18, <1>19, <1>20, <1>21
     DEF Caller

(* A work queue that is in use stays so, unless its destruction begins. *)
LEMMA InUseStep ==
  ASSUME WqInv, Usable, should_stop = {}, Next,
         ~ \E c \in Callers : BeginCpuLoop(c, "destroy_workqueue")
  PROVE  DestroyInv'
<1>1. TypeOK /\ CallOK /\ CpuOK BY TypeParts DEF WqInv
<1>2. (\A p \in Cpus : wpc[p] # "exit") /\ \A c \in Callers : ~Destroying(c) BY UsableFacts
<1>3. \A c \in Callers : call[c].pc \notin {"stop", "exited"}
  BY <1>1, <1>2, CallerIn DEF Destroying
<1>4. SUFFICES /\ \A p \in Cpus : wpc'[p] # "exit"
               /\ \A c \in Callers : call'[c].op # "destroy_workqueue"
               /\ should_stop' = {}
  <2>1. Usable' BY <1>4 DEF Usable
  <2>2. QED BY <1>4, <2>1 DEF DestroyInv, Stopped, Destroying
<1> DEFINE Goal == /\ \A p \in Cpus : wpc'[p] # "exit"
                   /\ \A c \in Callers : call'[c].op # "destroy_workqueue"
                   /\ should_stop' = {}
<1>5. ASSUME call' = call, wpc' = wpc, should_stop' = should_stop PROVE Goal
  BY <1>2, <1>5 DEF Destroying
<1>6. ASSUME NEW c \in Callers, \A d \in Callers : d # c => call'[d] = call[d],
             call'[c].op # "destroy_workqueue", wpc' = wpc, should_stop' = should_stop
      PROVE  Goal
  BY <1>2, <1>6 DEF Destroying
<1>7. CASE \/ \E w \in Works, p \in Cpus, step \in {"insert", "data"} : queue_work_on(w, p, step)
           \/ \E q \in queueing : Insert(q) \/ SetWqData(q) \/ add_timer(q)
           \/ \E w \in Delayed, p \in Cpus : delayed_work_timer_fn(w, p)
  BY <1>5, <1>7 DEF queue_work_on, Insert, SetWqData, add_timer, delayed_work_timer_fn, workerVars,
                    callVars
<1>8. CASE \E p \in Cpus : Worker(p)
  <2>1. PICK p \in Cpus : Worker(p) BY <1>8
  <2>2. /\ call' = call /\ should_stop' = should_stop
        /\ \A n \in Cpus : n # p => wpc'[n] = wpc[n]
        /\ wpc'[p] = "exit" => p \in should_stop
    BY <1>1, <2>1 DEF Worker, prepare_to_wait, WorkerTest, finish_wait, run_workqueue,
              work_clear_pending, CallFunc, workerVars, callVars, CpuOK
  <2>3. QED BY <1>2, <2>2 DEF Destroying
<1>9. ASSUME NEW c \in Callers, Caller(c) PROVE Goal
  <2>1. call[c] \in Records /\ call[c].op # "destroy_workqueue" BY <1>1, <1>2, CallerIn DEF Destroying
  <2>2. ~kthread_stop(c) BY <1>3 DEF kthread_stop
  <2>3. wpc' = wpc /\ should_stop' = should_stop
    BY <1>9, <2>2 DEF Caller, flush_cpu_workqueue, wait_for_completion, ThreadExited, Return,
         FlushReads, FlushLooks, FlushMatches, FlushRequeues, DelTimer, GrabBit, GrabReads, GrabLooks,
         GrabMatches, wait_on_work, wait_on_cpu_work, CancelClears, workerVars
  <2>4. QED BY <1>1, <1>6, <1>9, <2>1, <2>3, CallerMoves
<1>10. CASE \E c \in Callers, op \in CpuLoops : BeginCpuLoop(c, op)
  <2>1. PICK c \in Callers : BeginCpuLoop(c, "flush_workqueue") BY <1>10
  <2> DEFINE s == [Idle EXCEPT !.op = "flush_workqueue", !.pc = CpuEntry("flush_workqueue"), !.cpu = 1]
  <2>2. s.op = "flush_workqueue" BY DEF Idle
  <2>3. call' = [call EXCEPT ![c] = s] /\ wpc' = wpc /\ should_stop' = should_stop
    BY <2>1 DEF BeginCpuLoop, workerVars
  <2> HIDE DEF s
  <2>4. call'[c] = s /\ \A d \in Callers : d # c => call'[d] = call[d] BY <1>1, <2>3 DEF TypeOK
  <2>5. QED BY <1>6, <2>2, <2>3, <2>4
<1>11. CASE \E c \in Callers, op \in AllOps, w \in Works : Begin(c, op, w)
  <2>1. PICK c \in Callers, op \in AllOps, w \in Works : Begin(c, op, w) BY <1>11
  <2>2. op # "destroy_workqueue" /\ wpc' = wpc /\ should_stop' = should_stop
    BY <2>1 DEF Begin, workerVars
  <2>3. PICK pc : call' = [call EXCEPT ![c] = [Idle EXCEPT !.op = op, !.work = w, !.pc = pc]]
    BY <2>1 DEF Begin
  <2>4. [Idle EXCEPT !.op = op, !.work = w, !.pc = pc].op = op BY DEF Idle
  <2>5. call'[c].op = op /\ \A d \in Callers : d # c => call'[d] = call[d]
    BY <1>1, <2>3, <2>4 DEF TypeOK
  <2>6. QED BY <1>6, <2>2, <2>5
<1>12. CASE create_workqueue BY <1>12, CpusFacts DEF create_workqueue, callVars, Idle
<1>13. QED BY <1>7, <1>8, <1>9, <1>10, <1>11, <1>12 DEF Next

(* Once its destruction has begun, a work queue sees only its workers and  *)
(* the destroyer.                                                          *)
LEMMA DyingStep ==
  ASSUME WqInv, DestroyInv, ~Usable, Next
  PROVE  DestroyInv'
<1>1. TypeOK /\ CallOK /\ CpuOK BY TypeParts DEF WqInv
<1>2. Quiet BY DEF DestroyInv
<1>3. \/ \E p \in Cpus : Worker(p)
      \/ \E c \in Callers : Caller(c)
      \/ create_workqueue
  BY <1>2 DEF Next, queue_work_on, delayed_work_timer_fn, BeginCpuLoop, Begin, Quiet
<1>4. ASSUME NEW c \in Callers, Caller(c) PROVE DestroyInv'
  <2>1. /\ call[c].op = "none" => call[c].pc = "idle"
        /\ call[c].op = "destroy_workqueue" =>
             call[c].pc \in {"lock", "wait", "stop", "exited", "return"}
    BY <1>1, CallerIn DEF PcsOf
  <2>2. call[c].op \in {"none", "destroy_workqueue"} BY <1>2 DEF Quiet
  <2>3. /\ Destroying(c)
        /\ \/ flush_cpu_workqueue(c) \/ wait_for_completion(c) \/ kthread_stop(c)
           \/ ThreadExited(c) \/ Return(c)
    BY <1>4, <2>1, <2>2
       DEF Caller, Destroying, flush_cpu_workqueue, wait_for_completion, kthread_stop, ThreadExited,
           Return, FlushReads, FlushLooks, FlushMatches, FlushRequeues, DelTimer, GrabBit, GrabReads,
           GrabLooks, GrabMatches, wait_on_work, wait_on_cpu_work, CancelClears
  <2>4. QED
    BY <2>3, FlushCpuDestroyStep, CompletionDestroyStep, KthreadStopDestroyStep,
       ThreadExitedDestroyStep, ReturnDestroyStep
<1>5. QED BY <1>3, <1>4, WorkerDestroyStep, CreateDestroyStep

LEMMA DestroyStep ==
  ASSUME WqInv, DestroyInv, [Next]_vars
  PROVE  DestroyInv'
<1>1. CASE UNCHANGED vars
  BY <1>1 DEF vars, DestroyInv, Usable, Quiet, Stopped, Drains, Destroying, Hand
<1>2. CASE Next /\ ~Usable BY <1>2, DyingStep
<1>3. CASE Next /\ Usable
  <2>1. should_stop = {} BY <1>3, TypeParts, UsableRuns DEF WqInv, DestroyInv
  <2>2. QED BY <1>3, <2>1, InUseStep, BeginDestroyStep
<1>4. QED BY <1>1, <1>2, <1>3

(* What the destroyer relies on holds in every state. *)
THEOREM WorkQueueDestroyed == Spec => []DestroyInv
<1>1. Init => DestroyInv
  <2>1. ASSUME Init PROVE DestroyInv
    <3>1. Usable BY <2>1 DEF Init, Usable, Idle
    <3>2. QED BY <2>1, <3>1, UsableDestroy DEF Init
  <2>2. QED BY <2>1
<1>2. WqInv /\ DestroyInv /\ [Next]_vars => DestroyInv' BY DestroyStep
<1>3. QED BY <1>1, <1>2, WorkQueueInvariant, PTL DEF Spec

(* A worker that destroy_workqueue() has stopped leaves nothing undone on  *)
(* its list (workqueue.c:939).                                             *)
THEOREM WorkQueueDestroyComplete == Spec => []DestroyComplete
<1>1. DestroyInv => DestroyComplete BY DEF DestroyInv, Stopped, DestroyComplete
<1>2. QED BY <1>1, WorkQueueDestroyed, PTL

-------------------------------------------------------------------------------
(* The pending bit as a token.  set_wq_data() of queue_delayed_work_on()   *)
(* takes no lock, and can mislead try_to_grab_pending() about a delayed    *)
(* work that moves from CPU to CPU.  From here on the works that are       *)
(* cancelled are steady: plain ones, which may move, and delayed ones that *)
(* are queued from one CPU.  Other delayed works move as they like.        *)
Steady == {w \in Works : w \in Delayed => \A p, q \in On[w] : p = q}

Settled == Cancelled \subseteq Steady

(* What the flushes of single works need besides: every work is steady. *)
OneCpu == Works \subseteq Steady

LEMMA OneCpuSettled ==
  ASSUME OneCpu
  PROVE  Settled
BY WorkQueueAssumption DEF OneCpu, Settled

(* The call with the local variables r has taken the pending bit of w. *)
OwnsBit(r, w) ==
  /\ r.work = w
  /\ \/ r.op \in Cancels /\ r.ret >= 0 /\ r.pc \in {"wq", "lock", "wait", "clear"}
     \/ r.op \in Unarms /\ r.pc = "clear"
     \/ r.pc = "requeue"

(* The places where the token of work w can be. *)
At(w, k, x) ==
  \/ k = "queueing" /\ x \in queueing /\ x.work = w
  \/ k = "timer" /\ x = w /\ w \in timer
  \/ k = "list" /\ x \in Cpus /\ w \in Entries(worklist[x])
  \/ k = "taken" /\ x \in Cpus /\ wpc[x] = "clear" /\ current_work[x] = w
  \/ k = "owned" /\ x \in Callers /\ OwnsBit(call[x], w)

Token ==
  \A w \in Works :
    /\ w \in pending <=> \E k, x : At(w, k, x)
    /\ \A k, x, l, y : At(w, k, x) /\ At(w, l, y) => k = l /\ x = y

WorkOnce == \A w \in Works, p \in Cpus : Once(worklist[p], w)

(* work->data names the list that the work is on or was taken from, ...    *)
DataOK ==
  \A w \in Works, p \in Cpus :
    w \in Entries(worklist[p]) \/ (wpc[p] = "clear" /\ current_work[p] = w) => wq_data[w] = p

(* ... and for a delayed work a CPU that it is queued from; a call that    *)
(* has read it finds it set later.                                         *)
Looking == {"fw_lock", "fw_match", "grab_lock", "match"}
Locked  == {"fw_match", "match"}

OnData ==
  /\ \A w \in Delayed : wq_data[w] \in On[w] \cup {NULL}
  /\ \A c \in Callers :
       call[c].pc \in Looking /\ call[c].work \in Delayed =>
         call[c].cwq \in On[call[c].work] /\ wq_data[call[c].work] # NULL

(* cwq->lock has one holder. *)
LockExcl ==
  \A c, d \in Callers :
    call[c].pc \in Locked /\ call[d].pc \in Locked /\ call[c].cwq = call[d].cwq => c = d

(* The second test under cwq->lock means what it is taken to mean, for a   *)
(* work that is steady.                                                    *)
MatchOK ==
  \A c \in Callers :
    call[c].pc \in Locked /\ call[c].work \in Steady
        /\ wq_data[call[c].work] = call[c].cwq =>
      call[c].work \in Entries(worklist[call[c].cwq])

TokenInv == Token /\ WorkOnce /\ DataOK /\ OnData /\ LockExcl /\ MatchOK

LEMMA OwnsIs ==
  ASSUME NEW c, NEW w
  PROVE  Owns(c, w) <=> OwnsBit(call[c], w)
BY DEF Owns, OwnsBit

(* What happens to the token: it stays where it is, moves, comes or goes. *)
TokenStays == \A v \in Works : \A a, b : At(v, a, b)' <=> At(v, a, b)

TokenMoves(w, k, x, l, y) ==
  /\ At(w, k, x)
  /\ \A v \in Works : \A a, b :
       At(v, a, b)' <=> \/ At(v, a, b) /\ ~(v = w /\ a = k /\ b = x)
                        \/ v = w /\ a = l /\ b = y

TokenComes(w, l, y) ==
  /\ w \notin pending
  /\ \A v \in Works : \A a, b : At(v, a, b)' <=> At(v, a, b) \/ (v = w /\ a = l /\ b = y)

TokenGoes(w, k, x) ==
  /\ At(w, k, x)
  /\ \A v \in Works : \A a, b : At(v, a, b)' <=> At(v, a, b) /\ ~(v = w /\ a = k /\ b = x)

LEMMA TokenKept ==
  ASSUME Token, TokenStays, \A v \in Works : v \in pending' <=> v \in pending
  PROVE  Token'
BY DEF Token, TokenStays

LEMMA TokenMoved ==
  ASSUME Token, NEW w \in Works, NEW k, NEW x, NEW l, NEW y, TokenMoves(w, k, x, l, y),
         pending' = pending
  PROVE  Token'
<1>1. ASSUME NEW v \in Works, v # w
      PROVE  /\ v \in pending' <=> \E a, b : At(v, a, b)'
             /\ \A a, b, d, e : At(v, a, b)' /\ At(v, d, e)' => a = d /\ b = e
  BY <1>1 DEF Token, TokenMoves
<1>2. \A a, b : At(w, a, b) => a = k /\ b = x BY DEF Token, TokenMoves
<1>3. \A a, b : At(w, a, b)' <=> a = l /\ b = y BY <1>2 DEF TokenMoves
<1>4. w \in pending BY DEF Token, TokenMoves
<1>5. /\ w \in pending' <=> \E a, b : At(w, a, b)'
      /\ \A a, b, d, e : At(w, a, b)' /\ At(w, d, e)' => a = d /\ b = e
  BY <1>3, <1>4
<1>6. QED BY <1>1, <1>5 DEF Token

LEMMA TokenCame ==
  ASSUME Token, NEW w \in Works, NEW l, NEW y, TokenComes(w, l, y),
         pending' = pending \cup {w}
  PROVE  Token'
<1>1. ASSUME NEW v \in Works, v # w
      PROVE  /\ v \in pending' <=> \E a, b : At(v, a, b)'
             /\ \A a, b, d, e : At(v, a, b)' /\ At(v, d, e)' => a = d /\ b = e
  BY <1>1 DEF Token, TokenComes
<1>2. \A a, b : ~At(w, a, b) BY DEF Token, TokenComes
<1>3. \A a, b : At(w, a, b)' <=> a = l /\ b = y BY <1>2 DEF TokenComes
<1>5. /\ w \in pending' <=> \E a, b : At(w, a, b)'
      /\ \A a, b, d, e : At(w, a, b)' /\ At(w, d, e)' => a = d /\ b = e
  BY <1>3
<1>6. QED BY <1>1, <1>5 DEF Token

LEMMA TokenGone ==
  ASSUME Token, NEW w \in Works, NEW k, NEW x, TokenGoes(w, k, x), pending' = pending \ {w}
  PROVE  Token'
<1>1. ASSUME NEW v \in Works, v # w
      PROVE  /\ v \in pending' <=> \E a, b : At(v, a, b)'
             /\ \A a, b, d, e : At(v, a, b)' /\ At(v, d, e)' => a = d /\ b = e
  BY <1>1 DEF Token, TokenGoes
<1>2. \A a, b : At(w, a, b) => a = k /\ b = x BY DEF Token, TokenGoes
<1>3. \A a, b : ~At(w, a, b)' BY <1>2 DEF TokenGoes
<1>6. QED BY <1>1, <1>3 DEF Token

(* The token of a work is in one place. *)
LEMMA OnePlace ==
  ASSUME Token, NEW w \in Works
  PROVE  /\ \A q \in queueing : q.work = w =>
              /\ w \notin timer
              /\ \A p \in Cpus : w \notin Entries(worklist[p])
              /\ \A p \in Cpus : ~(wpc[p] = "clear" /\ current_work[p] = w)
              /\ \A c \in Callers : ~OwnsBit(call[c], w)
              /\ \A r \in queueing : r.work = w => r = q
         /\ w \in timer =>
              /\ \A p \in Cpus : w \notin Entries(worklist[p])
              /\ \A p \in Cpus : ~(wpc[p] = "clear" /\ current_work[p] = w)
              /\ \A c \in Callers : ~OwnsBit(call[c], w)
         /\ \A p \in Cpus : w \in Entries(worklist[p]) =>
              /\ \A q \in Cpus : w \in Entries(worklist[q]) => p = q
              /\ \A q \in Cpus : ~(wpc[q] = "clear" /\ current_work[q] = w)
              /\ \A c \in Callers : ~OwnsBit(call[c], w)
         /\ \A c \in Callers : OwnsBit(call[c], w) =>
              /\ \A p \in Cpus : ~(wpc[p] = "clear" /\ current_work[p] = w)
              /\ \A d \in Callers : OwnsBit(call[d], w) => c = d
<1>1. /\ \A q : q \in queueing /\ q.work = w <=> At(w, "queueing", q)
      /\ w \in timer <=> At(w, "timer", w)
      /\ \A p : p \in Cpus /\ w \in Entries(worklist[p]) <=> At(w, "list", p)
      /\ \A p : p \in Cpus /\ wpc[p] = "clear" /\ current_work[p] = w <=> At(w, "taken", p)
      /\ \A c : c \in Callers /\ OwnsBit(call[c], w) <=> At(w, "owned", c)
  BY DEF At
<1>2. \A k, x, l, y : At(w, k, x) /\ At(w, l, y) => k = l /\ x = y BY DEF Token
<1>3. QED BY <1>1, <1>2

(* A call moves on and leaves work->data and the lists of works alone. *)
LEMMA LooksKept ==
  ASSUME WqInv, TokenInv, NEW c \in Callers, CallStep(c), wq_data' = wq_data,
         \A v \in Works, p \in Cpus : v \in Entries(worklist[p]) => v \in Entries(worklist'[p]),
         call'[c].pc \in Looking /\ call'[c].work \in Delayed =>
           call'[c].cwq \in On[call'[c].work] /\ wq_data[call'[c].work] # NULL,
         call'[c].pc \in Locked =>
           /\ Unlocked(call'[c].cwq)
           /\ wq_data[call'[c].work] = call'[c].cwq =>
                call'[c].work \in Entries(worklist'[call'[c].cwq])
  PROVE  OnData' /\ LockExcl' /\ MatchOK'
<1>1. TypeOK /\ CallOK BY DEF WqInv
<1>2. OnData /\ LockExcl /\ MatchOK BY DEF TokenInv
<1>3. \A d \in Callers : d # c => call'[d] = call[d] BY <1>1, CallFrame
<1>4. \A d \in Callers : call[d].pc \in Locked => call[d].work \in Works /\ call[d].cwq \in Cpus
  BY <1>1, CallerIn DEF Locked, GoodCall
<1>5. OnData' BY <1>2, <1>3 DEF OnData
<1>6. LockExcl' BY <1>2, <1>3 DEF LockExcl, Unlocked, Locked
<1>7. MatchOK' BY <1>2, <1>3, <1>4 DEF MatchOK
<1>8. QED BY <1>5, <1>6, <1>7

(* A call moves on and changes nothing about the works. *)
LEMMA QuietCall ==
  ASSUME WqInv, TokenInv, NEW c \in Callers, CallStep(c),
         UNCHANGED <<worklist, current_work, wpc, workVars>>,
         call'[c].pc \in Looking /\ call'[c].work \in Delayed =>
           call'[c].cwq \in On[call'[c].work] /\ wq_data[call'[c].work] # NULL,
         call'[c].pc \in Locked =>
           /\ Unlocked(call'[c].cwq)
           /\ wq_data[call'[c].work] = call'[c].cwq =>
                call'[c].work \in Entries(worklist[call'[c].cwq]),
         \A v \in Works : OwnsBit(call'[c], v) <=> OwnsBit(call[c], v)
  PROVE  TokenInv'
<1>1. TypeOK /\ CallOK BY DEF WqInv
<1>2. Token /\ WorkOnce /\ DataOK BY DEF TokenInv
<1>3. /\ worklist' = worklist /\ current_work' = current_work /\ wpc' = wpc /\ pending' = pending
      /\ wq_data' = wq_data /\ timer' = timer /\ queueing' = queueing
  BY DEF workVars
<1>4. \A d \in Callers : d # c => call'[d] = call[d] BY <1>1, CallFrame
<1>5. OnData' /\ LockExcl' /\ MatchOK' BY <1>3, LooksKept
<1>6. TokenStays
  <2>1. \A v \in Works, d \in Callers : OwnsBit(call'[d], v) <=> OwnsBit(call[d], v) BY <1>4
  <2>2. QED BY <1>3, <2>1 DEF TokenStays, At
<1>7. Token' BY <1>2, <1>3, <1>6, TokenKept
<1>8. WorkOnce' /\ DataOK' BY <1>2, <1>3 DEF WorkOnce, DataOK
<1>9. QED BY <1>5, <1>7, <1>8 DEF TokenInv

(* A call links its barrier: the works stay where they are. *)
LEMMA BarrierCall ==
  ASSUME WqInv, TokenInv, NEW c \in Callers, CallStep(c), NEW p, NEW q \in Cpus,
         NEW i \in 1 .. Len(worklist[q]) + 1, insert_wq_barrier(c, p, q, i),
         UNCHANGED <<current_work, wpc, workVars>>, call'[c].pc = "wait",
         \A v \in Works : OwnsBit(call'[c], v) <=> OwnsBit(call[c], v)
  PROVE  TokenInv'
<1>1. TypeOK /\ CallOK /\ CpuOK BY TypeParts DEF WqInv
<1>2. Token /\ WorkOnce /\ DataOK BY DEF TokenInv
<1>3. /\ current_work' = current_work /\ wpc' = wpc /\ pending' = pending
      /\ wq_data' = wq_data /\ timer' = timer /\ queueing' = queueing
  BY DEF workVars
<1>4. \A d \in Callers : d # c => call'[d] = call[d] BY <1>1, CallFrame
<1>5. worklist' = [worklist EXCEPT ![q] = list_insert(worklist[q], i, c)]
  BY DEF insert_wq_barrier, list_insert
<1>6. worklist[q] \in Seq(Items) /\ c \in Items BY <1>1 DEF CpuOK, Items
<1>7. /\ worklist'[q] = list_insert(worklist[q], i, c)
      /\ \A n \in Cpus : n # q => worklist'[n] = worklist[n]
  BY <1>1, <1>5 DEF CpuOK
<1>8. /\ Entries(list_insert(worklist[q], i, c)) = Entries(worklist[q]) \cup {c}
      /\ \A x : x # c /\ Once(worklist[q], x) => Once(list_insert(worklist[q], i, c), x)
  BY <1>6, InsertEntries
<1>9. \A v \in Works : v # c BY WorkQueueAssumption
<1>10. \A v \in Works, n \in Cpus : v \in Entries(worklist'[n]) <=> v \in Entries(worklist[n])
  BY <1>7, <1>8, <1>9
<1>11. WorkOnce' BY <1>2, <1>7, <1>8, <1>9 DEF WorkOnce
<1>12. OnData' /\ LockExcl' /\ MatchOK'
  BY <1>3, <1>10, LooksKept DEF Looking, Locked
<1>13. TokenStays
  <2>1. \A v \in Works, d \in Callers : OwnsBit(call'[d], v) <=> OwnsBit(call[d], v) BY <1>4
  <2>2. QED BY <1>3, <1>10, <2>1 DEF TokenStays, At
<1>14. Token' BY <1>2, <1>3, <1>13, TokenKept
<1>15. DataOK' BY <1>2, <1>3, <1>10 DEF DataOK
<1>16. QED BY <1>11, <1>12, <1>14, <1>15 DEF TokenInv

-------------------------------------------------------------------------------
(* The contexts that queue works. *)
LEMMA ContextFacts ==
  ASSUME WqInv, NEW q \in queueing
  PROVE  /\ q \in [work : Works, cpu : Cpus, step : {"insert", "data", "timer", "fn"}]
         /\ q.work \in Works /\ q.cpu \in Cpus /\ q.cpu \in On[q.work]
         /\ q.step # "insert" => q.work \in Delayed
<1>1. RestOK BY DEF WqInv
<1>2. q \in [work : Works, cpu : Cpus, step : {"insert", "data", "timer", "fn"}] BY <1>1 DEF RestOK
<1>3. q.work \in Works /\ q.cpu \in Cpus BY <1>2
<1>4. QED BY <1>1, <1>2, <1>3 DEF RestOK

(* Neither the calls nor the lists nor work->data change. *)
LEMMA SameLooks ==
  ASSUME TokenInv, call' = call, wq_data' = wq_data, worklist' = worklist,
         current_work' = current_work, wpc' = wpc, Token'
  PROVE  TokenInv'
BY DEF TokenInv, WorkOnce, DataOK, OnData, LockExcl, MatchOK

LEMMA QueueWorkToken ==
  ASSUME WqInv, TokenInv, NEW w \in Works, NEW p \in Cpus, NEW step \in {"insert", "data"},
         queue_work_on(w, p, step)
  PROVE  TokenInv'
<1>1. Token BY DEF TokenInv
<1>2. /\ worklist' = worklist /\ current_work' = current_work /\ wpc' = wpc
      /\ wq_data' = wq_data /\ timer' = timer /\ call' = call
  BY DEF queue_work_on, cwqVars, workerVars, callVars
<1>3. CASE w \in pending
  <2>1. queueing' = queueing /\ pending' = pending BY <1>3 DEF queue_work_on
  <2>2. TokenStays BY <1>2, <2>1 DEF TokenStays, At
  <2>3. Token' BY <1>1, <2>1, <2>2, TokenKept
  <2>4. QED BY <1>2, <2>3, SameLooks
<1>4. CASE w \notin pending
  <2> DEFINE q == [work |-> w, cpu |-> p, step |-> step]
  <2>1. queueing' = queueing \cup {q} /\ pending' = pending \cup {w} /\ q.work = w
    BY <1>4 DEF queue_work_on
  <2> HIDE DEF q
  <2>2. TokenComes(w, "queueing", q)
    BY <1>2, <1>4, <2>1 DEF TokenComes, At
  <2>3. Token' BY <1>1, <2>1, <2>2, TokenCame
  <2>4. QED BY <1>2, <2>3, SameLooks
<1>5. QED BY <1>3, <1>4

LEMMA TimerToken ==
  ASSUME WqInv, TokenInv, NEW w \in Delayed, NEW p \in Cpus, delayed_work_timer_fn(w, p)
  PROVE  TokenInv'
<1>1. Token BY DEF TokenInv
<1>2. /\ worklist' = worklist /\ current_work' = current_work /\ wpc' = wpc
      /\ wq_data' = wq_data /\ call' = call /\ pending' = pending
      /\ w \in timer /\ timer' = timer \ {w} /\ w \in Works
  BY WorkQueueAssumption DEF delayed_work_timer_fn, cwqVars, workerVars, callVars
<1> DEFINE q == [work |-> w, cpu |-> p, step |-> "fn"]
<1>3. queueing' = queueing \cup {q} /\ q.work = w BY DEF delayed_work_timer_fn
<1> HIDE DEF q
<1>4. \A r \in queueing : r.work # w BY <1>1, <1>2, OnePlace
<1>5. TokenMoves(w, "timer", w, "queueing", q)
  BY <1>2, <1>3, <1>4 DEF TokenMoves, At
<1>6. Token' BY <1>1, <1>2, <1>5, TokenMoved
<1>7. QED BY <1>2, <1>6, SameLooks

LEMMA AddTimerToken ==
  ASSUME WqInv, TokenInv, NEW q \in queueing, add_timer(q)
  PROVE  TokenInv'
<1>1. Token BY DEF TokenInv
<1>2. PICK w \in Works : w = q.work BY ContextFacts
<1>3. /\ worklist' = worklist /\ current_work' = current_work /\ wpc' = wpc
      /\ wq_data' = wq_data /\ call' = call /\ pending' = pending
      /\ timer' = timer \cup {w} /\ queueing' = queueing \ {q}
  BY <1>2 DEF add_timer, cwqVars, workerVars, callVars
<1>4. w \notin timer BY <1>1, <1>2, OnePlace
<1>5. TokenMoves(w, "queueing", q, "timer", w)
  BY <1>2, <1>3, <1>4 DEF TokenMoves, At
<1>6. Token' BY <1>1, <1>3, <1>5, TokenMoved
<1>7. QED BY <1>3, <1>6, SameLooks

(* The store without a lock: the work is on no list meanwhile and no       *)
(* worker has just taken it; where somebody looks at a steady work under   *)
(* cwq->lock the store writes what is there already.                       *)
LEMMA SetDataToken ==
  ASSUME WqInv, TokenInv, NEW q \in queueing, SetWqData(q)
  PROVE  TokenInv'
<1>1. Token /\ WorkOnce /\ DataOK /\ OnData /\ LockExcl /\ MatchOK BY DEF TokenInv
<1>2. PICK w \in Works : w = q.work BY ContextFacts
<1>3. PICK p \in Cpus : p = q.cpu BY ContextFacts
<1>4. p \in On[w] /\ w \in Delayed BY <1>2, <1>3, ContextFacts DEF SetWqData
<1> DEFINE r == [q EXCEPT !.step = "timer"]
<1>5. r.work = w /\ r.step = "timer" /\ r # q
  <2>1. q \in [work : Works, cpu : Cpus, step : {"insert", "data", "timer", "fn"}] BY ContextFacts
  <2>2. QED BY <1>2, <2>1 DEF SetWqData
<1>6. /\ worklist' = worklist /\ current_work' = current_work /\ wpc' = wpc
      /\ call' = call /\ pending' = pending /\ timer' = timer
      /\ queueing' = (queueing \ {q}) \cup {r} /\ wq_data' = [wq_data EXCEPT ![w] = p]
  BY <1>2, <1>3 DEF SetWqData, cwqVars, workerVars, callVars
<1> HIDE DEF r
<1>7. r \notin queueing BY <1>1, <1>2, <1>5, OnePlace
<1>8. TokenMoves(w, "queueing", q, "queueing", r)
  BY <1>2, <1>5, <1>6, <1>7 DEF TokenMoves, At
<1>9. Token' BY <1>1, <1>6, <1>8, TokenMoved
<1>10. wq_data'[w] = p /\ \A v \in Works : v # w => wq_data'[v] = wq_data[v]
  <2>1. wq_data \in [Works -> Cpus \cup {NULL}] BY DEF WqInv, RestOK
  <2>2. QED BY <1>6, <2>1
<1>11. \A n \in Cpus : w \notin Entries(worklist[n]) /\ ~(wpc[n] = "clear" /\ current_work[n] = w)
  BY <1>1, <1>2, OnePlace
<1>12. WorkOnce' /\ LockExcl' BY <1>1, <1>6 DEF WorkOnce, LockExcl
<1>13. DataOK' BY <1>1, <1>6, <1>10, <1>11 DEF DataOK
<1>14. OnData'
  <2>1. \A v \in Delayed : v \in Works BY WorkQueueAssumption
  <2>2. p # NULL BY <1>3, WorkQueueAssumption
  <2>3. \A v \in Delayed : wq_data'[v] \in On[v] \cup {NULL} BY <1>1, <1>4, <1>10, <2>1 DEF OnData
  <2>4. \A c \in Callers :
          call[c].pc \in Looking /\ call[c].work \in Delayed =>
            call[c].cwq \in On[call[c].work] /\ wq_data'[call[c].work] # NULL
    BY <1>1, <1>10, <2>1, <2>2 DEF OnData
  <2>5. QED BY <1>6, <2>3, <2>4 DEF OnData
<1>15. MatchOK'
  <2> SUFFICES ASSUME NEW c \in Callers, call[c].pc \in Locked, call[c].work \in Steady,
                      wq_data'[call[c].work] = call[c].cwq
               PROVE  call[c].work \in Entries(worklist[call[c].cwq])
    BY <1>6 DEF MatchOK
  <2>1. call[c].work \in Works BY CallerIn DEF WqInv, Locked
  <2>2. CASE call[c].work # w BY <1>1, <1>10, <2>1, <2>2 DEF MatchOK
  <2>3. CASE call[c].work = w
    <3>1. /\ call[c].cwq \in On[w] /\ wq_data[w] # NULL /\ wq_data[w] \in On[w] \cup {NULL}
      BY <1>1, <1>4, <2>3 DEF OnData, Looking, Locked
    <3>2. wq_data[w] = call[c].cwq BY <1>4, <2>3, <3>1 DEF Steady
    <3>3. QED BY <1>1, <2>3, <3>2 DEF MatchOK
  <2>4. QED BY <2>2, <2>3
<1>16. QED BY <1>9, <1>12, <1>13, <1>14, <1>15 DEF TokenInv

(* A work is queued under cwq->lock. *)
LEMMA QueuedLooks ==
  ASSUME WqInv, TokenInv, NEW w \in Works, NEW p \in Cpus, __queue_work(w, p), p \in On[w],
         \A n \in Cpus : w \notin Entries(worklist[n]) /\ ~(wpc[n] = "clear" /\ current_work[n] = w),
         UNCHANGED <<wpc, current_work>>,
         \A d \in Callers : call'[d] = call[d] \/ call'[d].pc \notin Looking
  PROVE  /\ WorkOnce' /\ DataOK' /\ OnData' /\ LockExcl' /\ MatchOK'
         /\ \A v \in Works, n \in Cpus :
              v \in Entries(worklist'[n]) <=> v \in Entries(worklist[n]) \/ (v = w /\ n = p)
<1>1. WorkOnce /\ DataOK /\ OnData /\ LockExcl /\ MatchOK /\ CpuOK /\ RestOK /\ CallOK
  BY TypeParts DEF TokenInv, WqInv
<1>2. /\ wq_data'[w] = p /\ \A v \in Works : v # w => wq_data'[v] = wq_data[v]
      /\ worklist'[p] = list_add_tail(w, worklist[p])
      /\ \A n \in Cpus : n # p => worklist'[n] = worklist[n]
      /\ Unlocked(p)
  BY <1>1 DEF __queue_work, CpuOK, RestOK
<1>3. worklist[p] \in Seq(Items) /\ w \in Items BY <1>1 DEF CpuOK, Items
<1>4. Entries(worklist'[p]) = Entries(worklist[p]) \cup {w} BY <1>2, <1>3, ListAddTail
<1>5. \A v \in Works, n \in Cpus :
        v \in Entries(worklist'[n]) <=> v \in Entries(worklist[n]) \/ (v = w /\ n = p)
  BY <1>2, <1>4
<1>6. WorkOnce'
  <2>1. \A v \in Works : v # w => Once(worklist'[p], v) BY <1>1, <1>2, <1>3, OnceAddTail DEF WorkOnce
  <2>2. Once(worklist'[p], w)
    <3> DEFINE l == worklist[p]   m == list_add_tail(w, l)
    <3>1. /\ Len(m) = Len(l) + 1 /\ Len(l) \in Nat /\ \A i \in 1 .. Len(l) : m[i] = l[i]
      BY <1>3 DEF list_add_tail
    <3>2. \A i \in 1 .. Len(l) : l[i] # w BY DEF Entries
    <3> HIDE DEF m, l
    <3>3. \A i \in 1 .. Len(m) : m[i] = w => i = Len(l) + 1 BY <3>1, <3>2
    <3>4. Once(m, w) BY <3>3 DEF Once
    <3>5. QED BY <1>2, <3>4 DEF m, l
  <2>3. QED BY <1>1, <1>2, <2>1, <2>2 DEF WorkOnce
<1>7. DataOK' BY <1>1, <1>2, <1>5 DEF DataOK
<1>8. \A v \in Delayed : v \in Works BY WorkQueueAssumption
<1>9. p # NULL BY WorkQueueAssumption
<1>10. OnData' BY <1>1, <1>2, <1>8, <1>9 DEF OnData
<1>11. LockExcl' BY <1>1 DEF LockExcl, Looking, Locked
<1>12. MatchOK'
  <2> SUFFICES ASSUME NEW c \in Callers, call'[c].pc \in Locked, call'[c].work \in Steady,
                      wq_data'[call'[c].work] = call'[c].cwq
               PROVE  call'[c].work \in Entries(worklist'[call'[c].cwq])
    BY DEF MatchOK
  <2>1. call'[c] = call[c] BY DEF Looking, Locked
  <2>2. call[c].work \in Works /\ call[c].cwq \in Cpus
    BY <1>1, <2>1, CallerIn DEF Locked, GoodCall
  <2>3. call[c].cwq # p BY <1>2, <2>1 DEF Unlocked, Locked
  <2>4. call[c].work # w BY <1>2, <2>1, <2>3
  <2>5. QED BY <1>1, <1>2, <1>5, <2>1, <2>2, <2>4 DEF MatchOK
<1>13. QED BY <1>5, <1>6, <1>7, <1>10, <1>11, <1>12

LEMMA InsertToken ==
  ASSUME WqInv, TokenInv, NEW q \in queueing, Insert(q)
  PROVE  TokenInv'
<1>1. Token BY DEF TokenInv
<1>2. PICK w \in Works : w = q.work BY ContextFacts
<1>3. PICK p \in Cpus : p = q.cpu BY ContextFacts
<1>4. p \in On[w] BY <1>2, <1>3, ContextFacts
<1>5. /\ current_work' = current_work /\ wpc' = wpc /\ call' = call /\ pending' = pending
      /\ timer' = timer /\ queueing' = queueing \ {q} /\ __queue_work(w, p)
  BY <1>2, <1>3 DEF Insert, callVars
<1>6. \A n \in Cpus : w \notin Entries(worklist[n]) /\ ~(wpc[n] = "clear" /\ current_work[n] = w)
  BY <1>1, <1>2, OnePlace
<1>7. /\ WorkOnce' /\ DataOK' /\ OnData' /\ LockExcl' /\ MatchOK'
      /\ \A v \in Works, n \in Cpus :
           v \in Entries(worklist'[n]) <=> v \in Entries(worklist[n]) \/ (v = w /\ n = p)
  BY <1>4, <1>5, <1>6, QueuedLooks
<1>8. TokenMoves(w, "queueing", q, "list", p)
  BY <1>2, <1>5, <1>6, <1>7 DEF TokenMoves, At
<1>9. Token' BY <1>1, <1>5, <1>8, TokenMoved
<1>10. QED BY <1>7, <1>9 DEF TokenInv

-------------------------------------------------------------------------------
(* The workers. *)
LEMMA RunToken ==
  ASSUME WqInv, TokenInv, NEW p \in Cpus, run_workqueue(p)
  PROVE  TokenInv'
<1>1. Token /\ WorkOnce /\ DataOK /\ OnData /\ LockExcl /\ MatchOK BY DEF TokenInv
<1>2. CpuOK /\ CallOK /\ worklist[p] \in Seq(Items) BY TypeParts DEF WqInv, CpuOK
<1>3. /\ pending' = pending /\ wq_data' = wq_data /\ timer' = timer /\ queueing' = queueing
      /\ call' = call /\ Unlocked(p) /\ wpc[p] # "clear"
  BY DEF run_workqueue, workVars, callVars
<1>4. OnData' /\ LockExcl' BY <1>1, <1>3 DEF OnData, LockExcl
<1>5. CASE list_empty(worklist[p])
  <2>1. /\ worklist' = worklist /\ wpc'[p] = "prepare"
        /\ \A n \in Cpus : n # p => wpc'[n] = wpc[n] /\ current_work'[n] = current_work[n]
    BY <1>2, <1>5 DEF run_workqueue, CpuOK
  <2>2. TokenStays BY <1>3, <2>1 DEF TokenStays, At
  <2>3. Token' BY <1>1, <1>3, <2>2, TokenKept
  <2>4. WorkOnce' /\ DataOK' /\ MatchOK'
    BY <1>1, <1>3, <2>1 DEF WorkOnce, DataOK, MatchOK
  <2>5. QED BY <1>4, <2>3, <2>4 DEF TokenInv
<1>6. CASE ~list_empty(worklist[p])
  <2>1. PICK w \in Items : w = list_first_entry(worklist[p]) /\ w \in Entries(worklist[p])
    BY <1>2, <1>6, ListEmpty
  <2>2. /\ worklist'[p] = Tail(worklist[p]) /\ wpc'[p] = "clear" /\ current_work'[p] = w
        /\ \A n \in Cpus : n # p => /\ wpc'[n] = wpc[n] /\ current_work'[n] = current_work[n]
                                    /\ worklist'[n] = worklist[n]
    BY <1>2, <1>6, <2>1 DEF run_workqueue, CpuOK
  <2>3. \A v \in Works :
          /\ Once(worklist'[p], v)
          /\ v \in Entries(worklist'[p]) <=> v \in Entries(worklist[p]) /\ v # w
    <3> SUFFICES ASSUME NEW v \in Works
                 PROVE  /\ Once(worklist'[p], v)
                        /\ v \in Entries(worklist'[p]) <=> v \in Entries(worklist[p]) /\ v # w
      OBVIOUS
    <3>1. Once(worklist[p], v) BY <1>1 DEF WorkOnce
    <3>2. /\ Once(worklist'[p], v) /\ Entries(worklist'[p]) \subseteq Entries(worklist[p])
          /\ v = w => v \notin Entries(worklist'[p])
      BY <1>2, <1>6, <2>1, <2>2, <3>1, OnceTail
    <3>3. ASSUME v \in Entries(worklist[p]), v # w PROVE v \in Entries(worklist'[p])
      <4> DEFINE l == worklist[p]   d == Tail(l)
      <4>1. /\ Len(l) \in Nat /\ Len(d) = Len(l) - 1 /\ l[1] = w
            /\ \A j \in 1 .. (Len(l) - 1) : d[j] = l[j + 1]
        BY <1>2, <1>6, <2>1 DEF list_empty, list_first_entry
      <4>2. PICK i \in 1 .. Len(l) : l[i] = v BY <3>3 DEF Entries
      <4> HIDE DEF l, d
      <4>3. i - 1 \in 1 .. Len(d) /\ d[i - 1] = v BY <3>3, <4>1, <4>2
      <4>4. v \in Entries(d) BY <4>3 DEF Entries
      <4>5. QED BY <2>2, <4>4 DEF l, d
    <3>4. QED BY <3>2, <3>3
  <2>4. WorkOnce' BY <1>1, <2>2, <2>3 DEF WorkOnce
  <2>5. DataOK' BY <1>1, <1>3, <2>1, <2>2, <2>3 DEF DataOK
  <2>6. MatchOK'
    <3>1. \A c \in Callers : call[c].pc \in Locked =>
            call[c].cwq # p /\ call[c].cwq \in Cpus
      BY <1>2, <1>3, CallerIn DEF Unlocked, Locked, GoodCall
    <3>2. QED BY <1>1, <1>3, <2>2, <3>1 DEF MatchOK
  <2>7. Token'
    <3>1. CASE w \in Works
      <4>1. TokenMoves(w, "list", p, "taken", p)
        BY <1>3, <2>1, <2>2, <2>3 DEF TokenMoves, At
      <4>2. QED BY <1>1, <1>3, <3>1, <4>1, TokenMoved
    <3>2. CASE w \notin Works
      <4>1. TokenStays BY <1>3, <2>2, <2>3, <3>2 DEF TokenStays, At
      <4>2. QED BY <1>1, <1>3, <4>1, TokenKept
    <3>3. QED BY <3>1, <3>2
  <2>8. QED BY <1>4, <2>4, <2>5, <2>6, <2>7 DEF TokenInv
<1>7. QED BY <1>5, <1>6

LEMMA ClearToken ==
  ASSUME WqInv, TokenInv, NEW p \in Cpus, work_clear_pending(p)
  PROVE  TokenInv'
<1>1. Token /\ WorkOnce /\ DataOK /\ OnData /\ LockExcl /\ MatchOK BY DEF TokenInv
<1>2. CpuOK /\ pending \subseteq Works BY TypeParts DEF WqInv, TypeOK
<1>3. PICK w : w = current_work[p] OBVIOUS
<1>4. /\ worklist' = worklist /\ current_work' = current_work /\ wq_data' = wq_data
      /\ timer' = timer /\ queueing' = queueing /\ call' = call
      /\ wpc[p] = "clear" /\ wpc'[p] = "run" /\ pending' = pending \ {w}
      /\ \A n \in Cpus : n # p => wpc'[n] = wpc[n]
  BY <1>2, <1>3 DEF work_clear_pending, cwqVars, callVars, CpuOK
<1>5. WorkOnce' /\ DataOK' /\ OnData' /\ LockExcl' /\ MatchOK'
  BY <1>1, <1>4 DEF WorkOnce, DataOK, OnData, LockExcl, MatchOK
<1>6. CASE w \in Works
  <2>1. TokenGoes(w, "taken", p) BY <1>3, <1>4 DEF TokenGoes, At
  <2>2. Token' BY <1>1, <1>4, <1>6, <2>1, TokenGone
  <2>3. QED BY <1>5, <2>2 DEF TokenInv
<1>7. CASE w \notin Works
  <2>1. TokenStays BY <1>3, <1>4, <1>7 DEF TokenStays, At
  <2>2. \A v \in Works : v \in pending' <=> v \in pending BY <1>4, <1>7
  <2>3. Token' BY <1>1, <2>1, <2>2, TokenKept
  <2>4. QED BY <1>5, <2>3 DEF TokenInv
<1>8. QED BY <1>6, <1>7

LEMMA WorkerToken ==
  ASSUME WqInv, TokenInv, NEW p \in Cpus, Worker(p)
  PROVE  TokenInv'
<1>1. Token /\ WorkOnce /\ DataOK /\ OnData /\ LockExcl /\ MatchOK BY DEF TokenInv
<1>2. CpuOK BY TypeParts DEF WqInv
<1>3. CASE prepare_to_wait(p) \/ WorkerTest(p) \/ finish_wait(p) \/ CallFunc(p)
  <2>1. /\ worklist' = worklist /\ current_work' = current_work /\ wq_data' = wq_data
        /\ timer' = timer /\ queueing' = queueing /\ call' = call /\ pending' = pending
    BY <1>3 DEF prepare_to_wait, WorkerTest, finish_wait, CallFunc, cwqVars, workVars, callVars
  <2>2. wpc[p] # "clear" /\ wpc'[p] # "clear" /\ \A n \in Cpus : n # p => wpc'[n] = wpc[n]
    BY <1>2, <1>3 DEF prepare_to_wait, WorkerTest, finish_wait, CallFunc, CpuOK
  <2>3. WorkOnce' /\ DataOK' /\ OnData' /\ LockExcl' /\ MatchOK'
    BY <1>1, <2>1, <2>2 DEF WorkOnce, DataOK, OnData, LockExcl, MatchOK
  <2>4. TokenStays BY <2>1, <2>2 DEF TokenStays, At
  <2>5. Token' BY <1>1, <2>1, <2>4, TokenKept
  <2>6. QED BY <2>3, <2>5 DEF TokenInv
<1>4. QED BY <1>3, RunToken, ClearToken DEF Worker

(* A new work queue: nothing was left on the lists of the old one. *)
LEMMA CreateToken ==
  ASSUME WqInv, DestroyInv, TokenInv, create_workqueue
  PROVE  TokenInv'
<1>1. Token BY DEF TokenInv
<1>2. \A p \in Cpus : Entries(worklist[p]) = {} /\ wpc[p] = "exit"
  <2>1. CpuOK BY TypeParts DEF WqInv
  <2>2. QED BY <2>1, ListEmpty DEF create_workqueue, DestroyInv, Stopped, CpuOK
<1>3. /\ pending' = pending /\ timer' = timer /\ queueing' = queueing /\ call' = call
      /\ \A c \in Callers : call[c].pc = "idle"
      /\ \A w \in Works : wq_data'[w] = NULL
      /\ \A p \in Cpus : worklist'[p] = << >> /\ wpc'[p] = "prepare"
  BY DEF create_workqueue, callVars, Idle
<1>4. \A p \in Cpus : Entries(worklist'[p]) = {} /\ Len(worklist'[p]) = 0 BY <1>3 DEF Entries
<1>5. TokenStays BY <1>2, <1>3, <1>4 DEF TokenStays, At
<1>6. Token' BY <1>1, <1>3, <1>5, TokenKept
<1>7. WorkOnce' BY <1>4 DEF WorkOnce, Once
<1>8. DataOK' BY <1>3, <1>4 DEF DataOK
<1>9. OnData' BY <1>3, WorkQueueAssumption DEF OnData, Looking
<1>10. LockExcl' /\ MatchOK' BY <1>3 DEF LockExcl, MatchOK, Locked
<1>11. QED BY <1>6, <1>7, <1>8, <1>9, <1>10 DEF TokenInv

-------------------------------------------------------------------------------
(* The callers. *)
LEMMA CallerSteps ==
  ASSUME WqInv, NEW c \in Callers, Caller(c)
  PROVE  CallStep(c)
<1>1. TypeOK /\ CallOK BY DEF WqInv
<1>2. [Next]_vars BY DEF Next
<1>3. CallOK' BY <1>2, WqStep DEF WqInv
<1>4. QED BY <1>1, <1>3, CallerMoves DEF CallStep, CallOK

(* Going from CPU to CPU keeps the pending bit. *)
LEMMA NextCpuOwns ==
  ASSUME NEW r \in Records, r.op \in CpuLoops \cup Cancels, r.pc \in {"wq", "lock", "wait", "exited"},
         r.op \in CpuLoops => r.pc # "wq", r.op \in Cancels => r.pc # "exited"
  PROVE  /\ \A v \in Works : OwnsBit(NextCpu(r), v) <=> OwnsBit(r, v)
         /\ NextCpu(r).pc \notin Looking
         /\ r.op \in CpuLoops =>
              /\ \A v \in Works : OwnsBit(CpuFlushed(r), v) <=> OwnsBit(r, v)
              /\ CpuFlushed(r).pc \notin Looking
<1> DEFINE Same(s) == (\A v \in Works : OwnsBit(s, v) <=> OwnsBit(r, v)) /\ s.pc \notin Looking
<1>1. r.ret \in {-1, 0, 1} BY DEF Records
<1>2. ASSUME NEW s, s.op = r.op, s.work = r.work, s.ret = r.ret, s.pc \in {"lock", "clear"},
             r.op \in CpuLoops => s.pc = "lock", r.op \in CpuLoops => r.pc # "wq",
             r.op \in Cancels => r.pc # "exited"
      PROVE  Same(s)
  <2>1. s.pc \notin Looking BY <1>2 DEF Looking
  <2>2. \A v \in Works : OwnsBit(s, v) <=> OwnsBit(r, v) BY <1>2 DEF OwnsBit
  <2>3. QED BY <2>1, <2>2
<1>3. ASSUME NEW s, s.op = r.op, s.pc \in {"return", "stop", "grab", "del_timer"},
             r.op \in CpuLoops \/ ~(r.ret >= 0)
      PROVE  Same(s)
  <2>1. s.pc \notin Looking BY <1>3 DEF Looking
  <2>2. \A v \in Works : ~OwnsBit(s, v) /\ ~OwnsBit(r, v) BY <1>3 DEF OwnsBit
  <2>3. QED BY <2>1, <2>2
<1> HIDE DEF Same
<1>4. Same(NextCpu(r))
  <2>1. CASE r.cpu < LastCpu
    <3> DEFINE s == [r EXCEPT !.cpu = r.cpu + 1, !.pc = CpuEntry(r.op)]
    <3>1. s.pc = "lock" /\ s.op = r.op /\ s.work = r.work /\ s.ret = r.ret
      BY DEF CpuEntry, Records
    <3>2. NextCpu(r) = s BY <2>1 DEF NextCpu
    <3> HIDE DEF s
    <3>3. QED BY <1>2, <3>1, <3>2
  <2>2. CASE ~(r.cpu < LastCpu) /\ r.op \in CpuLoops
    <3> DEFINE s == [r EXCEPT !.pc = "return"]
    <3>1. s.pc = "return" /\ s.op = r.op BY DEF Records
    <3>2. NextCpu(r) = s BY <2>2 DEF NextCpu
    <3> HIDE DEF s
    <3>3. QED BY <1>3, <2>2, <3>1, <3>2
  <2>3. CASE ~(r.cpu < LastCpu) /\ r.op \in Cancels /\ r.ret < 0
    <3> DEFINE s == [r EXCEPT !.pc = CancelStart(r.op), !.cpu = 0, !.cwq = NULL, !.ret = 0]
    <3>1. s.pc \in {"grab", "del_timer"} /\ s.op = r.op BY DEF Records, CancelStart
    <3>2. NextCpu(r) = s BY <2>3 DEF NextCpu
    <3> HIDE DEF s
    <3>3. ~(r.ret >= 0) BY <1>1, <2>3
    <3>4. QED BY <1>3, <3>1, <3>2, <3>3
  <2>4. CASE ~(r.cpu < LastCpu) /\ r.op \in Cancels /\ ~(r.ret < 0)
    <3> DEFINE s == [r EXCEPT !.pc = "clear", !.cpu = 0, !.cwq = NULL]
    <3>1. s.pc = "clear" /\ s.op = r.op /\ s.work = r.work /\ s.ret = r.ret BY DEF Records
    <3>2. NextCpu(r) = s BY <2>4 DEF NextCpu
    <3> HIDE DEF s
    <3>3. QED BY <1>2, <2>4, <3>1, <3>2
  <2>5. QED BY <2>1, <2>2, <2>3, <2>4
<1>5. ASSUME r.op \in CpuLoops PROVE Same(CpuFlushed(r))
  <2> DEFINE s == [r EXCEPT !.pc = "stop"]
  <2>1. s.pc = "stop" /\ s.op = r.op BY DEF Records
  <2> HIDE DEF s
  <2>2. CpuFlushed(r) = s \/ CpuFlushed(r) = NextCpu(r) BY DEF CpuFlushed, s
  <2>3. QED BY <1>3, <1>4, <1>5, <2>1, <2>2
<1>6. QED BY <1>4, <1>5 DEF Same

(* A call that goes on to pc without touching the pending bit. *)
LEMMA GotoOwns ==
  ASSUME NEW r \in Records, NEW pc \in CallPcs,
         pc \in {"wait", "clear", "wq", "lock"} <=> r.pc \in {"wait", "clear", "wq", "lock"},
         r.op \notin Unarms, r.pc # "requeue", pc # "requeue"
  PROVE  /\ \A v \in Works : OwnsBit([r EXCEPT !.pc = pc], v) <=> OwnsBit(r, v)
         /\ [r EXCEPT !.pc = pc].pc = pc
<1> DEFINE s == [r EXCEPT !.pc = pc]
<1>1. s.pc = pc /\ s.op = r.op /\ s.work = r.work /\ s.ret = r.ret BY DEF Records
<1> HIDE DEF s
<1>2. \A v \in Works : OwnsBit(s, v) <=> OwnsBit(r, v) BY <1>1 DEF OwnsBit
<1>3. QED BY <1>1, <1>2 DEF s

LEMMA CpuLoopToken ==
  ASSUME WqInv, TokenInv, NEW c \in Callers,
         \/ flush_cpu_workqueue(c) \/ wait_for_completion(c) \/ kthread_stop(c)
         \/ ThreadExited(c) \/ Return(c)
  PROVE  TokenInv'
<1>1. TypeOK /\ CallOK /\ CpuOK /\ call \in [Callers -> Records] BY TypeParts DEF WqInv
<1>2. CallStep(c) BY CallerSteps DEF Caller
<1>3. PICK r \in Records : r = call[c] BY <1>1
<1>4. GoodCall(r) /\ r.pc \in PcsOf(r.op) BY <1>1, <1>3, CallerIn
<1>5. ASSUME NEW s, call' = [call EXCEPT ![c] = s], s.pc \notin Looking,
             \A v \in Works : OwnsBit(s, v) <=> OwnsBit(r, v),
             UNCHANGED <<worklist, current_work, wpc, workVars>>
      PROVE  TokenInv'
  <2>1. call'[c] = s BY <1>1, <1>5
  <2>2. QED BY <1>2, <1>3, <1>5, <2>1, QuietCall DEF Looking, Locked
<1>6. CASE flush_cpu_workqueue(c)
  <2>1. PICK p : p = r.cpu OBVIOUS
  <2>2. /\ r.pc = "lock" /\ r.op \in CpuLoops /\ p \in Cpus
        /\ UNCHANGED <<current_work, wpc, workVars>>
    BY <1>3, <1>4, <1>6, <2>1 DEF flush_cpu_workqueue, GoodCall
  <2>3. CASE call' = [call EXCEPT ![c] = CpuFlushed(r)] /\ worklist' = worklist
    BY <1>5, <2>2, <2>3, NextCpuOwns
  <2>4. CASE insert_wq_barrier(c, p, p, Len(worklist[p]) + 1)
    <3> DEFINE s == [r EXCEPT !.pc = "wait"]
    <3>1. s.pc = "wait" /\ \A v \in Works : OwnsBit(s, v) <=> OwnsBit(r, v)
      BY <2>2, GotoOwns DEF CallPcs
    <3> HIDE DEF s
    <3>2. call'[c] = s BY <1>1, <1>3, <2>4 DEF insert_wq_barrier, Goto, s
    <3>3. Len(worklist[p]) + 1 \in 1 .. Len(worklist[p]) + 1 BY <1>1, <2>2 DEF CpuOK
    <3>4. QED BY <1>2, <1>3, <2>2, <2>4, <3>1, <3>2, <3>3, BarrierCall
  <2>5. QED BY <1>3, <1>6, <2>1, <2>3, <2>4 DEF flush_cpu_workqueue
<1>7. CASE wait_for_completion(c)
  <2>1. /\ r.pc = "wait" /\ r.op \in Flushes \cup CpuLoops \cup Cancels
        /\ UNCHANGED <<worklist, current_work, wpc, workVars>>
    BY <1>1, <1>3, <1>7, CallerIn DEF wait_for_completion, cwqVars, workerVars
  <2>2. CASE r.op \in Flushes
    <3> DEFINE s == [r EXCEPT !.pc = "return"]
    <3>1. s.pc = "return" /\ s.op = r.op BY DEF Records
    <3>2. call' = [call EXCEPT ![c] = s] BY <1>3, <1>7, <2>2 DEF wait_for_completion
    <3> HIDE DEF s
    <3>3. \A v \in Works : OwnsBit(s, v) <=> OwnsBit(r, v) BY <2>1, <2>2, <3>1 DEF OwnsBit
    <3>4. QED BY <1>5, <2>1, <3>1, <3>2, <3>3 DEF Looking
  <2>3. CASE r.op \in CpuLoops
    <3>1. call' = [call EXCEPT ![c] = CpuFlushed(r)] BY <1>3, <1>7, <2>3 DEF wait_for_completion
    <3>2. QED BY <1>5, <2>1, <2>3, <3>1, NextCpuOwns
  <2>4. CASE r.op \in Cancels
    <3>1. call' = [call EXCEPT ![c] = NextCpu(r)] BY <1>3, <1>7, <2>4 DEF wait_for_completion
    <3>2. QED BY <1>5, <2>1, <2>4, <3>1, NextCpuOwns
  <2>5. QED BY <2>1, <2>2, <2>3, <2>4
<1>8. CASE kthread_stop(c)
  <2>1. /\ r.pc = "stop" /\ r.op = "destroy_workqueue"
        /\ UNCHANGED <<worklist, current_work, wpc, workVars>>
    BY <1>1, <1>3, <1>8, CallerIn DEF kthread_stop, cwqVars
  <2> DEFINE s == [r EXCEPT !.pc = "exited"]
  <2>2. s.pc = "exited" /\ \A v \in Works : OwnsBit(s, v) <=> OwnsBit(r, v)
    BY <2>1, GotoOwns DEF CallPcs
  <2>3. call' = [call EXCEPT ![c] = s] BY <1>3, <1>8 DEF kthread_stop, Goto
  <2> HIDE DEF s
  <2>4. QED BY <1>5, <2>1, <2>2, <2>3 DEF Looking
<1>9. CASE ThreadExited(c)
  <2>1. /\ r.pc = "exited" /\ r.op = "destroy_workqueue"
        /\ UNCHANGED <<worklist, current_work, wpc, workVars>>
    BY <1>1, <1>3, <1>9, CallerIn DEF ThreadExited, cwqVars, workerVars
  <2>2. call' = [call EXCEPT ![c] = NextCpu(r)] BY <1>3, <1>9 DEF ThreadExited
  <2>3. QED BY <1>5, <2>1, <2>2, NextCpuOwns
<1>10. CASE Return(c)
  <2>1. /\ r.pc = "return" /\ call' = [call EXCEPT ![c] = Idle]
        /\ UNCHANGED <<worklist, current_work, wpc, workVars>>
    BY <1>3, <1>10 DEF Return, cwqVars, workerVars
  <2>2. Idle.pc = "idle" BY DEF Idle
  <2>3. \A v \in Works : OwnsBit(Idle, v) <=> OwnsBit(r, v) BY <2>1, <2>2 DEF OwnsBit
  <2>4. QED BY <1>5, <2>1, <2>2, <2>3 DEF Looking
<1>11. QED BY <1>6, <1>7, <1>8, <1>9, <1>10


-------------------------------------------------------------------------------
(* flush_work(), flush_delayed_work() and the timer. *)
LEMMA GotoFields ==
  ASSUME TypeOK, NEW c \in Callers, NEW pc, Goto(c, pc)
  PROVE  /\ call'[c].pc = pc /\ call'[c].op = call[c].op /\ call'[c].work = call[c].work
         /\ call'[c].cwq = call[c].cwq /\ call'[c].cpu = call[c].cpu /\ call'[c].ret = call[c].ret
BY TypeParts DEF Goto, Records

LEMMA NotOwner ==
  ASSUME NEW r, r.pc # "requeue", r.op \in Unarms => r.pc # "clear",
         r.op \in Cancels => ~(r.ret >= 0) \/ r.pc \notin {"wq", "lock", "wait", "clear"}
  PROVE  \A v \in Works : ~OwnsBit(r, v)
BY DEF OwnsBit

LEMMA FlushReadsToken ==
  ASSUME WqInv, TokenInv, NEW c \in Callers, FlushReads(c)
  PROVE  TokenInv'
<1>1. TypeOK /\ CallOK /\ RestOK /\ call \in [Callers -> Records] /\ OnData
  BY TypeParts DEF WqInv, TokenInv
<1>2. CallStep(c) BY CallerSteps DEF Caller
<1>3. PICK r \in Records : r = call[c] BY <1>1
<1>4. /\ r.pc = "fw" /\ r.op \in Flushes /\ r.work \in Works
      /\ UNCHANGED <<worklist, current_work, wpc, workVars>>
  BY <1>1, <1>3, CallerIn DEF FlushReads, cwqVars, workerVars
<1>5. PICK p : p = wq_data[r.work] OBVIOUS
<1>6. \A v \in Works : ~OwnsBit(call[c], v) BY <1>3, <1>4, NotOwner
<1>7. CASE p = NULL
  <2> DEFINE s == [r EXCEPT !.pc = "return"]
  <2>1. s.pc = "return" /\ s.op = r.op BY DEF Records
  <2>2. call'[c] = s BY <1>1, <1>3, <1>5, <1>7 DEF FlushReads
  <2> HIDE DEF s
  <2>3. \A v \in Works : ~OwnsBit(call'[c], v) BY <1>4, <2>1, <2>2, NotOwner
  <2>4. QED BY <1>2, <1>4, <1>6, <2>1, <2>2, <2>3, QuietCall DEF Looking, Locked
<1>8. CASE p # NULL
  <2> DEFINE s == [r EXCEPT !.pc = "fw_lock", !.cwq = p]
  <2>1. s.pc = "fw_lock" /\ s.op = r.op /\ s.cwq = p /\ s.work = r.work BY DEF Records
  <2>2. call'[c] = s BY <1>1, <1>3, <1>5, <1>8 DEF FlushReads
  <2> HIDE DEF s
  <2>3. \A v \in Works : ~OwnsBit(call'[c], v) BY <1>4, <2>1, <2>2, NotOwner
  <2>4. s.work \in Delayed => s.cwq \in On[s.work] /\ wq_data[s.work] # NULL
    BY <1>1, <1>5, <1>8, <2>1 DEF OnData
  <2>5. QED BY <1>2, <1>4, <1>6, <2>1, <2>2, <2>3, <2>4, QuietCall DEF Locked
<1>9. QED BY <1>7, <1>8

(* A work that is on some list is on the one that work->data names. *)
LEMMA LinkedThere ==
  ASSUME DataOK, NEW w \in Works, Linked(w)
  PROVE  wq_data[w] \in Cpus /\ w \in Entries(worklist[wq_data[w]])
BY DEF DataOK, Linked

LEMMA FlushLooksToken ==
  ASSUME WqInv, TokenInv, NEW c \in Callers, FlushLooks(c)
  PROVE  TokenInv'
<1>1. TypeOK /\ CallOK /\ CpuOK /\ OnData /\ DataOK BY TypeParts DEF WqInv, TokenInv
<1>2. CallStep(c) BY CallerSteps DEF Caller
<1>3. PICK r : r = call[c] OBVIOUS
<1>4. /\ r.pc = "fw_lock" /\ r.op \in Flushes /\ r.work \in Works /\ r.cwq \in Cpus
      /\ UNCHANGED <<current_work, wpc, workVars>> /\ Unlocked(r.cwq)
  BY <1>1, <1>3, CallerIn DEF FlushLooks, GoodCall
<1>5. PICK p \in Cpus : p = r.cwq BY <1>4
<1>6. \A v \in Works : ~OwnsBit(call[c], v) BY <1>3, <1>4, NotOwner
<1>7. ASSUME NEW pc \in {"fw_match", "wait", "return"}, Goto(c, pc)
      PROVE  \A v \in Works : OwnsBit(call'[c], v) <=> OwnsBit(call[c], v)
  <2>1. call'[c].pc = pc /\ call'[c].op = r.op BY <1>1, <1>3, <1>7, GotoFields
  <2>2. \A v \in Works : ~OwnsBit(call'[c], v) BY <1>4, <1>7, <2>1, NotOwner
  <2>3. QED BY <1>6, <2>2
<1>8. CASE Linked(r.work) /\ Goto(c, "fw_match") /\ UNCHANGED worklist
  <2>1. /\ call'[c].pc = "fw_match" /\ call'[c].op = r.op /\ call'[c].work = r.work
        /\ call'[c].cwq = r.cwq
    BY <1>1, <1>3, <1>8, GotoFields
  <2>2. r.work \in Delayed => r.cwq \in On[r.work] /\ wq_data[r.work] # NULL
    BY <1>1, <1>3, <1>4 DEF OnData, Looking
  <2>3. wq_data[r.work] = r.cwq => r.work \in Entries(worklist[r.cwq])
    BY <1>1, <1>4, <1>8, LinkedThere
  <2>4. QED BY <1>2, <1>4, <1>7, <1>8, <2>1, <2>2, <2>3, QuietCall
<1>9. CASE insert_wq_barrier(c, p, p, 1)
  <2>1. Goto(c, "wait") BY <1>9 DEF insert_wq_barrier
  <2>2. call'[c].pc = "wait" BY <1>1, <2>1, GotoFields
  <2>3. 1 \in 1 .. Len(worklist[p]) + 1 BY <1>1 DEF CpuOK
  <2>4. QED BY <1>2, <1>4, <1>7, <1>9, <2>1, <2>2, <2>3, BarrierCall
<1>10. CASE Goto(c, "return") /\ UNCHANGED worklist
  <2>1. call'[c].pc = "return" BY <1>1, <1>10, GotoFields
  <2>2. QED BY <1>2, <1>4, <1>7, <1>10, <2>1, QuietCall DEF Looking, Locked
<1>11. QED BY <1>3, <1>5, <1>8, <1>9, <1>10 DEF FlushLooks

LEMMA FlushMatchesToken ==
  ASSUME WqInv, TokenInv, NEW c \in Callers, FlushMatches(c)
  PROVE  TokenInv'
<1>1. TypeOK /\ CallOK /\ CpuOK BY TypeParts DEF WqInv
<1>2. CallStep(c) BY CallerSteps DEF Caller
<1>3. PICK r : r = call[c] OBVIOUS
<1>4. /\ r.pc = "fw_match" /\ r.op \in Flushes /\ UNCHANGED <<current_work, wpc, workVars>>
  BY <1>1, <1>3, CallerIn DEF FlushMatches
<1>5. PICK p : p = r.cwq OBVIOUS
<1>6. \A v \in Works : ~OwnsBit(call[c], v) BY <1>3, <1>4, NotOwner
<1>7. ASSUME NEW pc \in {"wait", "return"}, Goto(c, pc)
      PROVE  /\ call'[c].pc = pc
             /\ \A v \in Works : OwnsBit(call'[c], v) <=> OwnsBit(call[c], v)
  <2>1. call'[c].pc = pc /\ call'[c].op = r.op BY <1>1, <1>3, <1>7, GotoFields
  <2>2. \A v \in Works : ~OwnsBit(call'[c], v) BY <1>4, <1>7, <2>1, NotOwner
  <2>3. QED BY <1>6, <2>1, <2>2
<1>8. CASE (Goto(c, "wait") \/ Goto(c, "return")) /\ UNCHANGED worklist
  BY <1>2, <1>4, <1>7, <1>8, QuietCall DEF Looking, Locked
<1>9. CASE \E q \in Cpus : /\ r.work \in Entries(worklist[q])
                           /\ insert_wq_barrier(c, p, q, Position(worklist[q], r.work) + 1)
  <2>1. PICK q \in Cpus : /\ r.work \in Entries(worklist[q])
                          /\ insert_wq_barrier(c, p, q, Position(worklist[q], r.work) + 1)
    BY <1>9
  <2>2. worklist[q] \in Seq(Items) BY <1>1 DEF CpuOK
  <2>3. Position(worklist[q], r.work) \in 1 .. Len(worklist[q])
    BY <2>1 DEF Entries, Position
  <2>4. Position(worklist[q], r.work) + 1 \in 1 .. Len(worklist[q]) + 1 BY <2>2, <2>3
  <2>5. Goto(c, "wait") BY <2>1 DEF insert_wq_barrier
  <2>6. QED BY <1>2, <1>4, <1>7, <2>1, <2>4, <2>5, BarrierCall
<1>10. QED BY <1>3, <1>5, <1>8, <1>9 DEF FlushMatches

(* The token goes to or from a caller; the lists and the workers stay. *)
LEMMA OwnerCall ==
  ASSUME WqInv, TokenInv, NEW c \in Callers, CallStep(c),
         UNCHANGED <<worklist, current_work, wpc, wq_data>>, call'[c].pc \notin Looking, Token'
  PROVE  TokenInv'
<1>1. WorkOnce /\ DataOK BY DEF TokenInv
<1>2. OnData' /\ LockExcl' /\ MatchOK' BY LooksKept DEF Looking, Locked
<1>3. WorkOnce' /\ DataOK' BY <1>1 DEF WorkOnce, DataOK
<1>4. QED BY <1>2, <1>3 DEF TokenInv

(* The callers of which one takes or lets go the token of w. *)
LEMMA OwnersNow ==
  ASSUME TypeOK, CallOK, NEW c \in Callers, CallStep(c), NEW w \in Works
  PROVE  /\ (/\ \A v \in Works : ~OwnsBit(call[c], v)
             /\ \A v \in Works : OwnsBit(call'[c], v) <=> v = w) =>
              \A v \in Works, d \in Callers :
                OwnsBit(call'[d], v) <=> OwnsBit(call[d], v) \/ (v = w /\ d = c)
         /\ (/\ \A v \in Works : ~OwnsBit(call'[c], v)
             /\ \A v \in Works : OwnsBit(call[c], v) <=> v = w) =>
              \A v \in Works, d \in Callers :
                OwnsBit(call'[d], v) <=> OwnsBit(call[d], v) /\ ~(v = w /\ d = c)
<1>1. \A d \in Callers : d # c => call'[d] = call[d] BY CallFrame
<1>2. QED BY <1>1

LEMMA DelTimerToken ==
  ASSUME WqInv, TokenInv, NEW c \in Callers, DelTimer(c)
  PROVE  TokenInv'
<1>1. TypeOK /\ CallOK /\ Token /\ call \in [Callers -> Records] BY TypeParts DEF WqInv, TokenInv
<1>2. CallStep(c) BY CallerSteps DEF Caller
<1>3. PICK r \in Records : r = call[c] BY <1>1
<1>4. /\ r.pc = "del_timer" /\ r.op \in Cancels \cup Unarms \cup Flushes /\ r.work \in Works
      /\ worklist' = worklist /\ current_work' = current_work /\ wpc' = wpc
      /\ wq_data' = wq_data /\ pending' = pending /\ queueing' = queueing
  BY <1>1, <1>3, CallerIn DEF DelTimer, cwqVars, workerVars
<1>5. PICK w \in Works : w = r.work BY <1>4
<1>6. \A v \in Works : ~OwnsBit(call[c], v) BY <1>3, <1>4, NotOwner
<1>7. CASE w \in timer
  <2>1. /\ timer' = timer \ {w}
        /\ call' = [call EXCEPT ![c] =
             CASE r.op \in Cancels -> [r EXCEPT !.ret = 1, !.pc = "wq"]
               [] r.op \in Unarms -> [r EXCEPT !.pc = "clear"]
               [] r.op \in Flushes -> [r EXCEPT !.pc = "requeue"]]
    BY <1>3, <1>5, <1>7 DEF DelTimer
  <2>2. PICK s : s = call'[c] OBVIOUS
  <2>3. /\ s.op = r.op /\ s.work = w
        /\ r.op \in Cancels => s.ret = 1 /\ s.pc = "wq"
        /\ r.op \in Unarms => s.pc = "clear"
        /\ r.op \in Flushes => s.pc = "requeue"
    <3>1. CASE r.op \in Cancels
      <4>1. s = [r EXCEPT !.ret = 1, !.pc = "wq"] BY <1>1, <2>1, <2>2, <3>1
      <4>2. QED BY <1>5, <3>1, <4>1 DEF Records
    <3>2. CASE r.op \in Unarms
      <4>1. s = [r EXCEPT !.pc = "clear"] BY <1>1, <2>1, <2>2, <3>2
      <4>2. QED BY <1>5, <3>2, <4>1 DEF Records
    <3>3. CASE r.op \in Flushes
      <4>1. s = [r EXCEPT !.pc = "requeue"] BY <1>1, <2>1, <2>2, <3>3
      <4>2. QED BY <1>5, <3>3, <4>1 DEF Records
    <3>4. QED BY <1>4, <3>1, <3>2, <3>3
  <2>4. \A v \in Works : OwnsBit(s, v) <=> v = w BY <1>4, <2>3 DEF OwnsBit
  <2>5. s.pc \notin Looking BY <1>4, <2>3 DEF Looking
  <2>6. \A v \in Works, d \in Callers :
          OwnsBit(call'[d], v) <=> OwnsBit(call[d], v) \/ (v = w /\ d = c)
    BY <1>1, <1>2, <1>6, <2>2, <2>4, OwnersNow
  <2>7. TokenMoves(w, "timer", w, "owned", c) BY <1>4, <1>7, <2>1, <2>6 DEF TokenMoves, At
  <2>8. Token' BY <1>1, <1>4, <2>7, TokenMoved
  <2>9. QED BY <1>2, <1>4, <2>2, <2>5, <2>8, OwnerCall
<1>8. CASE w \notin timer
  <2>1. /\ timer' = timer
        /\ Goto(c, CASE r.op \in Cancels -> "grab" [] r.op \in Unarms -> "return"
                     [] r.op \in Flushes -> "fw")
    BY <1>3, <1>5, <1>8 DEF DelTimer
  <2>2. PICK pc \in {"grab", "return", "fw"} : Goto(c, pc) BY <1>4, <2>1
  <2>3. call'[c].pc = pc BY <1>1, <2>2, GotoFields
  <2>4. \A v \in Works : ~OwnsBit(call'[c], v) BY <2>3, NotOwner
  <2>5. QED BY <1>2, <1>4, <1>6, <2>1, <2>3, <2>4, QuietCall DEF Looking, Locked, workVars
<1>9. QED BY <1>7, <1>8

LEMMA FlushRequeuesToken ==
  ASSUME WqInv, TokenInv, NEW c \in Callers, FlushRequeues(c)
  PROVE  TokenInv'
<1>1. TypeOK /\ CallOK /\ Token BY DEF WqInv, TokenInv
<1>2. CallStep(c) BY CallerSteps DEF Caller
<1>3. call[c].pc = "requeue" /\ call[c].op \in Flushes /\ call[c].work \in Works
  BY <1>1, CallerIn DEF FlushRequeues
<1>4. PICK w \in Works : w = call[c].work BY <1>3
<1>5. PICK p \in On[w] : __queue_work(w, p) BY <1>4 DEF FlushRequeues
<1>6. p \in Cpus BY WorkQueueAssumption
<1>7. /\ Goto(c, "fw") /\ current_work' = current_work /\ wpc' = wpc /\ pending' = pending
      /\ timer' = timer /\ queueing' = queueing
  BY DEF FlushRequeues
<1>8. call'[c].pc = "fw" BY <1>1, <1>7, GotoFields
<1>9. /\ \A v \in Works : ~OwnsBit(call'[c], v)
      /\ \A v \in Works : OwnsBit(call[c], v) <=> v = w
  <2>1. \A v \in Works : ~OwnsBit(call'[c], v) BY <1>8, NotOwner
  <2>2. QED BY <1>3, <1>4, <2>1 DEF OwnsBit
<1>10. \A n \in Cpus : w \notin Entries(worklist[n]) /\ ~(wpc[n] = "clear" /\ current_work[n] = w)
  BY <1>1, <1>9, OnePlace
<1>11. \A d \in Callers : call'[d] = call[d] \/ call'[d].pc \notin Looking
  <2>1. \A d \in Callers : d # c => call'[d] = call[d] BY <1>1, <1>2, CallFrame
  <2>2. QED BY <1>8, <2>1 DEF Looking
<1>12. /\ WorkOnce' /\ DataOK' /\ OnData' /\ LockExcl' /\ MatchOK'
       /\ \A v \in Works, n \in Cpus :
            v \in Entries(worklist'[n]) <=> v \in Entries(worklist[n]) \/ (v = w /\ n = p)
  BY <1>5, <1>6, <1>7, <1>10, <1>11, QueuedLooks
<1>13. \A v \in Works, d \in Callers :
         OwnsBit(call'[d], v) <=> OwnsBit(call[d], v) /\ ~(v = w /\ d = c)
  BY <1>1, <1>2, <1>9, OwnersNow
<1>14. TokenMoves(w, "owned", c, "list", p)
  BY <1>6, <1>7, <1>9, <1>12, <1>13 DEF TokenMoves, At
<1>15. Token' BY <1>1, <1>7, <1>14, TokenMoved
<1>16. QED BY <1>12, <1>15 DEF TokenInv

-------------------------------------------------------------------------------
(* __cancel_work_timer() and try_to_grab_pending(). *)
LEMMA GrabBitToken ==
  ASSUME WqInv, TokenInv, NEW c \in Callers, GrabBit(c)
  PROVE  TokenInv'
<1>1. TypeOK /\ CallOK /\ Token BY DEF WqInv, TokenInv
<1>2. CallStep(c) BY CallerSteps DEF Caller
<1>3. PICK r : r = call[c] OBVIOUS
<1>4. /\ r.pc = "grab" /\ r.op \in Cancels /\ r.work \in Works /\ r.ret = 0
      /\ worklist' = worklist /\ current_work' = current_work /\ wpc' = wpc
      /\ wq_data' = wq_data /\ timer' = timer /\ queueing' = queueing
  BY <1>1, <1>3, CallerIn DEF GrabBit, GoodCall, cwqVars, workerVars
<1>5. PICK w \in Works : w = r.work BY <1>4
<1>6. \A v \in Works : ~OwnsBit(call[c], v) BY <1>3, <1>4, NotOwner
<1>7. CASE w \in pending
  <2>1. pending' = pending /\ Goto(c, "data") BY <1>3, <1>5, <1>7 DEF GrabBit
  <2>2. call'[c].pc = "data" BY <1>1, <2>1, GotoFields
  <2>3. \A v \in Works : ~OwnsBit(call'[c], v) BY <2>2, NotOwner
  <2>4. QED BY <1>2, <1>4, <1>6, <2>1, <2>2, <2>3, QuietCall DEF Looking, Locked, workVars
<1>8. CASE w \notin pending
  <2>1. pending' = pending \cup {w} /\ Goto(c, "wq") BY <1>3, <1>5, <1>8 DEF GrabBit
  <2>2. call'[c].pc = "wq" /\ call'[c].op = r.op /\ call'[c].ret = 0 /\ call'[c].work = w
    BY <1>1, <1>3, <1>4, <1>5, <2>1, GotoFields
  <2>3. \A v \in Works : OwnsBit(call'[c], v) <=> v = w BY <1>4, <2>2 DEF OwnsBit
  <2>4. \A v \in Works, d \in Callers :
          OwnsBit(call'[d], v) <=> OwnsBit(call[d], v) \/ (v = w /\ d = c)
    BY <1>1, <1>2, <1>6, <2>3, OwnersNow
  <2>5. TokenComes(w, "owned", c) BY <1>4, <1>8, <2>4 DEF TokenComes, At
  <2>6. Token' BY <1>1, <2>1, <2>5, TokenCame
  <2>7. QED BY <1>2, <1>4, <2>2, <2>6, OwnerCall DEF Looking
<1>9. QED BY <1>7, <1>8

(* The bit is not taken: the caller will try again. *)
LEMMA GiveUpFields ==
  ASSUME NEW r \in Records, r.op \in Cancels, NEW n \in {-1, 1}
  PROVE  LET s == [r EXCEPT !.pc = "wq", !.ret = n]
         IN /\ s.pc = "wq" /\ s.ret = n /\ s.op = r.op /\ s.work = r.work
            /\ n = -1 => \A v \in Works : ~OwnsBit(s, v)
            /\ n = 1 => \A v \in Works : OwnsBit(s, v) <=> v = r.work
<1> DEFINE s == [r EXCEPT !.pc = "wq", !.ret = n]
<1>1. s.pc = "wq" /\ s.ret = n /\ s.op = r.op /\ s.work = r.work BY DEF Records
<1> HIDE DEF s
<1>2. n = -1 => \A v \in Works : ~OwnsBit(s, v)
  <2>1. n = -1 => ~(n >= 0) OBVIOUS
  <2>2. QED BY <1>1, <2>1, NotOwner
<1>3. n = 1 => \A v \in Works : OwnsBit(s, v) <=> v = r.work BY <1>1 DEF OwnsBit
<1>4. QED BY <1>1, <1>2, <1>3 DEF s

LEMMA GrabReadsToken ==
  ASSUME WqInv, TokenInv, NEW c \in Callers, GrabReads(c)
  PROVE  TokenInv'
<1>1. TypeOK /\ CallOK /\ RestOK /\ call \in [Callers -> Records] /\ OnData
  BY TypeParts DEF WqInv, TokenInv
<1>2. CallStep(c) BY CallerSteps DEF Caller
<1>3. PICK r \in Records : r = call[c] BY <1>1
<1>4. /\ r.pc = "data" /\ r.op \in Cancels /\ r.work \in Works
      /\ UNCHANGED <<worklist, current_work, wpc, workVars>>
  BY <1>1, <1>3, CallerIn DEF GrabReads, cwqVars, workerVars
<1>5. PICK p : p = wq_data[r.work] OBVIOUS
<1>6. \A v \in Works : ~OwnsBit(call[c], v) BY <1>3, <1>4, NotOwner
<1>7. CASE p = NULL
  <2> DEFINE s == [r EXCEPT !.pc = "wq", !.ret = -1]
  <2>1. s.pc = "wq" /\ \A v \in Works : ~OwnsBit(s, v) BY <1>4, GiveUpFields
  <2>2. call'[c] = s BY <1>1, <1>3, <1>5, <1>7 DEF GrabReads
  <2> HIDE DEF s
  <2>3. QED BY <1>2, <1>4, <1>6, <2>1, <2>2, QuietCall DEF Looking, Locked
<1>8. CASE p # NULL
  <2> DEFINE s == [r EXCEPT !.pc = "grab_lock", !.cwq = p]
  <2>1. s.pc = "grab_lock" /\ s.op = r.op /\ s.cwq = p /\ s.work = r.work BY DEF Records
  <2>2. call'[c] = s BY <1>1, <1>3, <1>5, <1>8 DEF GrabReads
  <2> HIDE DEF s
  <2>3. \A v \in Works : ~OwnsBit(call'[c], v) BY <1>4, <2>1, <2>2, NotOwner
  <2>4. s.work \in Delayed => s.cwq \in On[s.work] /\ wq_data[s.work] # NULL
    BY <1>1, <1>5, <1>8, <2>1 DEF OnData
  <2>5. QED BY <1>2, <1>4, <1>6, <2>1, <2>2, <2>3, <2>4, QuietCall DEF Locked
<1>9. QED BY <1>7, <1>8

LEMMA GrabLooksToken ==
  ASSUME WqInv, TokenInv, NEW c \in Callers, GrabLooks(c)
  PROVE  TokenInv'
<1>1. TypeOK /\ CallOK /\ OnData /\ DataOK /\ call \in [Callers -> Records]
  BY TypeParts DEF WqInv, TokenInv
<1>2. CallStep(c) BY CallerSteps DEF Caller
<1>3. PICK r \in Records : r = call[c] BY <1>1
<1>4. /\ r.pc = "grab_lock" /\ r.op \in Cancels /\ r.work \in Works /\ r.cwq \in Cpus
      /\ UNCHANGED <<worklist, current_work, wpc, workVars>> /\ Unlocked(r.cwq)
  BY <1>1, <1>3, CallerIn DEF GrabLooks, GoodCall, cwqVars, workerVars
<1>5. \A v \in Works : ~OwnsBit(call[c], v) BY <1>3, <1>4, NotOwner
<1>6. CASE Linked(r.work)
  <2> DEFINE s == [r EXCEPT !.pc = "match"]
  <2>1. s.pc = "match" /\ s.op = r.op /\ s.cwq = r.cwq /\ s.work = r.work BY DEF Records
  <2>2. call'[c] = s BY <1>1, <1>3, <1>6 DEF GrabLooks
  <2> HIDE DEF s
  <2>3. \A v \in Works : ~OwnsBit(call'[c], v) BY <1>4, <2>1, <2>2, NotOwner
  <2>4. s.work \in Delayed => s.cwq \in On[s.work] /\ wq_data[s.work] # NULL
    BY <1>1, <1>3, <1>4, <2>1 DEF OnData, Looking
  <2>5. wq_data[s.work] = s.cwq => s.work \in Entries(worklist[s.cwq])
    BY <1>1, <1>4, <1>6, <2>1, LinkedThere
  <2>6. QED BY <1>2, <1>4, <1>5, <2>1, <2>2, <2>3, <2>4, <2>5, QuietCall
<1>7. CASE ~Linked(r.work)
  <2> DEFINE s == [r EXCEPT !.pc = "wq", !.ret = -1]
  <2>1. s.pc = "wq" /\ \A v \in Works : ~OwnsBit(s, v) BY <1>4, GiveUpFields
  <2>2. call'[c] = s BY <1>1, <1>3, <1>7 DEF GrabLooks
  <2> HIDE DEF s
  <2>3. QED BY <1>2, <1>4, <1>5, <2>1, <2>2, QuietCall DEF Looking, Locked
<1>8. QED BY <1>6, <1>7

(* Nothing is twice on a list. *)
LEMMA ListsOnce ==
  ASSUME WqInv, WorkOnce, NEW p \in Cpus
  PROVE  worklist[p] \in Seq(Items) /\ NoDuplicates(worklist[p])
<1>1. CpuOK /\ BarrierOnce BY TypeParts DEF WqInv
<1>2. worklist[p] \in Seq(Items) BY <1>1 DEF CpuOK
<1>3. \A x \in Items : Once(worklist[p], x) BY <1>1 DEF BarrierOnce, WorkOnce, Items
<1>4. \A i \in 1 .. Len(worklist[p]) : worklist[p][i] \in Items BY <1>2
<1>5. QED BY <1>2, <1>3, <1>4 DEF NoDuplicates, Once

LEMMA GrabMatchesToken ==
  ASSUME Settled, WqInv, TokenInv, NEW c \in Callers, GrabMatches(c)
  PROVE  TokenInv'
<1>1. /\ TypeOK /\ CallOK /\ CpuOK /\ call \in [Callers -> Records]
      /\ Token /\ WorkOnce /\ DataOK /\ OnData /\ LockExcl /\ MatchOK
  BY TypeParts DEF WqInv, TokenInv
<1>2. CallStep(c) BY CallerSteps DEF Caller
<1>3. PICK r \in Records : r = call[c] BY <1>1
<1>4. /\ r.pc = "match" /\ r.op \in Cancels /\ r.work \in Works /\ r.cwq \in Cpus
      /\ current_work' = current_work /\ wpc' = wpc /\ wq_data' = wq_data
      /\ timer' = timer /\ queueing' = queueing /\ pending' = pending
  BY <1>1, <1>3, CallerIn DEF GrabMatches, GoodCall, workVars, workerVars
<1>5. \A v \in Works : ~OwnsBit(call[c], v) BY <1>3, <1>4, NotOwner
<1>6. PICK w \in Works : w = r.work BY <1>4
<1>11. w \in Steady BY <1>1, <1>3, <1>4, <1>6, CallerIn DEF Settled
<1>7. PICK p \in Cpus : p = r.cwq BY <1>4
<1>8. CASE wq_data[w] # p
  <2> DEFINE s == [r EXCEPT !.pc = "wq", !.ret = -1]
  <2>1. s.pc = "wq" /\ \A v \in Works : ~OwnsBit(s, v) BY <1>4, GiveUpFields
  <2>2. call'[c] = s /\ worklist' = worklist
    BY <1>1, <1>3, <1>6, <1>7, <1>8 DEF GrabMatches, Matches
  <2> HIDE DEF s
  <2>3. QED BY <1>2, <1>4, <1>5, <2>1, <2>2, QuietCall DEF Looking, Locked, workVars
<1>9. CASE wq_data[w] = p
  <2> DEFINE s == [r EXCEPT !.pc = "wq", !.ret = 1]
  <2>1. s.pc = "wq" /\ \A v \in Works : OwnsBit(s, v) <=> v = w BY <1>4, <1>6, GiveUpFields
  <2>2. call'[c] = s /\ \A n \in Cpus : worklist'[n] =
                          IF w \in Entries(worklist[n]) THEN list_del(worklist[n], w) ELSE worklist[n]
    BY <1>1, <1>3, <1>6, <1>7, <1>9 DEF GrabMatches, Matches
  <2> HIDE DEF s
  <2>3. \A d \in Callers : d # c => call'[d] = call[d] BY <1>1, <1>2, CallFrame
  <2>4. w \in Entries(worklist[p]) /\ \A n \in Cpus : w \in Entries(worklist[n]) => n = p
    BY <1>1, <1>3, <1>4, <1>6, <1>7, <1>9, <1>11 DEF MatchOK, Locked, DataOK
  <2>5. ASSUME NEW v \in Works, NEW n \in Cpus
        PROVE  /\ Once(worklist'[n], v)
               /\ v \in Entries(worklist'[n]) <=> v \in Entries(worklist[n]) /\ v # w
    <3>1. worklist[n] \in Seq(Items) /\ Once(worklist[n], v) /\ Once(worklist[n], w)
      BY <1>1 DEF CpuOK, WorkOnce
    <3>2. CASE w \in Entries(worklist[n])
      <4>1. worklist'[n] = list_del(worklist[n], w) BY <2>2, <3>2
      <4>2. Once(worklist'[n], v) BY <3>1, <3>2, <4>1, OnceDel
      <4>3. Entries(worklist'[n]) = Entries(worklist[n]) \ {w}
        BY <1>1, <3>2, <4>1, ListsOnce, ListDel
      <4>4. QED BY <4>2, <4>3
    <3>3. CASE w \notin Entries(worklist[n]) BY <2>2, <3>1, <3>3
    <3>4. QED BY <3>2, <3>3
  <2>6. WorkOnce' BY <2>5 DEF WorkOnce
  <2>7. DataOK' BY <1>1, <1>4, <2>5 DEF DataOK
  <2>8. s.pc \notin Looking /\ s.pc \notin Locked BY <2>1 DEF Looking, Locked
  <2>9. OnData' BY <1>1, <1>4, <2>2, <2>3, <2>8 DEF OnData
  <2>10. LockExcl' BY <1>1, <2>2, <2>3, <2>8 DEF LockExcl
  <2>11. MatchOK'
    <3> SUFFICES ASSUME NEW d \in Callers, call'[d].pc \in Locked, call'[d].work \in Steady,
                        wq_data'[call'[d].work] = call'[d].cwq
                 PROVE  call'[d].work \in Entries(worklist'[call'[d].cwq])
      BY DEF MatchOK
    <3>1. d # c /\ call'[d] = call[d] BY <2>2, <2>3, <2>8
    <3>2. call[d].pc \in Locked /\ wq_data[call[d].work] = call[d].cwq BY <1>4, <3>1
    <3>3. call[d].work \in Entries(worklist[call[d].cwq]) BY <1>1, <3>1, <3>2 DEF MatchOK
    <3>4. call[d].work \in Works /\ call[d].cwq \in Cpus
      BY <1>1, <3>2, CallerIn DEF Locked, GoodCall
    <3>5. call[d].work # w
      <4>1. call[c].pc \in Locked /\ call[c].cwq = p BY <1>3, <1>4, <1>7 DEF Locked
      <4>2. QED BY <1>1, <1>9, <3>1, <3>2, <4>1 DEF LockExcl
    <3>6. QED BY <2>5, <3>1, <3>3, <3>4, <3>5
  <2>12. \A v \in Works, d \in Callers :
           OwnsBit(call'[d], v) <=> OwnsBit(call[d], v) \/ (v = w /\ d = c)
    BY <1>1, <1>2, <1>5, <2>1, <2>2, OwnersNow
  <2>13. TokenMoves(w, "list", p, "owned", c)
    BY <1>4, <2>4, <2>5, <2>12 DEF TokenMoves, At
  <2>14. Token' BY <1>1, <1>4, <2>13, TokenMoved
  <2>15. QED BY <2>6, <2>7, <2>9, <2>10, <2>11, <2>14 DEF TokenInv
<1>10. QED BY <1>8, <1>9

LEMMA WaitOnWorkToken ==
  ASSUME WqInv, TokenInv, NEW c \in Callers, wait_on_work(c)
  PROVE  TokenInv'
<1>1. TypeOK /\ CallOK /\ call \in [Callers -> Records] BY TypeParts DEF WqInv
<1>2. CallStep(c) BY CallerSteps DEF Caller
<1>3. PICK r \in Records : r = call[c] BY <1>1
<1>4. /\ r.pc = "wq" /\ r.op \in Cancels
      /\ UNCHANGED <<worklist, current_work, wpc, workVars>>
  BY <1>1, <1>3, CallerIn DEF wait_on_work, cwqVars, workerVars
<1>5. CASE wq_data[r.work] = NULL
  <2> DEFINE s == [r EXCEPT !.cpu = LastCpu]
  <2>1. call'[c] = NextCpu(s) BY <1>1, <1>3, <1>5 DEF wait_on_work
  <2>2. LastCpu \in 0 .. NCpus BY CpusFacts DEF LastCpu
  <2>3. s \in Records /\ s.op = r.op /\ s.work = r.work /\ s.pc = r.pc /\ s.ret = r.ret
    BY <2>2 DEF Records
  <2> HIDE DEF s
  <2>4. /\ \A v \in Works : OwnsBit(NextCpu(s), v) <=> OwnsBit(s, v)
        /\ NextCpu(s).pc \notin Looking
    BY <1>4, <2>3, NextCpuOwns
  <2>5. \A v \in Works : OwnsBit(s, v) <=> OwnsBit(r, v) BY <2>3 DEF OwnsBit
  <2>6. QED BY <1>2, <1>3, <1>4, <2>1, <2>4, <2>5, QuietCall DEF Looking, Locked
<1>6. CASE wq_data[r.work] # NULL
  <2> DEFINE s == [r EXCEPT !.pc = "lock", !.cpu = FirstCpu, !.cwq = NULL]
  <2>1. call'[c] = s BY <1>1, <1>3, <1>6 DEF wait_on_work
  <2>2. s.op = r.op /\ s.work = r.work /\ s.pc = "lock" /\ s.ret = r.ret BY DEF Records
  <2> HIDE DEF s
  <2>3. \A v \in Works : OwnsBit(s, v) <=> OwnsBit(r, v) BY <1>4, <2>2 DEF OwnsBit
  <2>4. QED BY <1>2, <1>3, <1>4, <2>1, <2>2, <2>3, QuietCall DEF Looking, Locked
<1>7. QED BY <1>5, <1>6

LEMMA WaitOnCpuToken ==
  ASSUME WqInv, TokenInv, NEW c \in Callers, wait_on_cpu_work(c)
  PROVE  TokenInv'
<1>1. TypeOK /\ CallOK /\ CpuOK /\ call \in [Callers -> Records] BY TypeParts DEF WqInv
<1>2. CallStep(c) BY CallerSteps DEF Caller
<1>3. PICK r \in Records : r = call[c] BY <1>1
<1>4. /\ r.pc = "lock" /\ r.op \in Cancels /\ r.cpu \in Cpus
      /\ UNCHANGED <<current_work, wpc, workVars>>
  BY <1>1, <1>3, CallerIn DEF wait_on_cpu_work, GoodCall
<1>5. PICK p \in Cpus : p = r.cpu BY <1>4
<1>6. CASE insert_wq_barrier(c, p, p, 1)
  <2> DEFINE s == [r EXCEPT !.pc = "wait"]
  <2>1. s.pc = "wait" /\ \A v \in Works : OwnsBit(s, v) <=> OwnsBit(r, v)
    BY <1>4, GotoOwns DEF CallPcs
  <2>2. call'[c] = s BY <1>1, <1>3, <1>6 DEF insert_wq_barrier, Goto
  <2> HIDE DEF s
  <2>3. 1 \in 1 .. Len(worklist[p]) + 1 BY <1>1 DEF CpuOK
  <2>4. QED BY <1>2, <1>3, <1>4, <1>6, <2>1, <2>2, <2>3, BarrierCall
<1>7. CASE call' = [call EXCEPT ![c] = NextCpu(call[c])] /\ UNCHANGED worklist
  <2>1. call'[c] = NextCpu(r) BY <1>1, <1>3, <1>7
  <2>2. /\ \A v \in Works : OwnsBit(NextCpu(r), v) <=> OwnsBit(r, v)
        /\ NextCpu(r).pc \notin Looking
    BY <1>4, NextCpuOwns
  <2>3. QED BY <1>2, <1>3, <1>4, <1>7, <2>1, <2>2, QuietCall DEF Looking, Locked
<1>8. QED BY <1>3, <1>5, <1>6, <1>7 DEF wait_on_cpu_work

LEMMA CancelClearsToken ==
  ASSUME WqInv, TokenInv, NEW c \in Callers, CancelClears(c)
  PROVE  TokenInv'
<1>1. TypeOK /\ CallOK /\ Token /\ call \in [Callers -> Records] BY TypeParts DEF WqInv, TokenInv
<1>2. CallStep(c) BY CallerSteps DEF Caller
<1>3. PICK r : r = call[c] OBVIOUS
<1>4. /\ r.pc = "clear" /\ r.op \in Cancels \cup Unarms /\ r.work \in Works
      /\ r.op \in Cancels => r.ret >= 0
      /\ worklist' = worklist /\ current_work' = current_work /\ wpc' = wpc
      /\ wq_data' = wq_data /\ timer' = timer /\ queueing' = queueing
  BY <1>1, <1>3, CallerIn DEF CancelClears, GoodCall, cwqVars, workerVars
<1>5. PICK w \in Works : w = r.work BY <1>4
<1>6. pending' = pending \ {w} /\ call'[c] = Idle BY <1>1, <1>3, <1>5 DEF CancelClears
<1>7. \A v \in Works : OwnsBit(call[c], v) <=> v = w BY <1>3, <1>4, <1>5 DEF OwnsBit
<1>8. call'[c].pc = "idle" BY <1>6 DEF Idle
<1>9. \A v \in Works : ~OwnsBit(call'[c], v) BY <1>8, NotOwner
<1>10. \A v \in Works, d \in Callers :
         OwnsBit(call'[d], v) <=> OwnsBit(call[d], v) /\ ~(v = w /\ d = c)
  BY <1>1, <1>2, <1>7, <1>9, OwnersNow
<1>11. TokenGoes(w, "owned", c) BY <1>4, <1>7, <1>10 DEF TokenGoes, At
<1>12. Token' BY <1>1, <1>6, <1>11, TokenGone
<1>13. QED BY <1>2, <1>4, <1>8, <1>12, OwnerCall DEF Looking

(* The start of a call, for any of the functions. *)
LEMMA BeginCall ==
  ASSUME WqInv, NEW c \in Callers,
         \/ \E op \in CpuLoops : BeginCpuLoop(c, op)
         \/ \E op \in AllOps, w \in Works : Begin(c, op, w)
  PROVE  /\ CallStep(c) /\ call[c] = Idle /\ call[c].pc = "idle"
         /\ UNCHANGED <<worklist, current_work, wpc, workVars, done>>
         /\ call'[c].pc \in {"lock", "fw", "grab", "del_timer"}
         /\ call'[c].pc = "lock" => call'[c].op \in CpuLoops
<1>1. TypeOK /\ CallOK /\ call \in [Callers -> Records] BY TypeParts DEF WqInv
<1>2. call[c] = Idle /\ UNCHANGED <<worklist, current_work, wpc, workVars, done>>
  BY DEF BeginCpuLoop, Begin, cwqVars, workerVars
<1>3. PICK s : /\ call' = [call EXCEPT ![c] = s]
               /\ s.pc \in {"lock", "fw", "grab", "del_timer"} /\ (s.pc = "lock" => s.op \in CpuLoops)
  <2>1. ASSUME NEW op \in CpuLoops, BeginCpuLoop(c, op)
        PROVE  \E s : /\ call' = [call EXCEPT ![c] = s] /\ s.pc = "lock" /\ s.op = op
    <3> DEFINE s == [Idle EXCEPT !.op = op, !.pc = CpuEntry(op), !.cpu = 1]
    <3>1. s.pc = "lock" /\ s.op = op BY DEF CpuEntry, Idle
    <3>2. call' = [call EXCEPT ![c] = s] BY <2>1 DEF BeginCpuLoop
    <3> HIDE DEF s
    <3>3. QED BY <3>1, <3>2
  <2>2. ASSUME NEW op \in AllOps, NEW w \in Works, Begin(c, op, w)
        PROVE  \E s : call' = [call EXCEPT ![c] = s] /\ s.pc \in {"fw", "grab", "del_timer"}
    <3>1. PICK pc : pc = CASE op = "flush_work" -> "fw"
                           [] op \in Cancels -> CancelStart(op)
                           [] OTHER -> "del_timer"
      OBVIOUS
    <3> DEFINE s == [Idle EXCEPT !.op = op, !.work = w, !.pc = pc]
    <3>2. pc \in {"fw", "grab", "del_timer"} BY <3>1 DEF CancelStart
    <3>3. s.pc = pc BY DEF Idle
    <3>4. call' = [call EXCEPT ![c] = s] BY <2>2, <3>1 DEF Begin
    <3> HIDE DEF s
    <3>5. QED BY <3>2, <3>3, <3>4
  <2>3. QED BY <2>1, <2>2
<1>4. call'[c] = s BY <1>1, <1>3
<1>5. CallStep(c)
  <2>1. [Next]_vars BY DEF Next
  <2>2. CallOK' BY <2>1, WqStep DEF WqInv
  <2>3. QED BY <1>3, <1>4, <2>2 DEF CallStep, CallOK
<1>6. call[c].pc = "idle" BY <1>2 DEF Idle
<1>7. QED BY <1>2, <1>3, <1>4, <1>5, <1>6

LEMMA BeginToken ==
  ASSUME WqInv, TokenInv, NEW c \in Callers,
         \/ \E op \in CpuLoops : BeginCpuLoop(c, op)
         \/ \E op \in AllOps, w \in Works : Begin(c, op, w)
  PROVE  TokenInv'
<1>1. /\ CallStep(c) /\ call[c].pc = "idle"
      /\ UNCHANGED <<worklist, current_work, wpc, workVars>>
      /\ call'[c].pc \in {"lock", "fw", "grab", "del_timer"}
      /\ call'[c].pc = "lock" => call'[c].op \in CpuLoops
  BY BeginCall
<1>2. \A v \in Works : ~OwnsBit(call'[c], v) BY <1>1, NotOwner
<1>3. \A v \in Works : ~OwnsBit(call[c], v) BY <1>1, NotOwner
<1>4. QED BY <1>1, <1>2, <1>3, QuietCall DEF Looking, Locked

LEMMA TokenStep ==
  ASSUME Settled, WqInv, DestroyInv, TokenInv, [Next]_vars
  PROVE  TokenInv'
<1>1. CASE UNCHANGED vars
  BY <1>1 DEF vars, TokenInv, Token, At, WorkOnce, DataOK, OnData, LockExcl, MatchOK
<1>2. CASE Next
  <2>1. ASSUME NEW c \in Callers, Caller(c) PROVE TokenInv'
    BY <2>1, CpuLoopToken, FlushReadsToken, FlushLooksToken, FlushMatchesToken, FlushRequeuesToken,
       DelTimerToken, GrabBitToken, GrabReadsToken, GrabLooksToken, GrabMatchesToken,
       WaitOnWorkToken, WaitOnCpuToken, CancelClearsToken
    DEF Caller
  <2>2. QED
    BY <1>2, <2>1, QueueWorkToken, InsertToken, SetDataToken, AddTimerToken, TimerToken,
       WorkerToken, BeginToken, CreateToken
    DEF Next
<1>3. QED BY <1>1, <1>2

LEMMA TokenInit ==
  ASSUME Init
  PROVE  TokenInv
<1>1. \A c \in Callers : call[c].pc = "idle" BY DEF Init, Idle
<1>2. \A p \in Cpus : Entries(worklist[p]) = {} /\ Len(worklist[p]) = 0 /\ wpc[p] # "clear"
  BY DEF Init, Entries
<1>3. \A c \in Callers : \A v \in Works : ~OwnsBit(call[c], v) BY <1>1, NotOwner
<1>4. Token BY <1>2, <1>3 DEF Token, At, Init
<1>5. WorkOnce /\ DataOK BY <1>2 DEF WorkOnce, Once, DataOK
<1>6. OnData BY <1>1, WorkQueueAssumption DEF OnData, Looking, Init
<1>7. LockExcl /\ MatchOK BY <1>1 DEF LockExcl, MatchOK, Locked
<1>8. QED BY <1>4, <1>5, <1>6, <1>7 DEF TokenInv

(* The inductive invariant of the pending bit, under the hypothesis that a *)
(* delayed work that is cancelled is always queued from one CPU.           *)
THEOREM WorkQueueTokens ==
  ASSUME Settled
  PROVE  Spec => []TokenInv
<1>1. Init => TokenInv BY TokenInit
<1>2. WqInv /\ DestroyInv /\ TokenInv /\ [Next]_vars => TokenInv' BY TokenStep
<1>3. QED BY <1>1, <1>2, WorkQueueInvariant, WorkQueueDestroyed, PTL DEF Spec

(* The worker finds its own cwq in the work that it took (workqueue.c:296),*)
(* although queue_delayed_work_on() writes work->data without the lock:    *)
(* also for a delayed work that every CPU queues, so that the store writes *)
(* another cwq than the one there, as long as no synchronous cancel is     *)
(* misled by it.  Without the hypothesis it is false: the canceller that   *)
(* the store misleads lets a second queueing in, and the BUG_ON() fires.   *)
THEOREM WorkQueueRunsWhereQueued ==
  ASSUME Settled
  PROVE  Spec => []RunsWhereQueued
<1>1. TokenInv => RunsWhereQueued BY DEF TokenInv, DataOK, RunsWhereQueued
<1>2. QED BY <1>1, WorkQueueTokens, PTL

(* A place for each party that holds the token. *)
LEMMA HoldersAre ==
  ASSUME NEW w \in Works, NEW h
  PROVE  h \in Holders(w) <=>
           \/ \E q \in queueing : q.work = w /\ h = <<"queueing", q.cpu, q.step>>
           \/ w \in timer /\ h = <<"timer">>
           \/ \E p \in Cpus : \E i \in 1 .. Len(worklist[p]) :
                worklist[p][i] = w /\ h = <<"list", p, i>>
           \/ \E p \in Cpus : wpc[p] = "clear" /\ current_work[p] = w /\ h = <<"taken", p>>
           \/ \E c \in Callers : OwnsBit(call[c], w) /\ h = <<"owned", c>>
<1> DEFINE A == {<<"queueing", q.cpu, q.step>> : q \in {r \in queueing : r.work = w}}
           B == {<<"timer">> : d \in {w} \cap timer}
           C == UNION {{<<"list", p, i>> : i \in {j \in 1 .. Len(worklist[p]) :
                                                worklist[p][j] = w}} : p \in Cpus}
           D == {<<"taken", p>> : p \in {q \in Cpus : wpc[q] = "clear" /\ current_work[q] = w}}
           E == {<<"owned", c>> : c \in {d \in Callers : Owns(d, w)}}
<1>1. h \in A <=> \E q \in queueing : q.work = w /\ h = <<"queueing", q.cpu, q.step>> OBVIOUS
<1>2. h \in B <=> w \in timer /\ h = <<"timer">> OBVIOUS
<1>3. h \in C <=> \E p \in Cpus : \E i \in 1 .. Len(worklist[p]) :
                    worklist[p][i] = w /\ h = <<"list", p, i>>
  <2>1. h \in C <=> \E p \in Cpus : h \in {<<"list", p, i>> : i \in {j \in 1 .. Len(worklist[p]) :
                                                                    worklist[p][j] = w}}
    BY Zenon
  <2>2. \A p \in Cpus :
          h \in {<<"list", p, i>> : i \in {j \in 1 .. Len(worklist[p]) : worklist[p][j] = w}}
            <=> \E i \in 1 .. Len(worklist[p]) : worklist[p][i] = w /\ h = <<"list", p, i>>
    BY Zenon
  <2> HIDE DEF C
  <2>3. QED BY <2>1, <2>2
<1>4. h \in D <=> \E p \in Cpus : wpc[p] = "clear" /\ current_work[p] = w /\ h = <<"taken", p>>
  OBVIOUS
<1>5. h \in E <=> \E c \in Callers : OwnsBit(call[c], w) /\ h = <<"owned", c>>
  <2>1. \A c : Owns(c, w) <=> OwnsBit(call[c], w) BY OwnsIs
  <2>2. QED BY <2>1
<1> HIDE DEF A, B, C, D, E
<1>6. Holders(w) = A \cup B \cup C \cup D \cup E BY Zenon DEF Holders, A, B, C, D, E
<1>7. QED BY <1>1, <1>2, <1>3, <1>4, <1>5, <1>6

(* The name under which Holders() lists the party that has the token. *)
HolderOf(w, k, x, h) ==
  \/ k = "queueing" /\ h = <<"queueing", x.cpu, x.step>>
  \/ k = "timer" /\ h = <<"timer">>
  \/ k = "list" /\ \E i \in 1 .. Len(worklist[x]) : worklist[x][i] = w /\ h = <<"list", x, i>>
  \/ k = "taken" /\ h = <<"taken", x>>
  \/ k = "owned" /\ h = <<"owned", x>>

LEMMA HolderAt ==
  ASSUME NEW w \in Works, NEW h
  PROVE  h \in Holders(w) <=> \E k, x : At(w, k, x) /\ HolderOf(w, k, x, h)
<1>1. ASSUME h \in Holders(w) PROVE \E k, x : At(w, k, x) /\ HolderOf(w, k, x, h)
  <2>1. CASE \E q \in queueing : q.work = w /\ h = <<"queueing", q.cpu, q.step>>
    BY <2>1 DEF At, HolderOf
  <2>2. CASE w \in timer /\ h = <<"timer">> BY <2>2 DEF At, HolderOf
  <2>3. CASE \E p \in Cpus : \E i \in 1 .. Len(worklist[p]) :
               worklist[p][i] = w /\ h = <<"list", p, i>>
    BY <2>3 DEF At, HolderOf, Entries
  <2>4. CASE \E p \in Cpus : wpc[p] = "clear" /\ current_work[p] = w /\ h = <<"taken", p>>
    BY <2>4 DEF At, HolderOf
  <2>5. CASE \E c \in Callers : OwnsBit(call[c], w) /\ h = <<"owned", c>>
    BY <2>5 DEF At, HolderOf
  <2>6. QED BY <1>1, <2>1, <2>2, <2>3, <2>4, <2>5, HoldersAre
<1>2. ASSUME NEW k, NEW x, At(w, k, x), HolderOf(w, k, x, h) PROVE h \in Holders(w)
  BY <1>2, HoldersAre DEF At, HolderOf
<1>3. QED BY <1>1, <1>2

LEMMA HoldersOne ==
  ASSUME TokenInv, NEW w \in Works
  PROVE  Cardinality(Holders(w)) = IF w \in pending THEN 1 ELSE 0
<1>1. Token /\ WorkOnce BY DEF TokenInv
<1>2. CASE w \notin pending
  <2>1. \A k, x : ~At(w, k, x) BY <1>1, <1>2 DEF Token
  <2>2. Holders(w) = {} BY <2>1, HolderAt
  <2>3. QED BY <1>2, <2>2, FS_EmptySet
<1>3. CASE w \in pending
  <2>1. PICK k, x : At(w, k, x) BY <1>1, <1>3 DEF Token
  <2>2. \A l, y : At(w, l, y) => l = k /\ y = x BY <1>1, <2>1 DEF Token
  <2>3. \E h : HolderOf(w, k, x, h)
    BY <2>1 DEF At, HolderOf, Entries
  <2>4. PICK h : HolderOf(w, k, x, h) BY <2>3
  <2>5. \A g : HolderOf(w, k, x, g) => g = h
    <3>1. k = "list" => x \in Cpus /\ Once(worklist[x], w) BY <1>1, <2>1 DEF At, WorkOnce
    <3>2. QED BY <2>4, <3>1 DEF HolderOf, Once
  <2>6. Holders(w) = {h} BY <2>1, <2>2, <2>4, <2>5, HolderAt
  <2>7. Cardinality({h}) = 1 BY FS_Singleton, Zenon
  <2>8. QED BY <1>3, <2>6, <2>7
<1>4. QED BY <1>2, <1>3

(* While the pending bit is set exactly one party has the work, and none   *)
(* while it is clear (workqueue.c:122, 199, 251-252, 470-473), as long as  *)
(* the delayed works that are cancelled stay on one CPU.                   *)
THEOREM WorkQueuePendingIsToken ==
  ASSUME Settled
  PROVE  Spec => []PendingIsToken
<1>1. TokenInv => PendingIsToken BY HoldersOne DEF PendingIsToken
<1>2. QED BY <1>1, WorkQueueTokens, PTL

-------------------------------------------------------------------------------
(* A synchronous cancel is complete.  A worker's current work has been     *)
(* queued, ...                                                             *)
CurData == \A p \in Cpus : current_work[p] \in Works => wq_data[current_work[p]] # NULL

(* ... a barrier goes to the CPU that its caller looks at, ... *)
Spot(r) == IF r.op \in Flushes THEN r.cwq ELSE r.cpu

BarrierAt ==
  \A c \in Callers, p \in Cpus :
    c \in Entries(worklist[p]) \/ Hand(c, p) => p = Spot(call[c])

(* ... and a cancel that has the pending bit knows that no worker it has   *)
(* been to has the work: r is the call, cw what the workers have and b     *)
(* whether the call's barrier has run.                                     *)
Sees(r, cw, b) ==
  r.op \in Cancels /\ r.ret >= 0 =>
    /\ r.pc \in {"lock", "wait"} => \A p \in Cpus : p < r.cpu => cw[p] # r.work
    /\ r.pc = "wait" /\ b => cw[r.cpu] # r.work
    /\ r.pc = "clear" => \A p \in Cpus : cw[p] # r.work

CancelOK == \A c \in Callers : Sees(call[c], current_work, c \in done)

CancelInv == CurData /\ BarrierAt /\ CancelOK

(* Where a barrier is linked. *)
LEMMA BarrierLists ==
  ASSUME WqInv, NEW c \in Callers, NEW p, NEW q \in Cpus,
         NEW i \in 1 .. Len(worklist[q]) + 1, insert_wq_barrier(c, p, q, i)
  PROVE  /\ worklist'[q] = list_insert(worklist[q], i, c)
         /\ \A n \in Cpus : n # q => worklist'[n] = worklist[n]
         /\ \A x : \A n \in Cpus :
              x \in Entries(worklist'[n]) <=> x \in Entries(worklist[n]) \/ (x = c /\ n = q)
<1>1. CpuOK BY TypeParts DEF WqInv
<1>2. worklist' = [worklist EXCEPT ![q] = list_insert(worklist[q], i, c)]
  BY DEF insert_wq_barrier, list_insert
<1>3. worklist[q] \in Seq(Items) /\ c \in Items BY <1>1 DEF CpuOK, Items
<1>4. /\ worklist'[q] = list_insert(worklist[q], i, c)
      /\ \A n \in Cpus : n # q => worklist'[n] = worklist[n]
  BY <1>1, <1>2 DEF CpuOK
<1>5. Entries(list_insert(worklist[q], i, c)) = Entries(worklist[q]) \cup {c}
  BY <1>3, InsertEntries
<1>6. QED BY <1>4, <1>5

(* Where flush_work() links its barrier, and with it behind which work;    *)
(* where the second test misleads it about a work that moves, to no list.  *)
LEMMA FlushMatchesThere ==
  ASSUME WqInv, TokenInv, NEW c \in Callers, FlushMatches(c)
  PROVE  LET w == call[c].work   p == call[c].cwq
         IN \/ /\ wq_data[w] # p /\ Goto(c, "return")
               /\ UNCHANGED <<worklist, awake, done>>
            \/ /\ p \in Cpus /\ w \in Entries(worklist[p])
               /\ Position(worklist[p], w) + 1 \in 1 .. Len(worklist[p]) + 1
               /\ insert_wq_barrier(c, p, p, Position(worklist[p], w) + 1)
            \/ /\ w \in Works \ Steady /\ Goto(c, "wait") /\ done' = done \ {c}
               /\ UNCHANGED worklist
<1>1. CallOK /\ CpuOK /\ DataOK /\ MatchOK BY TypeParts DEF WqInv, TokenInv
<1>2. PICK w : w = call[c].work OBVIOUS
<1>3. PICK p : p = call[c].cwq OBVIOUS
<1>4. call[c].pc = "fw_match" /\ w \in Works /\ p \in Cpus
  BY <1>1, <1>2, <1>3, CallerIn DEF FlushMatches, GoodCall
<1>5. CASE wq_data[w] # p BY <1>2, <1>3, <1>5 DEF FlushMatches
<1>6. CASE wq_data[w] = p /\ w \in Entries(worklist[p])
  <2>2. \A q \in Cpus : w \in Entries(worklist[q]) => q = p BY <1>1, <1>4, <1>6 DEF DataOK
  <2>3. Linked(w) BY <1>4, <1>6 DEF Linked
  <2>4. insert_wq_barrier(c, p, p, Position(worklist[p], w) + 1)
    BY <1>2, <1>3, <1>6, <2>2, <2>3 DEF FlushMatches
  <2>5. worklist[p] \in Seq(Items) BY <1>1, <1>4 DEF CpuOK
  <2>6. Position(worklist[p], w) \in 1 .. Len(worklist[p]) BY <1>6 DEF Entries, Position
  <2>7. Position(worklist[p], w) + 1 \in 1 .. Len(worklist[p]) + 1 BY <2>5, <2>6
  <2>8. QED BY <1>2, <1>3, <1>4, <1>6, <2>4, <2>7
<1>7. CASE wq_data[w] = p /\ w \notin Entries(worklist[p])
  <2>1. \A q \in Cpus : w \notin Entries(worklist[q]) BY <1>1, <1>4, <1>7 DEF DataOK
  <2>2. w \in Works \ Steady BY <1>1, <1>2, <1>3, <1>4, <1>7 DEF MatchOK, Locked
  <2>3. Goto(c, "wait") /\ done' = done \ {c} /\ UNCHANGED worklist
    BY <1>2, <1>3, <1>7, <2>1 DEF FlushMatches
  <2>4. QED BY <1>2, <1>3, <2>2, <2>3
<1>8. QED BY <1>5, <1>6, <1>7

(* What a step of caller c does to the lists and to the other callers. *)
LEMMA CallerFrame ==
  ASSUME WqInv, TokenInv, NEW c \in Callers, Caller(c)
  PROVE  /\ current_work' = current_work /\ wpc' = wpc
         /\ \A v \in Works : wq_data'[v] = NULL => wq_data[v] = NULL
         /\ call[c].pc = "wait" => c \in done
         /\ \A d \in Callers : d # c => (d \in done' <=> d \in done)
         /\ \A d \in Callers, p \in Cpus :
              d \in Entries(worklist'[p]) =>
                d \in Entries(worklist[p]) \/ (d = c /\ p = Spot(call'[c]))
<1>1. TypeOK /\ CallOK /\ CpuOK /\ RestOK BY TypeParts DEF WqInv
<1>2. CASE \/ wait_for_completion(c) \/ kthread_stop(c) \/ ThreadExited(c) \/ Return(c)
           \/ FlushReads(c) \/ DelTimer(c) \/ GrabBit(c) \/ GrabReads(c) \/ GrabLooks(c)
           \/ wait_on_work(c) \/ CancelClears(c)
  <2>1. worklist' = worklist /\ current_work' = current_work /\ wpc' = wpc /\ wq_data' = wq_data
    BY <1>2 DEF wait_for_completion, kthread_stop, ThreadExited, Return, FlushReads, DelTimer,
                GrabBit, GrabReads, GrabLooks, wait_on_work, CancelClears, cwqVars, workerVars,
                workVars
  <2>2. done' \in {done, done \ {c}}
    BY <1>2 DEF wait_for_completion, kthread_stop, ThreadExited, Return, FlushReads, DelTimer,
                GrabBit, GrabReads, GrabLooks, wait_on_work, CancelClears
  <2>3. call[c].pc = "wait" => c \in done
    BY <1>2 DEF wait_for_completion, kthread_stop, ThreadExited, Return, FlushReads, DelTimer,
                GrabBit, GrabReads, GrabLooks, wait_on_work, CancelClears, Completed
  <2>4. QED BY <2>1, <2>2, <2>3
<1>3. CASE FlushRequeues(c)
  <2>1. call[c].pc = "requeue" /\ call[c].work \in Works BY <1>1, <1>3, CallerIn DEF FlushRequeues
  <2>2. PICK w \in Works : w = call[c].work BY <2>1
  <2>3. PICK p \in On[w] : __queue_work(w, p) BY <1>3, <2>2 DEF FlushRequeues
  <2>4. p \in Cpus BY WorkQueueAssumption
  <2>5. current_work' = current_work /\ wpc' = wpc /\ should_stop' = should_stop /\ done' = done
    BY <1>3 DEF FlushRequeues
  <2>6. \A d \in Callers, q \in Cpus : d \in Entries(worklist'[q]) => d \in Entries(worklist[q])
    BY <2>3, <2>4, <2>5, QueueWork
  <2>7. \A v \in Works : wq_data'[v] = IF v = w THEN p ELSE wq_data[v]
    BY <1>1, <2>3 DEF __queue_work, RestOK
  <2>8. p # NULL BY <2>4, WorkQueueAssumption
  <2>9. QED BY <2>1, <2>5, <2>6, <2>7, <2>8
<1>4. CASE GrabMatches(c)
  <2>1. /\ current_work' = current_work /\ wpc' = wpc /\ wq_data' = wq_data /\ done' = done
        /\ call[c].pc = "match" /\ call[c].work \in Works
    BY <1>1, <1>4, CallerIn DEF GrabMatches, workerVars, workVars
  <2>2. PICK w \in Works : w = call[c].work BY <2>1
  <2>3. \/ worklist' = worklist
        \/ worklist' = [q \in Cpus |-> IF w \in Entries(worklist[q])
                                       THEN list_del(worklist[q], w) ELSE worklist[q]]
    BY <1>4, <2>2 DEF GrabMatches
  <2>4. WorkOnce BY DEF TokenInv
  <2>5. ASSUME NEW q \in Cpus PROVE Entries(worklist'[q]) \subseteq Entries(worklist[q])
    <3>1. CASE worklist'[q] = worklist[q] BY <3>1
    <3>2. CASE w \in Entries(worklist[q]) /\ worklist'[q] = list_del(worklist[q], w)
      BY <2>4, <3>2, ListsOnce, ListDel
    <3>3. QED BY <2>3, <3>1, <3>2
  <2>6. QED BY <2>1, <2>5
<1>5. ASSUME NEW p \in Cpus, NEW i \in 1 .. Len(worklist[p]) + 1, insert_wq_barrier(c, p, p, i),
             UNCHANGED <<current_work, wpc, workVars>>, call[c].pc # "wait", p = Spot(call[c])
      PROVE  /\ current_work' = current_work /\ wpc' = wpc
             /\ \A v \in Works : wq_data'[v] = NULL => wq_data[v] = NULL
             /\ call[c].pc = "wait" => c \in done
             /\ \A d \in Callers : d # c => (d \in done' <=> d \in done)
             /\ \A d \in Callers, n \in Cpus :
                  d \in Entries(worklist'[n]) =>
                    d \in Entries(worklist[n]) \/ (d = c /\ n = Spot(call'[c]))
  <2>1. done' = done \ {c} /\ Goto(c, "wait") BY <1>5 DEF insert_wq_barrier
  <2>2. Spot(call'[c]) = p BY <1>1, <1>5, <2>1, GotoFields DEF Spot
  <2>3. \A x : \A n \in Cpus :
          x \in Entries(worklist'[n]) <=> x \in Entries(worklist[n]) \/ (x = c /\ n = p)
    <3>1. insert_wq_barrier(c, p, p, i) BY <1>5
    <3>2. QED BY <3>1, BarrierLists
  <2>4. QED BY <1>5, <2>1, <2>2, <2>3 DEF workVars
<1>6. CASE flush_cpu_workqueue(c)
  <2>1. PICK p : p = call[c].cpu OBVIOUS
  <2>2. /\ call[c].pc = "lock" /\ call[c].op \in CpuLoops /\ p \in Cpus
        /\ UNCHANGED <<current_work, wpc, workVars>>
    BY <1>1, <1>6, <2>1, CallerIn DEF flush_cpu_workqueue, GoodCall
  <2>3. CASE worklist' = worklist /\ done' = done BY <2>2, <2>3 DEF workVars
  <2>4. CASE insert_wq_barrier(c, p, p, Len(worklist[p]) + 1)
    <3>1. Len(worklist[p]) + 1 \in 1 .. Len(worklist[p]) + 1 BY <1>1, <2>2 DEF CpuOK
    <3>2. p = Spot(call[c]) BY <2>1, <2>2 DEF Spot
    <3>3. QED BY <1>5, <2>2, <2>4, <3>1, <3>2
  <2>5. QED BY <1>6, <2>1, <2>3, <2>4 DEF flush_cpu_workqueue
<1>7. CASE wait_on_cpu_work(c)
  <2>1. PICK p : p = call[c].cpu OBVIOUS
  <2>2. /\ call[c].pc = "lock" /\ call[c].op \in Cancels /\ p \in Cpus
        /\ UNCHANGED <<current_work, wpc, workVars>>
    BY <1>1, <1>7, <2>1, CallerIn DEF wait_on_cpu_work, GoodCall
  <2>3. CASE worklist' = worklist /\ done' = done BY <2>2, <2>3 DEF workVars
  <2>4. CASE insert_wq_barrier(c, p, p, 1)
    <3>1. 1 \in 1 .. Len(worklist[p]) + 1 BY <1>1, <2>2 DEF CpuOK
    <3>2. p = Spot(call[c]) BY <2>1, <2>2 DEF Spot
    <3>3. QED BY <1>5, <2>2, <2>4, <3>1, <3>2
  <2>5. QED BY <1>7, <2>1, <2>3, <2>4 DEF wait_on_cpu_work
<1>8. CASE FlushLooks(c)
  <2>1. PICK p : p = call[c].cwq OBVIOUS
  <2>2. /\ call[c].pc = "fw_lock" /\ call[c].op \in Flushes /\ p \in Cpus
        /\ UNCHANGED <<current_work, wpc, workVars>>
    BY <1>1, <1>8, <2>1, CallerIn DEF FlushLooks, GoodCall
  <2>3. CASE worklist' = worklist /\ done' = done BY <2>2, <2>3 DEF workVars
  <2>4. CASE insert_wq_barrier(c, p, p, 1)
    <3>1. 1 \in 1 .. Len(worklist[p]) + 1 BY <1>1, <2>2 DEF CpuOK
    <3>2. p = Spot(call[c]) BY <2>1, <2>2 DEF Spot
    <3>3. QED BY <1>5, <2>2, <2>4, <3>1, <3>2
  <2>5. QED BY <1>8, <2>1, <2>3, <2>4 DEF FlushLooks
<1>9. CASE FlushMatches(c)
  <2>1. PICK p : p = call[c].cwq OBVIOUS
  <2>2. PICK w : w = call[c].work OBVIOUS
  <2>3. /\ call[c].pc = "fw_match" /\ call[c].op \in Flushes
        /\ UNCHANGED <<current_work, wpc, workVars>>
    BY <1>1, <1>9, CallerIn DEF FlushMatches
  <2>4. CASE worklist' = worklist /\ done' = done BY <2>3, <2>4 DEF workVars
  <2>5. CASE /\ p \in Cpus /\ Position(worklist[p], w) + 1 \in 1 .. Len(worklist[p]) + 1
             /\ insert_wq_barrier(c, p, p, Position(worklist[p], w) + 1)
    <3>1. p = Spot(call[c]) BY <2>1, <2>3 DEF Spot
    <3>2. QED BY <1>5, <2>3, <2>5, <3>1
  <2>7. CASE worklist' = worklist /\ done' = done \ {c} BY <2>3, <2>7 DEF workVars
  <2>6. QED BY <1>9, <2>1, <2>2, <2>4, <2>5, <2>7, FlushMatchesThere
<1>10. QED BY <1>2, <1>3, <1>4, <1>6, <1>7, <1>8, <1>9 DEF Caller

(* A step of a caller, when what it sees is true afterwards. *)
LEMMA CallCancel ==
  ASSUME WqInv, CancelInv, NEW c \in Callers, CallStep(c),
         current_work' = current_work, wpc' = wpc,
         \A v \in Works : wq_data'[v] = NULL => wq_data[v] = NULL,
         call[c].pc = "wait" => c \in done,
         \A d \in Callers : d # c => (d \in done' <=> d \in done),
         \A d \in Callers, p \in Cpus :
           d \in Entries(worklist'[p]) =>
             d \in Entries(worklist[p]) \/ (d = c /\ p = Spot(call'[c])),
         Sees(call'[c], current_work, c \in done')
  PROVE  CancelInv'
<1>1. TypeOK /\ CallOK /\ BarrierAlive BY DEF WqInv
<1>2. CurData /\ BarrierAt /\ CancelOK BY DEF CancelInv
<1>3. \A d \in Callers : d # c => call'[d] = call[d] BY <1>1, CallFrame
<1>4. \A p \in Cpus : c \notin Entries(worklist[p]) /\ ~Hand(c, p)
  BY <1>1 DEF BarrierAlive, Hand
<1>5. CurData' BY <1>2 DEF CurData
<1>6. \A d \in Callers, p \in Cpus : Hand(d, p)' <=> Hand(d, p) BY DEF Hand
<1>7. BarrierAt' BY <1>2, <1>3, <1>4, <1>6 DEF BarrierAt
<1>8. CancelOK'
  <2> SUFFICES ASSUME NEW d \in Callers PROVE Sees(call'[d], current_work', d \in done')
    BY DEF CancelOK
  <2>1. CASE d = c BY <2>1
  <2>2. CASE d # c
    <3>1. Sees(call[d], current_work, d \in done) BY <1>2 DEF CancelOK
    <3>2. QED BY <1>3, <2>2, <3>1 DEF Sees
  <2>3. QED BY <2>1, <2>2
<1>9. QED BY <1>5, <1>7, <1>8 DEF CancelInv

(* A step that leaves the callers and the workers' current works alone. *)
LEMMA QuietCancel ==
  ASSUME CancelInv, current_work' = current_work, call' = call, done' = done,
         \A v \in Works : wq_data'[v] = NULL => wq_data[v] = NULL,
         \A d \in Callers, p \in Cpus :
           /\ d \in Entries(worklist'[p]) => d \in Entries(worklist[p])
           /\ Hand(d, p)' => Hand(d, p)
  PROVE  CancelInv'
<1>1. CurData /\ BarrierAt /\ CancelOK BY DEF CancelInv
<1>2. CurData' BY <1>1 DEF CurData
<1>3. BarrierAt' BY <1>1 DEF BarrierAt
<1>4. CancelOK' BY <1>1 DEF CancelOK
<1>5. QED BY <1>2, <1>3, <1>4 DEF CancelInv

LEMMA ContextCancel ==
  ASSUME WqInv, CancelInv,
         \/ \E w \in Works, p \in Cpus, step \in {"insert", "data"} : queue_work_on(w, p, step)
         \/ \E q \in queueing : Insert(q) \/ SetWqData(q) \/ add_timer(q)
         \/ \E w \in Delayed, p \in Cpus : delayed_work_timer_fn(w, p)
  PROVE  CancelInv'
<1>1. RestOK BY DEF WqInv
<1>2. CASE \/ \E w \in Works, p \in Cpus, step \in {"insert", "data"} : queue_work_on(w, p, step)
           \/ \E q \in queueing : add_timer(q)
           \/ \E w \in Delayed, p \in Cpus : delayed_work_timer_fn(w, p)
  <2>1. /\ worklist' = worklist /\ current_work' = current_work /\ wpc' = wpc
        /\ wq_data' = wq_data /\ call' = call /\ done' = done
    BY <1>2 DEF queue_work_on, add_timer, delayed_work_timer_fn, cwqVars, workerVars, callVars
  <2>2. QED BY <2>1, QuietCancel DEF Hand
<1>3. ASSUME NEW q \in queueing, Insert(q) \/ SetWqData(q) PROVE CancelInv'
  <2>1. PICK w \in Works : w = q.work BY ContextFacts
  <2>2. PICK p \in Cpus : p = q.cpu BY ContextFacts
  <2>3. p # NULL BY WorkQueueAssumption
  <2>4. /\ current_work' = current_work /\ wpc' = wpc /\ call' = call /\ done' = done
        /\ should_stop' = should_stop /\ wq_data' = [wq_data EXCEPT ![w] = p]
    BY <1>3, <2>1, <2>2 DEF Insert, SetWqData, __queue_work, cwqVars, workerVars, callVars
  <2>5. \A v \in Works : wq_data'[v] = NULL => wq_data[v] = NULL
    BY <1>1, <2>3, <2>4 DEF RestOK
  <2>6. \A d \in Callers, n \in Cpus : d \in Entries(worklist'[n]) => d \in Entries(worklist[n])
    <3>1. CASE SetWqData(q) BY <3>1 DEF SetWqData, cwqVars
    <3>2. CASE Insert(q)
      <4>1. __queue_work(w, p) BY <2>1, <2>2, <3>2 DEF Insert
      <4>2. QED BY <2>4, <4>1, QueueWork
    <3>3. QED BY <1>3, <3>1, <3>2
  <2>7. QED BY <2>4, <2>5, <2>6, QuietCancel DEF Hand
<1>4. QED BY <1>2, <1>3

(* Going on to the next CPU, when the work runs on none up to this one. *)
LEMMA NextCpuSees ==
  ASSUME NEW r \in Records, r.op \in Cancels, NEW cw, NEW b,
         r.ret >= 0 => \A p \in Cpus : p <= r.cpu => cw[p] # r.work
  PROVE  Sees(NextCpu(r), cw, b)
<1>1. r.ret \in {-1, 0, 1} /\ r.cpu \in 0 .. NCpus BY DEF Records
<1>2. CASE r.cpu < LastCpu
  <2> DEFINE s == [r EXCEPT !.cpu = r.cpu + 1, !.pc = CpuEntry(r.op)]
  <2>1. s.pc = "lock" /\ s.op = r.op /\ s.work = r.work /\ s.ret = r.ret /\ s.cpu = r.cpu + 1
    BY DEF CpuEntry, Records
  <2>2. NextCpu(r) = s BY <1>2 DEF NextCpu
  <2> HIDE DEF s
  <2>3. \A p \in Cpus : p < s.cpu => p <= r.cpu BY <1>1, <2>1, CpusFacts DEF Cpus
  <2>4. QED BY <2>1, <2>2, <2>3 DEF Sees
<1>3. CASE ~(r.cpu < LastCpu) /\ r.ret < 0
  <2> DEFINE s == [r EXCEPT !.pc = CancelStart(r.op), !.cpu = 0, !.cwq = NULL, !.ret = 0]
  <2>1. s.pc \in {"grab", "del_timer"} BY DEF Records, CancelStart
  <2>2. NextCpu(r) = s BY <1>3 DEF NextCpu
  <2> HIDE DEF s
  <2>3. QED BY <2>1, <2>2 DEF Sees
<1>4. CASE ~(r.cpu < LastCpu) /\ ~(r.ret < 0)
  <2> DEFINE s == [r EXCEPT !.pc = "clear", !.cpu = 0, !.cwq = NULL]
  <2>1. s.pc = "clear" /\ s.op = r.op /\ s.work = r.work /\ s.ret = r.ret BY DEF Records
  <2>2. NextCpu(r) = s BY <1>4 DEF NextCpu
  <2> HIDE DEF s
  <2>3. \A p \in Cpus : p <= r.cpu BY <1>1, <1>4, CpusFacts DEF Cpus, LastCpu
  <2>4. r.ret >= 0 BY <1>1, <1>4
  <2>5. QED BY <2>1, <2>2, <2>3, <2>4 DEF Sees
<1>5. QED BY <1>2, <1>3, <1>4

(* What caller c sees after its step. *)
LEMMA CallerSees ==
  ASSUME WqInv, CancelInv, NEW c \in Callers, Caller(c)
  PROVE  Sees(call'[c], current_work, c \in done')
<1>1. TypeOK /\ CallOK /\ CpuOK /\ call \in [Callers -> Records] BY TypeParts DEF WqInv
<1>2. CurData /\ CancelOK BY DEF CancelInv
<1>3. PICK r \in Records : r = call[c] BY <1>1
<1>4. GoodCall(r) /\ r.pc \in PcsOf(r.op) BY <1>1, <1>3, CallerIn
<1>5. CASE r.op \notin Cancels
  <2>1. call'[c].op \in {r.op, "none"} BY <1>1, <1>3, CallerMoves
  <2>2. QED BY <1>5, <2>1 DEF Sees
<1>6. CASE r.op \in Cancels
  <2>1. r.pc \in {"del_timer", "grab", "data", "grab_lock", "match", "wq", "lock", "wait", "clear"}
    BY <1>4, <1>6 DEF PcsOf
  <2>2. ASSUME NEW s, call'[c] = s, s.pc \in {"wq", "grab", "data", "grab_lock", "match", "idle"}
        PROVE  Sees(call'[c], current_work, c \in done')
    BY <2>2 DEF Sees
  <2>3. CASE DelTimer(c)
    <3>1. \/ call'[c] = [r EXCEPT !.ret = 1, !.pc = "wq"]
          \/ call'[c] = [r EXCEPT !.pc = "grab"]
      BY <1>1, <1>3, <1>6, <2>3 DEF DelTimer, Goto
    <3>2. call'[c].pc \in {"wq", "grab"} BY <3>1 DEF Records
    <3>3. QED BY <2>2, <3>2
  <2>4. CASE GrabBit(c)
    <3>1. call'[c].pc \in {"wq", "data"} BY <1>1, <2>4, GotoFields DEF GrabBit
    <3>2. QED BY <2>2, <3>1
  <2>5. CASE GrabReads(c) \/ GrabLooks(c) \/ GrabMatches(c)
    <3>1. PICK p :
            \/ call'[c] = [r EXCEPT !.pc = "wq", !.ret = -1]
            \/ call'[c] = [r EXCEPT !.pc = "grab_lock", !.cwq = p]
            \/ call'[c] = [r EXCEPT !.pc = "match"]
            \/ call'[c] = [r EXCEPT !.pc = "wq", !.ret = 1]
      <4>1. CASE GrabReads(c) BY <1>1, <1>3, <4>1 DEF GrabReads
      <4>2. CASE GrabLooks(c) BY <1>1, <1>3, <4>2 DEF GrabLooks
      <4>3. CASE GrabMatches(c) BY <1>1, <1>3, <4>3 DEF GrabMatches
      <4>4. QED BY <2>5, <4>1, <4>2, <4>3
    <3>2. call'[c].pc \in {"wq", "grab_lock", "match"} BY <3>1 DEF Records
    <3>3. QED BY <2>2, <3>2
  <2>6. CASE CancelClears(c)
    <3>1. call'[c] = Idle BY <1>1, <2>6 DEF CancelClears
    <3>2. call'[c].pc = "idle" BY <3>1 DEF Idle
    <3>3. QED BY <2>2, <3>2
  <2>7. CASE wait_on_work(c)
    <3>1. r.pc = "wq" /\ r.work \in Works BY <1>1, <1>3, <2>7, CallerIn DEF wait_on_work
    <3>2. CASE wq_data[r.work] = NULL
      <4> DEFINE s == [r EXCEPT !.cpu = LastCpu]
      <4>1. call'[c] = NextCpu(s) BY <1>1, <1>3, <2>7, <3>2 DEF wait_on_work
      <4>2. LastCpu \in 0 .. NCpus BY CpusFacts DEF LastCpu
      <4>3. s \in Records /\ s.op = r.op /\ s.work = r.work BY <4>2 DEF Records
      <4> HIDE DEF s
      <4>4. \A p \in Cpus : current_work[p] # r.work BY <1>2, <3>1, <3>2 DEF CurData
      <4>5. QED BY <1>6, <4>1, <4>3, <4>4, NextCpuSees
    <3>3. CASE wq_data[r.work] # NULL
      <4> DEFINE s == [r EXCEPT !.pc = "lock", !.cpu = FirstCpu, !.cwq = NULL]
      <4>1. call'[c] = s BY <1>1, <1>3, <2>7, <3>3 DEF wait_on_work
      <4>2. s.pc = "lock" /\ s.cpu = 1 BY DEF Records, FirstCpu
      <4> HIDE DEF s
      <4>3. \A p \in Cpus : ~(p < 1) BY CpusFacts DEF Cpus
      <4>4. QED BY <4>1, <4>2, <4>3 DEF Sees
    <3>4. QED BY <3>2, <3>3
  <2>8. CASE wait_on_cpu_work(c)
    <3>1. r.pc = "lock" /\ r.cpu \in Cpus BY <1>3, <1>4, <2>8 DEF wait_on_cpu_work, GoodCall
    <3>2. r.ret >= 0 => \A p \in Cpus : p < r.cpu => current_work[p] # r.work
      BY <1>2, <1>3, <1>6, <3>1 DEF CancelOK, Sees
    <3>3. CASE current_work[r.cpu] = r.work
      <4>1. Goto(c, "wait") /\ done' = done \ {c}
        BY <1>3, <2>8, <3>3 DEF wait_on_cpu_work, insert_wq_barrier
      <4>2. PICK s : s = call'[c] OBVIOUS
      <4>3. /\ s.pc = "wait" /\ s.op = r.op /\ s.work = r.work /\ s.ret = r.ret /\ s.cpu = r.cpu
        BY <1>1, <1>3, <4>1, <4>2, GotoFields
      <4>4. c \notin done' BY <4>1
      <4>5. Sees(s, current_work, c \in done') BY <3>2, <4>3, <4>4 DEF Sees
      <4>6. QED BY <4>2, <4>5
    <3>4. CASE current_work[r.cpu] # r.work
      <4>1. call'[c] = NextCpu(r) BY <1>1, <1>3, <2>8, <3>4 DEF wait_on_cpu_work
      <4>2. \A p \in Cpus : p <= r.cpu => p < r.cpu \/ p = r.cpu BY <3>1, CpusFacts DEF Cpus
      <4>3. r.ret >= 0 => \A p \in Cpus : p <= r.cpu => current_work[p] # r.work
        BY <3>2, <3>4, <4>2
      <4>4. QED BY <1>6, <4>1, <4>3, NextCpuSees
    <3>5. QED BY <3>3, <3>4
  <2>9. CASE wait_for_completion(c)
    <3>1. r.pc = "wait" /\ r.cpu \in Cpus /\ c \in done
      BY <1>3, <1>4, <1>6, <2>9 DEF wait_for_completion, GoodCall, Completed
    <3>2. r.ret >= 0 => /\ \A p \in Cpus : p < r.cpu => current_work[p] # r.work
                        /\ current_work[r.cpu] # r.work
      BY <1>2, <1>3, <1>6, <3>1 DEF CancelOK, Sees
    <3>3. call'[c] = NextCpu(r) BY <1>1, <1>3, <1>6, <2>9 DEF wait_for_completion
    <3>4. \A p \in Cpus : p <= r.cpu => p < r.cpu \/ p = r.cpu BY <3>1, CpusFacts DEF Cpus
    <3>5. r.ret >= 0 => \A p \in Cpus : p <= r.cpu => current_work[p] # r.work
      BY <3>2, <3>4
    <3>6. QED BY <1>6, <3>3, <3>5, NextCpuSees
  <2>10. CASE \/ flush_cpu_workqueue(c) \/ kthread_stop(c) \/ ThreadExited(c) \/ Return(c)
              \/ FlushReads(c) \/ FlushLooks(c) \/ FlushMatches(c) \/ FlushRequeues(c)
    BY <1>3, <1>6, <2>1, <2>10
    DEF flush_cpu_workqueue, kthread_stop, ThreadExited, Return, FlushReads, FlushLooks,
        FlushMatches, FlushRequeues
  <2>11. QED BY <2>3, <2>4, <2>5, <2>6, <2>7, <2>8, <2>9, <2>10 DEF Caller
<1>7. QED BY <1>5, <1>6

LEMMA RunCancel ==
  ASSUME WqInv, TokenInv, CancelInv, NEW p \in Cpus, run_workqueue(p)
  PROVE  CancelInv'
<1>1. CpuOK /\ CallOK /\ Token /\ DataOK BY TypeParts DEF WqInv, TokenInv
<1>2. CurData /\ BarrierAt /\ CancelOK BY DEF CancelInv
<1>3. call' = call /\ done' = done /\ wq_data' = wq_data
  BY DEF run_workqueue, callVars, workVars
<1>4. worklist[p] \in Seq(Items) BY <1>1 DEF CpuOK
<1>5. PICK w : /\ w = current_work'[p]
               /\ \A n \in Cpus : n # p => current_work'[n] = current_work[n] /\ wpc'[n] = wpc[n]
               /\ \A n \in Cpus : n # p => worklist'[n] = worklist[n]
               /\ Entries(worklist'[p]) \subseteq Entries(worklist[p])
               /\ (w = NULL /\ wpc'[p] = "prepare") \/ w \in Entries(worklist[p])
  <2>1. CASE list_empty(worklist[p])
    BY <1>1, <2>1 DEF run_workqueue, CpuOK
  <2>2. CASE ~list_empty(worklist[p])
    <3>1. /\ current_work'[p] = list_first_entry(worklist[p])
          /\ \A n \in Cpus : n # p => current_work'[n] = current_work[n] /\ wpc'[n] = wpc[n]
          /\ \A n \in Cpus : n # p => worklist'[n] = worklist[n]
          /\ worklist'[p] = Tail(worklist[p])
      BY <1>1, <2>2 DEF run_workqueue, CpuOK
    <3>2. list_first_entry(worklist[p]) \in Entries(worklist[p])
      <4>1. 1 \in 1 .. Len(worklist[p]) BY <1>4, <2>2 DEF list_empty
      <4>2. QED BY <4>1 DEF Entries, list_first_entry
    <3>3. Entries(Tail(worklist[p])) \subseteq Entries(worklist[p])
      <4>1. worklist[p] # << >> BY <2>2 DEF list_empty
      <4>2. Len(worklist[p]) \in Nat /\ Len(worklist[p]) >= 1 BY <1>4, <4>1
      <4>3. Len(Tail(worklist[p])) = Len(worklist[p]) - 1 BY <1>4, <4>1
      <4>4. \A j \in 1 .. (Len(worklist[p]) - 1) : Tail(worklist[p])[j] = worklist[p][j + 1]
        BY <1>4, <4>1
      <4>5. \A j \in 1 .. (Len(worklist[p]) - 1) : j + 1 \in 1 .. Len(worklist[p]) BY <4>2
      <4>6. QED BY <4>3, <4>4, <4>5 DEF Entries
    <3>4. QED BY <3>1, <3>2, <3>3
  <2>3. QED BY <2>1, <2>2
<1>6. CurData'
  <2>1. w \in Works => wq_data[w] # NULL
    <3>1. NULL \notin Works /\ NULL # p BY WorkQueueAssumption DEF Items
    <3>2. QED BY <1>1, <1>5, <3>1 DEF DataOK
  <2>2. QED BY <1>2, <1>3, <1>5, <2>1 DEF CurData
<1>7. BarrierAt'
  <2> SUFFICES ASSUME NEW c \in Callers, NEW n \in Cpus,
                      c \in Entries(worklist'[n]) \/ Hand(c, n)'
               PROVE  n = Spot(call[c])
    BY <1>3 DEF BarrierAt
  <2>1. CASE n # p BY <1>2, <1>5, <2>1 DEF BarrierAt, Hand
  <2>2. CASE n = p
    <3>1. c # NULL BY WorkQueueAssumption DEF Items
    <3>2. c \in Entries(worklist[p]) BY <1>5, <2>2, <3>1 DEF Hand
    <3>3. QED BY <1>2, <2>2, <3>2 DEF BarrierAt
  <2>3. QED BY <2>1, <2>2
<1>8. CancelOK'
  <2> SUFFICES ASSUME NEW c \in Callers PROVE Sees(call[c], current_work', c \in done)
    BY <1>3 DEF CancelOK
  <2>1. PICK r : r = call[c] OBVIOUS
  <2>2. Sees(r, current_work, c \in done) BY <1>2, <2>1 DEF CancelOK
  <2>3. ASSUME r.op \in Cancels, r.ret >= 0, r.pc \in {"lock", "wait", "clear"}
        PROVE  w # r.work
    <3>1. r.work \in Works BY <1>1, <2>1, <2>3, CallerIn
    <3>2. OwnsBit(call[c], r.work) BY <2>1, <2>3 DEF OwnsBit
    <3>3. r.work \notin Entries(worklist[p]) BY <1>1, <3>1, <3>2, OnePlace
    <3>4. r.work # NULL BY <3>1, WorkQueueAssumption DEF Items
    <3>5. QED BY <1>5, <3>3, <3>4
  <2>4. ASSUME NEW n, n \in Cpus \/ (r.pc = "wait" /\ n = r.cpu), r.op \in Cancels, r.ret >= 0,
               r.pc \in {"lock", "wait", "clear"}, current_work[n] # r.work
        PROVE  current_work'[n] # r.work
    <3>1. n \in Cpus BY <1>1, <2>1, <2>4, CallerIn DEF GoodCall
    <3>2. QED BY <1>5, <2>3, <2>4, <3>1
  <2>5. Sees(r, current_work', c \in done) BY <2>2, <2>4 DEF Sees
  <2>6. QED BY <2>1, <2>5
<1>9. QED BY <1>6, <1>7, <1>8 DEF CancelInv

LEMMA FuncCancel ==
  ASSUME WqInv, CancelInv, NEW p \in Cpus, CallFunc(p)
  PROVE  CancelInv'
<1>1. CpuOK /\ CallOK BY TypeParts DEF WqInv
<1>2. CurData /\ BarrierAt /\ CancelOK BY DEF CancelInv
<1>3. /\ worklist' = worklist /\ current_work' = current_work /\ wq_data' = wq_data /\ call' = call
      /\ wpc[p] = "run" /\ wpc'[p] = "running" /\ \A n \in Cpus : n # p => wpc'[n] = wpc[n]
  BY <1>1 DEF CallFunc, cwqVars, workVars, CpuOK
<1>4. \A d \in Callers, n \in Cpus : Hand(d, n)' => Hand(d, n) BY <1>3 DEF Hand
<1>5. CurData' BY <1>2, <1>3 DEF CurData
<1>6. BarrierAt' BY <1>2, <1>3, <1>4 DEF BarrierAt
<1>7. CancelOK'
  <2> SUFFICES ASSUME NEW c \in Callers PROVE Sees(call[c], current_work, c \in done')
    BY <1>3 DEF CancelOK
  <2>1. Sees(call[c], current_work, c \in done) BY <1>2 DEF CancelOK
  <2>2. CASE c # current_work[p]
    <3>1. c \in done' <=> c \in done BY <2>2 DEF CallFunc
    <3>2. QED BY <2>1, <3>1 DEF Sees
  <2>3. CASE c = current_work[p]
    <3>1. Hand(c, p) BY <1>3, <2>3 DEF Hand
    <3>2. call[c].op \in Cancels => call[c].cpu = p BY <1>2, <3>1 DEF BarrierAt, Spot
    <3>3. call[c].op \in Cancels => call[c].work # c
      BY <1>1, CallerIn, WorkQueueAssumption
    <3>4. QED BY <2>1, <2>3, <3>2, <3>3 DEF Sees
  <2>4. QED BY <2>2, <2>3
<1>8. QED BY <1>5, <1>6, <1>7 DEF CancelInv

LEMMA WorkerCancel ==
  ASSUME WqInv, TokenInv, CancelInv, NEW p \in Cpus, Worker(p)
  PROVE  CancelInv'
<1>1. CpuOK BY TypeParts DEF WqInv
<1>2. CASE prepare_to_wait(p) \/ WorkerTest(p) \/ finish_wait(p) \/ work_clear_pending(p)
  <2>1. /\ worklist' = worklist /\ current_work' = current_work /\ wq_data' = wq_data
        /\ call' = call /\ done' = done
    BY <1>2 DEF prepare_to_wait, WorkerTest, finish_wait, work_clear_pending, cwqVars, workVars,
                callVars
  <2>2. /\ wpc'[p] \in {"clear", "run"} => wpc[p] \in {"clear", "run"}
        /\ \A n \in Cpus : n # p => wpc'[n] = wpc[n]
    BY <1>1, <1>2 DEF prepare_to_wait, WorkerTest, finish_wait, work_clear_pending, CpuOK
  <2>3. \A d \in Callers, n \in Cpus : Hand(d, n)' => Hand(d, n) BY <2>1, <2>2 DEF Hand
  <2>4. QED BY <2>1, <2>3, QuietCancel
<1>3. QED BY <1>2, RunCancel, FuncCancel DEF Worker

LEMMA CancelStep ==
  ASSUME WqInv, TokenInv, CancelInv, [Next]_vars
  PROVE  CancelInv'
<1>1. CASE UNCHANGED vars
  BY <1>1 DEF vars, CancelInv, CurData, BarrierAt, CancelOK, Sees, Hand, Spot
<1>2. ASSUME NEW c \in Callers, Caller(c) PROVE CancelInv'
  <2>1. CallStep(c) BY <1>2, CallerSteps
  <2>2. Sees(call'[c], current_work, c \in done') BY <1>2, CallerSees
  <2>3. QED BY <1>2, <2>1, <2>2, CallerFrame, CallCancel
<1>3. ASSUME NEW c \in Callers,
             \/ \E op \in CpuLoops : BeginCpuLoop(c, op)
             \/ \E op \in AllOps, w \in Works : Begin(c, op, w)
      PROVE  CancelInv'
  <2>1. /\ CallStep(c) /\ call[c].pc = "idle"
        /\ UNCHANGED <<worklist, current_work, wpc, workVars, done>>
        /\ call'[c].pc \in {"lock", "fw", "grab", "del_timer"}
        /\ call'[c].pc = "lock" => call'[c].op \in CpuLoops
    BY <1>3, BeginCall
  <2>2. Sees(call'[c], current_work, c \in done') BY <2>1 DEF Sees
  <2>3. wq_data' = wq_data /\ worklist' = worklist BY <2>1 DEF workVars
  <2>4. QED BY <2>1, <2>2, <2>3, CallCancel
<1>4. CASE create_workqueue
  <2>1. /\ \A p \in Cpus : worklist'[p] = << >> /\ current_work'[p] = NULL /\ wpc'[p] = "prepare"
        /\ \A c \in Callers : call'[c].op = "none"
    BY <1>4 DEF create_workqueue, callVars, Idle
  <2>2. \A p \in Cpus : Entries(worklist'[p]) = {} BY <2>1 DEF Entries
  <2>3. CurData' BY <2>1, WorkQueueAssumption DEF CurData, Items
  <2>4. BarrierAt' BY <2>1, <2>2 DEF BarrierAt, Hand
  <2>5. CancelOK' BY <2>1 DEF CancelOK, Sees
  <2>6. QED BY <2>3, <2>4, <2>5 DEF CancelInv
<1>5. QED BY <1>1, <1>2, <1>3, <1>4, ContextCancel, WorkerCancel DEF Next

(* The inductive invariant of the synchronous cancels: a cancel knows of   *)
(* every CPU it has been to that the worker does not have the work.        *)
THEOREM WorkQueueCancels ==
  ASSUME Settled
  PROVE  Spec => []CancelInv
<1>1. ASSUME Init PROVE CancelInv
  <2>1. /\ \A p \in Cpus : Entries(worklist[p]) = {} /\ current_work[p] = NULL /\ wpc[p] = "prepare"
        /\ \A c \in Callers : call[c].op = "none"
    BY <1>1 DEF Init, Entries, Idle
  <2>2. CurData BY <2>1, WorkQueueAssumption DEF CurData, Items
  <2>3. BarrierAt BY <2>1 DEF BarrierAt, Hand
  <2>4. CancelOK BY <2>1 DEF CancelOK, Sees
  <2>5. QED BY <2>2, <2>3, <2>4 DEF CancelInv
<1>2. WqInv /\ TokenInv /\ CancelInv /\ [Next]_vars => CancelInv' BY CancelStep
<1>3. QED BY <1>1, <1>2, WorkQueueInvariant, WorkQueueTokens, PTL DEF Spec

(* When a synchronous cancel lets go of the pending bit the work is on no  *)
(* list, has no timer and does not run anywhere (workqueue.c:565-600).  A  *)
(* delayed work that is cancelled has to stay on one CPU for that.         *)
THEOREM WorkQueueCancelComplete ==
  ASSUME Settled
  PROVE  Spec => []CancelComplete
<1>1. ASSUME WqInv, TokenInv, CancelInv PROVE CancelComplete
  <2>1. CallOK /\ Token /\ CancelOK BY <1>1 DEF WqInv, TokenInv, CancelInv
  <2> SUFFICES ASSUME NEW c \in Callers, call[c].op \in Cancels, call[c].pc = "clear"
               PROVE  /\ ~Linked(call[c].work) /\ call[c].work \notin timer
                      /\ \A q \in queueing : q.work # call[c].work
                      /\ \A p \in Cpus : current_work[p] # call[c].work
    BY DEF CancelComplete
  <2>2. PICK w \in Works : w = call[c].work BY <2>1, CallerIn
  <2>3. call[c].ret >= 0 BY <2>1, CallerIn DEF GoodCall
  <2>4. OwnsBit(call[c], w) BY <2>2, <2>3 DEF OwnsBit
  <2>5. /\ w \notin timer /\ \A q \in queueing : q.work # w
        /\ \A p \in Cpus : w \notin Entries(worklist[p])
    BY <2>1, <2>4, OnePlace
  <2>6. \A p \in Cpus : current_work[p] # w BY <2>1, <2>2, <2>3 DEF CancelOK, Sees
  <2>7. QED BY <2>2, <2>5, <2>6 DEF Linked
<1>2. QED BY <1>1, WorkQueueInvariant, WorkQueueTokens, WorkQueueCancels, PTL

-------------------------------------------------------------------------------
(* A flush is complete.  What caller c still has to wait for is on a list  *)
(* or being run, ...                                                       *)
TodoOK(c) ==
  \A x \in todo[c] :
    /\ x[3] = "list" => x[1] \in Entries(worklist[x[2]])
    /\ x[3] = "run" => current_work[x[2]] = x[1]

(* ... is where the call r looks for it, t being what it waits for, ... *)
Here(r, t, data) ==
  /\ r.op \notin Flushes \cup CpuLoops => t = {}
  /\ r.op = "flush_workqueue" => \A x \in t : x[2] >= r.cpu /\ r.pc # "return"
  /\ r.op \in Flushes =>
       /\ r.pc \in {"del_timer", "requeue", "fw", "return"} => t = {}
       /\ \A x \in t : x[1] = r.work /\ x[2] = r.cwq
       /\ r.pc \in {"fw_lock", "fw_match"} /\ t # {} => data[r.work] = r.cwq

(* ... and is ahead of its barrier. *)
Ahead(c) ==
  call[c].pc = "wait" /\ call[c].op \in Flushes \cup {"flush_workqueue"} =>
    \A x \in todo[c] : x[2] = Spot(call[c]) =>
      /\ c \notin done /\ \A p \in Cpus : ~Hand(c, p)
      /\ x[3] = "list" /\ c \in Entries(worklist[x[2]]) => Precedes(worklist[x[2]], x[1], c)

FlushInv == \A c \in Callers : TodoOK(c) /\ Here(call[c], todo[c], wq_data) /\ Ahead(c)

LEMMA TodoIn ==
  ASSUME RestOK, NEW c \in Callers, NEW x \in todo[c]
  PROVE  /\ x = <<x[1], x[2], x[3]>> /\ x[1] \in Works /\ x[2] \in Cpus /\ x[3] \in {"list", "run"}
         /\ x[1] \notin Callers
BY WorkQueueAssumption DEF RestOK, Pieces

(* A step that leaves piece x where it is, ... *)
Stays(x) ==
  /\ x[3] = "list" => x[1] \in Entries(worklist'[x[2]])
  /\ x[3] = "run" => current_work'[x[2]] = current_work[x[2]]

(* ... and ahead of caller d's barrier. *)
StaysAhead(x, d) ==
  x[3] = "list" /\ d \in Entries(worklist'[x[2]]) =>
    /\ d \in Entries(worklist[x[2]])
    /\ Precedes(worklist[x[2]], x[1], d) => Precedes(worklist'[x[2]], x[1], d)

(* A caller that a step leaves alone. *)
LEMMA FlushOther ==
  ASSUME NEW d \in Callers, TodoOK(d), Here(call[d], todo[d], wq_data), Ahead(d),
         call'[d] = call[d], todo'[d] \subseteq todo[d], d \in done' => d \in done,
         \A p \in Cpus : Hand(d, p)' => Hand(d, p),
         \A x \in todo'[d] : Stays(x) /\ StaysAhead(x, d),
         call[d].op \in Flushes /\ call[d].pc \in {"fw_lock", "fw_match"} /\ todo'[d] # {}
           /\ wq_data[call[d].work] = call[d].cwq => wq_data'[call[d].work] = call[d].cwq
  PROVE  TodoOK(d)' /\ Here(call'[d], todo'[d], wq_data') /\ Ahead(d)'
<1>1. TodoOK(d)' BY DEF TodoOK, Stays
<1>2. Here(call'[d], todo'[d], wq_data')
  <2>1. PICK r : r = call[d] OBVIOUS
  <2>2. PICK t : t = todo[d] OBVIOUS
  <2>3. PICK u : u = todo'[d] OBVIOUS
  <2>4. u \subseteq t /\ Here(r, t, wq_data) BY <2>1, <2>2, <2>3
  <2>5. r.op \in Flushes /\ r.pc \in {"fw_lock", "fw_match"} /\ u # {}
          /\ wq_data[r.work] = r.cwq => wq_data'[r.work] = r.cwq
    BY <2>1, <2>3
  <2>6. Here(r, u, wq_data') BY <2>4, <2>5 DEF Here
  <2>7. QED BY <2>1, <2>3, <2>6
<1>3. Ahead(d)'
  <2> SUFFICES ASSUME call[d].pc = "wait", call[d].op \in Flushes \cup {"flush_workqueue"},
                      NEW x \in todo'[d], x[2] = Spot(call[d])
               PROVE  /\ d \notin done' /\ \A p \in Cpus : ~Hand(d, p)'
                      /\ x[3] = "list" /\ d \in Entries(worklist'[x[2]]) =>
                           Precedes(worklist'[x[2]], x[1], d)
    BY DEF Ahead
  <2>1. /\ d \notin done /\ \A p \in Cpus : ~Hand(d, p)
        /\ x[3] = "list" /\ d \in Entries(worklist[x[2]]) => Precedes(worklist[x[2]], x[1], d)
    BY DEF Ahead
  <2>2. QED BY <2>1 DEF StaysAhead
<1>4. QED BY <1>1, <1>2, <1>3

LEMMA ListsSame ==
  ASSUME NEW d \in Callers, TodoOK(d), worklist' = worklist, current_work' = current_work,
         NEW x \in todo[d]
  PROVE  Stays(x) /\ StaysAhead(x, d)
BY DEF Stays, StaysAhead, TodoOK

(* A work is queued: nothing that was on a list moves. *)
LEMMA QueueKeeps ==
  ASSUME WqInv, NEW d \in Callers, TodoOK(d), NEW w \in Works, NEW p \in Cpus, __queue_work(w, p),
         current_work' = current_work, NEW x \in todo[d]
  PROVE  Stays(x) /\ StaysAhead(x, d)
<1>1. CpuOK /\ RestOK BY TypeParts DEF WqInv
<1>2. x[2] \in Cpus /\ x[1] \in Works BY <1>1, TodoIn
<1>3. worklist[p] \in Seq(Items) /\ w \in Items /\ w # d
  BY <1>1, WorkQueueAssumption DEF CpuOK, Items
<1>4. /\ worklist'[p] = list_add_tail(w, worklist[p])
      /\ \A n \in Cpus : n # p => worklist'[n] = worklist[n]
  BY <1>1 DEF __queue_work, CpuOK
<1>5. CASE x[2] # p BY <1>2, <1>4, <1>5 DEF Stays, StaysAhead, TodoOK
<1>6. CASE x[2] = p
  <2>1. Entries(worklist'[p]) = Entries(worklist[p]) \cup {w} BY <1>3, <1>4, ListAddTail
  <2>2. Stays(x) BY <1>6, <2>1 DEF Stays, TodoOK
  <2>3. Precedes(worklist[p], x[1], d) => Precedes(worklist'[p], x[1], d)
    BY <1>3, <1>4, PrecedesAddTail
  <2>4. QED BY <1>3, <1>6, <2>1, <2>2, <2>3 DEF StaysAhead
<1>7. QED BY <1>5, <1>6

(* A barrier is linked: the others stay in their order. *)
LEMMA BarrierKeeps ==
  ASSUME WqInv, NEW d \in Callers, TodoOK(d), NEW c \in Callers, NEW p, NEW q \in Cpus,
         NEW i \in 1 .. Len(worklist[q]) + 1, insert_wq_barrier(c, p, q, i),
         current_work' = current_work, NEW x \in todo[d]
  PROVE  Stays(x) /\ (d # c => StaysAhead(x, d))
<1>1. CpuOK /\ RestOK BY TypeParts DEF WqInv
<1>2. x[2] \in Cpus BY <1>1, TodoIn
<1>3. worklist[q] \in Seq(Items) /\ c \in Items BY <1>1 DEF CpuOK, Items
<1>4. /\ worklist'[q] = list_insert(worklist[q], i, c)
      /\ \A n \in Cpus : n # q => worklist'[n] = worklist[n]
      /\ \A y : \A n \in Cpus :
           y \in Entries(worklist'[n]) <=> y \in Entries(worklist[n]) \/ (y = c /\ n = q)
  BY BarrierLists
<1>5. Stays(x) BY <1>2, <1>4 DEF Stays, TodoOK
<1>6. ASSUME d # c PROVE StaysAhead(x, d)
  <2>1. Precedes(worklist[q], x[1], d) => Precedes(worklist'[q], x[1], d)
    BY <1>3, <1>4, PrecedesInsert
  <2>2. QED BY <1>2, <1>4, <1>6, <2>1 DEF StaysAhead
<1>7. QED BY <1>5, <1>6

(* A work is stolen from its list, and no caller waits for it there. *)
LEMMA StealKeeps ==
  ASSUME WqInv, WorkOnce, NEW d \in Callers, TodoOK(d), NEW w \in Works,
         \A q \in Cpus : worklist'[q] =
           IF w \in Entries(worklist[q]) THEN list_del(worklist[q], w) ELSE worklist[q],
         current_work' = current_work, NEW x \in todo[d], ~(x[1] = w /\ x[3] = "list")
  PROVE  Stays(x) /\ StaysAhead(x, d)
<1>1. CpuOK /\ RestOK BY TypeParts DEF WqInv
<1>2. PICK p \in Cpus : p = x[2] BY <1>1, TodoIn
<1>3. w # d BY WorkQueueAssumption
<1>4. CASE w \notin Entries(worklist[p])
  <2>1. worklist'[p] = worklist[p] BY <1>4
  <2>2. QED BY <1>2, <2>1 DEF Stays, StaysAhead, TodoOK
<1>5. CASE w \in Entries(worklist[p])
  <2>1. worklist'[p] = list_del(worklist[p], w) BY <1>5
  <2>2. worklist[p] \in Seq(Items) /\ NoDuplicates(worklist[p]) BY ListsOnce
  <2>3. Entries(worklist'[p]) = Entries(worklist[p]) \ {w} BY <1>5, <2>1, <2>2, ListDel
  <2>4. x[1] # w => (Precedes(worklist[p], x[1], d) => Precedes(worklist'[p], x[1], d))
    BY <1>3, <1>5, <2>1, <2>2, PrecedesDel
  <2>5. Stays(x) BY <1>2, <2>3 DEF Stays, TodoOK
  <2>6. StaysAhead(x, d) BY <1>2, <2>3, <2>4 DEF StaysAhead
  <2>7. QED BY <2>5, <2>6
<1>6. QED BY <1>4, <1>5

(* What a flush_work() that has read work->data is promised when the work  *)
(* is queued again.                                                        *)
LEMMA MovedKeeps ==
  ASSUME WqInv, NEW d \in Callers, NEW w \in Works, NEW p \in Cpus, __queue_work(w, p)
  PROVE  /\ todo'[d] \subseteq todo[d]
         /\ call[d].op \in Flushes /\ todo'[d] # {} /\ wq_data[call[d].work] = call[d].cwq =>
              wq_data'[call[d].work] = call[d].cwq
<1>1. RestOK /\ CallOK BY DEF WqInv
<1>2. /\ todo'[d] = IF call[d].op \in Flushes /\ call[d].work = w /\ call[d].cwq # p
                    THEN {} ELSE todo[d]
      /\ \A v \in Works : wq_data'[v] = IF v = w THEN p ELSE wq_data[v]
  BY <1>1 DEF __queue_work, Moved, RestOK
<1>3. call[d].op \in Flushes => call[d].work \in Works BY <1>1 DEF CallOK, GoodCall
<1>4. QED BY <1>2, <1>3

LEMMA ContextFlush ==
  ASSUME OneCpu, WqInv, TokenInv, FlushInv,
         \/ \E w \in Works, p \in Cpus, step \in {"insert", "data"} : queue_work_on(w, p, step)
         \/ \E q \in queueing : Insert(q) \/ SetWqData(q) \/ add_timer(q)
         \/ \E w \in Delayed, p \in Cpus : delayed_work_timer_fn(w, p)
  PROVE  FlushInv'
<1> SUFFICES ASSUME NEW d \in Callers
             PROVE  TodoOK(d)' /\ Here(call'[d], todo'[d], wq_data') /\ Ahead(d)'
  BY DEF FlushInv
<1>1. RestOK /\ CallOK BY DEF WqInv
<1>2. TodoOK(d) /\ Here(call[d], todo[d], wq_data) /\ Ahead(d) BY DEF FlushInv
<1>3. CASE \/ \E w \in Works, p \in Cpus, step \in {"insert", "data"} : queue_work_on(w, p, step)
           \/ \E q \in queueing : add_timer(q)
           \/ \E w \in Delayed, p \in Cpus : delayed_work_timer_fn(w, p)
  <2>1. /\ worklist' = worklist /\ current_work' = current_work /\ wpc' = wpc
        /\ wq_data' = wq_data /\ call' = call /\ done' = done /\ todo' = todo
    BY <1>3 DEF queue_work_on, add_timer, delayed_work_timer_fn, cwqVars, workerVars, callVars
  <2>2. \A x \in todo'[d] : Stays(x) /\ StaysAhead(x, d) BY <1>2, <2>1, ListsSame
  <2>3. \A p \in Cpus : Hand(d, p)' => Hand(d, p) BY <2>1 DEF Hand
  <2>4. QED BY <1>2, <2>1, <2>2, <2>3, FlushOther
<1>4. ASSUME NEW q \in queueing, SetWqData(q)
      PROVE  TodoOK(d)' /\ Here(call'[d], todo'[d], wq_data') /\ Ahead(d)'
  <2>1. /\ worklist' = worklist /\ current_work' = current_work /\ wpc' = wpc
        /\ call' = call /\ done' = done /\ todo' = todo
        /\ q.step = "data" /\ wq_data' = [wq_data EXCEPT ![q.work] = q.cpu]
    BY <1>4 DEF SetWqData, cwqVars, workerVars, callVars
  <2>2. \A x \in todo'[d] : Stays(x) /\ StaysAhead(x, d) BY <1>2, <2>1, ListsSame
  <2>3. \A p \in Cpus : Hand(d, p)' => Hand(d, p) BY <2>1 DEF Hand
  <2>4. ASSUME call[d].op \in Flushes, call[d].pc \in {"fw_lock", "fw_match"},
               wq_data[call[d].work] = call[d].cwq
        PROVE  wq_data'[call[d].work] = call[d].cwq
    <3>1. PICK w \in Works : w = call[d].work BY <1>1, <2>4, CallerIn
    <3>2. CASE w # q.work BY <1>1, <2>1, <2>4, <3>1, <3>2 DEF RestOK
    <3>3. CASE w = q.work
      <4>1. w \in Delayed /\ q.cpu \in On[w] BY <2>1, <3>3, ContextFacts
      <4>2. call[d].cwq \in On[w] BY <2>4, <3>1, <4>1 DEF TokenInv, OnData, Looking
      <4>3. q.cpu = call[d].cwq BY <4>1, <4>2 DEF OneCpu, Steady
      <4>4. wq_data'[w] = q.cpu BY <1>1, <2>1, <3>3 DEF RestOK
      <4>5. QED BY <3>1, <4>3, <4>4
    <3>4. QED BY <3>2, <3>3
  <2>5. QED BY <1>2, <2>1, <2>2, <2>3, <2>4, FlushOther
<1>5. ASSUME NEW q \in queueing, Insert(q)
      PROVE  TodoOK(d)' /\ Here(call'[d], todo'[d], wq_data') /\ Ahead(d)'
  <2>1. PICK w \in Works : w = q.work BY ContextFacts
  <2>2. PICK p \in Cpus : p = q.cpu BY ContextFacts
  <2>3. /\ current_work' = current_work /\ wpc' = wpc /\ call' = call /\ done' = done
        /\ __queue_work(w, p)
    BY <1>5, <2>1, <2>2 DEF Insert, callVars
  <2>4. /\ todo'[d] \subseteq todo[d]
        /\ call[d].op \in Flushes /\ todo'[d] # {} /\ wq_data[call[d].work] = call[d].cwq =>
             wq_data'[call[d].work] = call[d].cwq
    BY <2>3, MovedKeeps
  <2>5. \A x \in todo[d] : Stays(x) /\ StaysAhead(x, d) BY <1>2, <2>3, QueueKeeps
  <2>6. \A n \in Cpus : Hand(d, n)' => Hand(d, n) BY <2>3 DEF Hand
  <2>7. QED BY <1>2, <2>3, <2>4, <2>5, <2>6, FlushOther
<1>6. QED BY <1>3, <1>4, <1>5

(* The worker takes the first entry of its list. *)
LEMMA RunFlush ==
  ASSUME WqInv, TokenInv, CancelInv, FlushInv, NEW p \in Cpus, run_workqueue(p)
  PROVE  FlushInv'
<1> SUFFICES ASSUME NEW d \in Callers
             PROVE  TodoOK(d)' /\ Here(call'[d], todo'[d], wq_data') /\ Ahead(d)'
  BY DEF FlushInv
<1>1. CpuOK /\ RestOK /\ BarrierAt /\ WorkOnce BY TypeParts DEF WqInv, CancelInv, TokenInv
<1>2. TodoOK(d) /\ Here(call[d], todo[d], wq_data) /\ Ahead(d) BY DEF FlushInv
<1>3. call' = call /\ done' = done /\ wq_data' = wq_data
  BY DEF run_workqueue, callVars, workVars
<1>4. worklist[p] \in Seq(Items) /\ NoDuplicates(worklist[p]) BY <1>1, ListsOnce
<1>5. \A n \in Cpus : n # p => /\ worklist'[n] = worklist[n] /\ wpc'[n] = wpc[n]
                               /\ current_work'[n] = current_work[n]
  BY <1>1 DEF run_workqueue, CpuOK
<1>6. \A x \in todo[d] : /\ x = <<x[1], x[2], x[3]>> /\ x[1] \in Works /\ x[2] \in Cpus
                         /\ x[3] \in {"list", "run"} /\ x[1] \notin Callers
  BY <1>1, TodoIn
<1>7. CASE list_empty(worklist[p])
  <2>1. worklist' = worklist /\ wpc'[p] = "prepare" /\ todo'[d] = Finished(todo[d], p)
    BY <1>1, <1>7 DEF run_workqueue, CpuOK
  <2>2. todo'[d] \subseteq todo[d] /\ \A x \in todo'[d] : x[3] = "run" => x[2] # p
    BY <2>1 DEF Finished
  <2>3. \A x \in todo'[d] : Stays(x) /\ StaysAhead(x, d)
    BY <1>2, <1>5, <1>6, <2>1, <2>2 DEF Stays, StaysAhead, TodoOK
  <2>4. \A n \in Cpus : Hand(d, n)' => Hand(d, n) BY <1>5, <2>1 DEF Hand
  <2>5. QED BY <1>2, <1>3, <2>2, <2>3, <2>4, FlushOther
<1>8. CASE ~list_empty(worklist[p])
  <2>1. PICK w : w = list_first_entry(worklist[p]) OBVIOUS
  <2>2. /\ worklist'[p] = Tail(worklist[p]) /\ wpc'[p] = "clear" /\ current_work'[p] = w
        /\ todo'[d] = Taken(Finished(todo[d], p), w, p)
    BY <1>1, <1>8, <2>1 DEF run_workqueue, CpuOK
  <2>3. w \in Entries(worklist[p])
    <3>1. 1 \in 1 .. Len(worklist[p]) BY <1>4, <1>8 DEF list_empty
    <3>2. QED BY <2>1, <3>1 DEF Entries, list_first_entry
  <2>4. /\ \A y : y \in Entries(worklist[p]) /\ y # w => y \in Entries(worklist'[p])
        /\ Entries(worklist'[p]) \subseteq Entries(worklist[p])
    BY <1>4, <1>8, <2>1, <2>2, ListTail
  <2>5. ASSUME NEW x \in todo'[d]
        PROVE  \/ /\ x \in todo[d] /\ ~(x[2] = p /\ x[3] = "run")
                  /\ ~(x[1] = w /\ x[2] = p /\ x[3] = "list")
               \/ x = <<w, p, "run">> /\ <<w, p, "list">> \in todo[d]
    <3>1. \/ x \in Finished(todo[d], p) /\ x # <<w, p, "list">>
          \/ x = <<w, p, "run">> /\ <<w, p, "list">> \in Finished(todo[d], p)
      BY <2>2, <2>5 DEF Taken
    <3>2. QED BY <1>6, <3>1 DEF Finished
  <2>6. ASSUME NEW x \in todo'[d]
        PROVE  /\ x[2] \in Cpus /\ x[1] \in Works
               /\ \E y \in todo[d] : y[1] = x[1] /\ y[2] = x[2]
               /\ x[3] = "list" => x \in todo[d] /\ ~(x[1] = w /\ x[2] = p)
    BY <1>6, <2>5
  <2>7. TodoOK(d)'
    <3> SUFFICES ASSUME NEW x \in todo'[d]
                 PROVE  /\ x[3] = "list" => x[1] \in Entries(worklist'[x[2]])
                        /\ x[3] = "run" => current_work'[x[2]] = x[1]
      BY DEF TodoOK
    <3>1. CASE x = <<w, p, "run">> BY <2>2, <3>1
    <3>2. CASE /\ x \in todo[d] /\ ~(x[2] = p /\ x[3] = "run")
               /\ ~(x[1] = w /\ x[2] = p /\ x[3] = "list")
      <4>1. /\ x[3] = "list" => x[1] \in Entries(worklist[x[2]])
            /\ x[3] = "run" => current_work[x[2]] = x[1]
        BY <1>2, <3>2 DEF TodoOK
      <4>2. x[2] \in Cpus BY <2>6
      <4>3. QED BY <1>5, <2>4, <3>2, <4>1, <4>2
    <3>3. QED BY <2>5, <3>1, <3>2
  <2>8. Here(call'[d], todo'[d], wq_data')
    <3>1. PICK r : r = call[d] OBVIOUS
    <3>2. PICK t : t = todo[d] OBVIOUS
    <3>3. PICK u : u = todo'[d] OBVIOUS
    <3>4. Here(r, t, wq_data) /\ \A x \in u : \E y \in t : y[1] = x[1] /\ y[2] = x[2]
      BY <1>2, <2>6, <3>1, <3>2, <3>3
    <3>5. t = {} => u = {} BY <3>4
    <3>6. Here(r, u, wq_data) BY <3>4, <3>5 DEF Here
    <3>7. QED BY <1>3, <3>1, <3>3, <3>6
  <2>9. Ahead(d)'
    <3> SUFFICES ASSUME call[d].pc = "wait", call[d].op \in Flushes \cup {"flush_workqueue"},
                        NEW x \in todo'[d], x[2] = Spot(call[d])
                 PROVE  /\ d \notin done /\ \A n \in Cpus : ~Hand(d, n)'
                        /\ x[3] = "list" /\ d \in Entries(worklist'[x[2]]) =>
                             Precedes(worklist'[x[2]], x[1], d)
      BY <1>3 DEF Ahead
    <3>1. PICK y \in todo[d] : y[1] = x[1] /\ y[2] = x[2] BY <2>6
    <3>2. d \notin done /\ \A n \in Cpus : ~Hand(d, n) BY <1>2, <3>1 DEF Ahead
    <3>3. x[3] = "list" /\ d \in Entries(worklist[x[2]]) => Precedes(worklist[x[2]], x[1], d)
      BY <1>2, <2>6 DEF Ahead
    <3>4. ASSUME x[3] = "list", x[2] = p, d \in Entries(worklist[p])
          PROVE  d # w /\ Precedes(worklist'[p], x[1], d)
      <4>1. Precedes(worklist[p], x[1], d) BY <3>3, <3>4
      <4>2. x[1] # w BY <2>6, <3>4
      <4>3. QED BY <1>4, <1>8, <2>1, <2>2, <4>1, <4>2, PrecedesTail
    <3>5. d # w
      <4> SUFFICES ASSUME d = w PROVE FALSE OBVIOUS
      <4>1. x[2] = p BY <1>1, <2>3 DEF BarrierAt
      <4>2. x[3] = "list"
        <5>1. x # <<w, p, "run">> BY <2>6, WorkQueueAssumption
        <5>2. QED BY <1>6, <2>5, <4>1, <5>1
      <4>3. QED BY <2>3, <3>4, <4>1, <4>2
    <3>6. \A n \in Cpus : ~Hand(d, n)' BY <1>5, <2>2, <3>2, <3>5 DEF Hand
    <3>7. ASSUME x[3] = "list", d \in Entries(worklist'[x[2]])
          PROVE  Precedes(worklist'[x[2]], x[1], d)
      <4>1. CASE x[2] = p BY <2>4, <3>4, <3>7, <4>1
      <4>2. CASE x[2] # p BY <1>5, <2>6, <3>3, <3>7, <4>2
      <4>3. QED BY <4>1, <4>2
    <3>8. QED BY <3>2, <3>6, <3>7
  <2>10. QED BY <2>7, <2>8, <2>9
<1>9. QED BY <1>7, <1>8

LEMMA WorkerFlush ==
  ASSUME WqInv, TokenInv, CancelInv, FlushInv, NEW p \in Cpus, Worker(p)
  PROVE  FlushInv'
<1>1. CpuOK BY TypeParts DEF WqInv
<1>2. CASE run_workqueue(p) BY <1>2, RunFlush
<1>3. ASSUME ~run_workqueue(p), NEW d \in Callers
      PROVE  TodoOK(d)' /\ Here(call'[d], todo'[d], wq_data') /\ Ahead(d)'
  <2>1. TodoOK(d) /\ Here(call[d], todo[d], wq_data) /\ Ahead(d) BY DEF FlushInv
  <2>2. /\ worklist' = worklist /\ current_work' = current_work /\ wq_data' = wq_data
        /\ call' = call /\ todo' = todo
    BY <1>3 DEF Worker, prepare_to_wait, WorkerTest, finish_wait, work_clear_pending, CallFunc,
                cwqVars, workVars, callVars
  <2>3. /\ wpc'[p] \in {"clear", "run"} => wpc[p] \in {"clear", "run"}
        /\ \A n \in Cpus : n # p => wpc'[n] = wpc[n]
    BY <1>1, <1>3 DEF Worker, prepare_to_wait, WorkerTest, finish_wait, work_clear_pending, CallFunc,
                      CpuOK
  <2>4. \A n \in Cpus : Hand(d, n)' => Hand(d, n) BY <2>2, <2>3 DEF Hand
  <2>5. \A x \in todo'[d] : Stays(x) /\ StaysAhead(x, d) BY <2>1, <2>2, ListsSame
  <2>6. CASE d \in done' => d \in done BY <2>1, <2>2, <2>4, <2>5, <2>6, FlushOther
  <2>7. CASE d \in done' /\ d \notin done
    <3>1. wpc[p] = "run" /\ current_work[p] = d
      BY <1>3, <2>7 DEF Worker, prepare_to_wait, WorkerTest, finish_wait, work_clear_pending,
                        CallFunc, callVars
    <3>2. Hand(d, p) BY <3>1 DEF Hand
    <3>3. TodoOK(d)' /\ Here(call'[d], todo'[d], wq_data') BY <2>1, <2>2 DEF TodoOK
    <3>4. Ahead(d)' BY <2>1, <2>2, <3>2 DEF Ahead
    <3>5. QED BY <3>3, <3>4
  <2>8. QED BY <2>6, <2>7
<1>4. QED BY <1>2, <1>3 DEF FlushInv

(* What a step of caller c leaves of what the callers wait for. *)
LEMMA CallerKeeps ==
  ASSUME WqInv, TokenInv, FlushInv, NEW c \in Callers, Caller(c), NEW d \in Callers
  PROVE  /\ \A x \in todo[d] : x \in todo'[d] => Stays(x) /\ (d # c => StaysAhead(x, d))
         /\ d # c \/ ~FlushReads(c) => todo'[d] \subseteq todo[d]
         /\ call[d].op \in Flushes /\ todo'[d] # {} /\ wq_data[call[d].work] = call[d].cwq =>
              wq_data'[call[d].work] = call[d].cwq
<1>1. CallOK /\ CpuOK /\ RestOK BY TypeParts DEF WqInv
<1>2. TodoOK(d) BY DEF FlushInv
<1>3. current_work' = current_work BY CallerFrame
<1>4. CASE Return(c) \/ FlushReads(c)
  <2>1. worklist' = worklist /\ wq_data' = wq_data BY <1>4 DEF Return, FlushReads, cwqVars, workVars
  <2>2. d # c \/ ~FlushReads(c) => todo'[d] \subseteq todo[d]
    BY <1>1, <1>4 DEF Return, FlushReads, RestOK
  <2>3. \A x \in todo[d] : Stays(x) /\ StaysAhead(x, d) BY <1>2, <1>3, <2>1, ListsSame
  <2>4. QED BY <2>1, <2>2, <2>3
<1>5. CASE \/ wait_for_completion(c) \/ kthread_stop(c) \/ ThreadExited(c)
           \/ DelTimer(c) \/ GrabBit(c) \/ GrabReads(c) \/ GrabLooks(c)
           \/ wait_on_work(c) \/ CancelClears(c)
  <2>1. worklist' = worklist /\ wq_data' = wq_data /\ todo' = todo
    BY <1>5 DEF wait_for_completion, kthread_stop, ThreadExited, DelTimer,
                GrabBit, GrabReads, GrabLooks, wait_on_work, CancelClears, cwqVars, workVars
  <2>2. \A x \in todo[d] : Stays(x) /\ StaysAhead(x, d) BY <1>2, <1>3, <2>1, ListsSame
  <2>3. QED BY <2>1, <2>2
<1>6. CASE FlushRequeues(c)
  <2>1. PICK w \in Works : w = call[c].work BY <1>1, <1>6, CallerIn DEF FlushRequeues
  <2>2. PICK p \in On[w] : __queue_work(w, p) BY <1>6, <2>1 DEF FlushRequeues
  <2>3. p \in Cpus BY WorkQueueAssumption
  <2>4. /\ todo'[d] \subseteq todo[d]
        /\ call[d].op \in Flushes /\ todo'[d] # {} /\ wq_data[call[d].work] = call[d].cwq =>
             wq_data'[call[d].work] = call[d].cwq
    BY <2>2, <2>3, MovedKeeps
  <2>5. \A x \in todo[d] : Stays(x) /\ StaysAhead(x, d) BY <1>2, <1>3, <2>2, <2>3, QueueKeeps
  <2>6. QED BY <2>4, <2>5
<1>7. CASE GrabMatches(c)
  <2>1. wq_data' = wq_data /\ call[c].work \in Works
    BY <1>1, <1>7, CallerIn DEF GrabMatches, workVars
  <2>2. PICK w \in Works : w = call[c].work BY <2>1
  <2>3. CASE worklist' = worklist /\ todo' = todo
    <3>1. \A x \in todo[d] : Stays(x) /\ StaysAhead(x, d) BY <1>2, <1>3, <2>3, ListsSame
    <3>2. QED BY <2>1, <2>3, <3>1
  <2>4. CASE /\ worklist' = [q \in Cpus |-> IF w \in Entries(worklist[q])
                                            THEN list_del(worklist[q], w) ELSE worklist[q]]
             /\ todo' = [n \in Callers |-> {x \in todo[n] : ~(x[1] = w /\ x[3] = "list")}]
    <3>1. todo'[d] = {x \in todo[d] : ~(x[1] = w /\ x[3] = "list")} BY <2>4
    <3>2. \A q \in Cpus : worklist'[q] =
            IF w \in Entries(worklist[q]) THEN list_del(worklist[q], w) ELSE worklist[q]
      BY <2>4
    <3>3. WorkOnce BY DEF TokenInv
    <3>4. \A x \in todo[d] : ~(x[1] = w /\ x[3] = "list") => Stays(x) /\ StaysAhead(x, d)
      BY <1>2, <1>3, <3>2, <3>3, StealKeeps
    <3>5. QED BY <2>1, <3>1, <3>4
  <2>5. QED BY <1>7, <2>2, <2>3, <2>4 DEF GrabMatches
<1>8. ASSUME NEW p \in Cpus, NEW i \in 1 .. Len(worklist[p]) + 1, insert_wq_barrier(c, p, p, i)
      PROVE  \A x \in todo[d] : Stays(x) /\ (d # c => StaysAhead(x, d))
  <2>1. insert_wq_barrier(c, p, p, i) BY <1>8
  <2>2. QED BY <1>2, <1>3, <2>1, BarrierKeeps
<1>9. CASE flush_cpu_workqueue(c) \/ wait_on_cpu_work(c) \/ FlushLooks(c) \/ FlushMatches(c)
  <2>1. wq_data' = wq_data /\ todo' = todo
    BY <1>9 DEF flush_cpu_workqueue, wait_on_cpu_work, FlushLooks, FlushMatches, workVars
  <2>2. CASE worklist' = worklist
    <3>1. \A x \in todo[d] : Stays(x) /\ StaysAhead(x, d) BY <1>2, <1>3, <2>2, ListsSame
    <3>2. QED BY <2>1, <3>1
  <2>3. CASE \E p \in Cpus : \E i \in 1 .. Len(worklist[p]) + 1 : insert_wq_barrier(c, p, p, i)
    BY <1>8, <2>1, <2>3
  <2>4. \A p \in Cpus : /\ 1 \in 1 .. Len(worklist[p]) + 1
                        /\ Len(worklist[p]) + 1 \in 1 .. Len(worklist[p]) + 1
    BY <1>1 DEF CpuOK
  <2>5. CASE flush_cpu_workqueue(c)
    <3>1. call[c].cpu \in Cpus BY <1>1, <2>5, CallerIn DEF flush_cpu_workqueue, GoodCall
    <3>2. QED BY <2>2, <2>3, <2>4, <2>5, <3>1 DEF flush_cpu_workqueue
  <2>6. CASE wait_on_cpu_work(c)
    <3>1. call[c].cpu \in Cpus BY <1>1, <2>6, CallerIn DEF wait_on_cpu_work, GoodCall
    <3>2. QED BY <2>2, <2>3, <2>4, <2>6, <3>1 DEF wait_on_cpu_work
  <2>7. CASE FlushLooks(c)
    <3>1. call[c].cwq \in Cpus BY <1>1, <2>7, CallerIn DEF FlushLooks, GoodCall
    <3>2. QED BY <2>2, <2>3, <2>4, <2>7, <3>1 DEF FlushLooks
  <2>8. CASE FlushMatches(c) BY <2>2, <2>3, <2>8, FlushMatchesThere
  <2>9. QED BY <1>9, <2>5, <2>6, <2>7, <2>8
<1>10. QED BY <1>4, <1>5, <1>6, <1>7, <1>9 DEF Caller

(* A caller that another one's step leaves alone. *)
LEMMA CallerOthers ==
  ASSUME WqInv, TokenInv, FlushInv, NEW c \in Callers, Caller(c), NEW d \in Callers, d # c
  PROVE  TodoOK(d)' /\ Here(call'[d], todo'[d], wq_data') /\ Ahead(d)'
<1>1. TypeOK /\ CallOK BY DEF WqInv
<1>2. TodoOK(d) /\ Here(call[d], todo[d], wq_data) /\ Ahead(d) BY DEF FlushInv
<1>3. call'[d] = call[d] BY <1>1, CallerSteps, CallFrame
<1>4. d \in done' => d \in done BY CallerFrame
<1>5. \A p \in Cpus : Hand(d, p)' => Hand(d, p) BY CallerFrame DEF Hand
<1>6. todo'[d] \subseteq todo[d] BY CallerKeeps
<1>7. \A x \in todo'[d] : Stays(x) /\ StaysAhead(x, d)
  <2>1. \A x \in todo[d] : x \in todo'[d] => Stays(x) /\ (d # c => StaysAhead(x, d)) BY CallerKeeps
  <2>2. QED BY <1>6, <2>1
<1>8. call[d].op \in Flushes /\ todo'[d] # {} /\ wq_data[call[d].work] = call[d].cwq =>
        wq_data'[call[d].work] = call[d].cwq
  BY CallerKeeps
<1>9. QED BY <1>2, <1>3, <1>4, <1>5, <1>6, <1>7, <1>8, FlushOther

(* What caller c waits for after its own step. *)
LEMMA CallerTodo ==
  ASSUME WqInv, TokenInv, FlushInv, NEW c \in Callers, Caller(c)
  PROVE  TodoOK(c)'
<1>1. CallOK /\ RestOK BY DEF WqInv
<1>2. TodoOK(c) BY DEF FlushInv
<1>3. CASE FlushReads(c)
  <2>1. worklist' = worklist /\ current_work' = current_work BY <1>3 DEF FlushReads, cwqVars
  <2>2. PICK w \in Works : w = call[c].work BY <1>1, <1>3, CallerIn DEF FlushReads
  <2>3. PICK p : p = wq_data[w] OBVIOUS
  <2>4. todo'[c] = {} \/ todo'[c] = Busy({w}, {p}) BY <1>1, <1>3, <2>2, <2>3 DEF FlushReads, RestOK
  <2>5. \A x \in Busy({w}, {p}) : /\ x[3] = "list" => x[1] \in Entries(worklist[x[2]])
                                  /\ x[3] = "run" => current_work[x[2]] = x[1]
    BY DEF Busy
  <2>6. QED BY <2>1, <2>4, <2>5 DEF TodoOK
<1>4. CASE ~FlushReads(c)
  <2>1. todo'[c] \subseteq todo[c] BY <1>4, CallerKeeps
  <2>2. \A x \in todo[c] : x \in todo'[c] => Stays(x) BY CallerKeeps
  <2>3. QED BY <1>2, <2>1, <2>2 DEF TodoOK, Stays
<1>5. QED BY <1>3, <1>4

(* The loop of flush_workqueue() goes on behind the CPUs it has flushed. *)
LEMMA NextCpuHere ==
  ASSUME NEW r \in Records, r.op = "flush_workqueue", r.cpu \in Cpus, NEW data,
         NEW t, \A x \in t : x[2] \in Cpus /\ x[2] > r.cpu
  PROVE  Here(NextCpu(r), t, data) /\ NextCpu(r).pc # "wait"
<1>1. r.cpu \in Nat /\ NCpus \in Nat BY CpusFacts DEF Cpus
<1>2. CASE r.cpu < NCpus
  <2> DEFINE s == [r EXCEPT !.cpu = r.cpu + 1, !.pc = "lock"]
  <2>1. NextCpu(r) = s BY <1>2 DEF NextCpu, LastCpu, CpuEntry
  <2>2. s.op = "flush_workqueue" /\ s.pc = "lock" /\ s.cpu = r.cpu + 1 BY DEF Records
  <2> HIDE DEF s
  <2>3. \A x \in t : x[2] >= s.cpu BY <1>1, <2>2 DEF Cpus
  <2>4. QED BY <2>1, <2>2, <2>3 DEF Here
<1>3. CASE ~(r.cpu < NCpus)
  <2> DEFINE s == [r EXCEPT !.pc = "return"]
  <2>1. NextCpu(r) = s BY <1>3 DEF NextCpu, LastCpu
  <2>2. s.op = "flush_workqueue" /\ s.pc = "return" BY DEF Records
  <2> HIDE DEF s
  <2>3. t = {} BY <1>1, <1>3 DEF Cpus
  <2>4. QED BY <2>1, <2>2, <2>3 DEF Here
<1>4. QED BY <1>2, <1>3

LEMMA NoFlushHere ==
  ASSUME WqInv, TokenInv, FlushInv, NEW c \in Callers, Caller(c),
         call[c].op \notin Flushes \cup {"flush_workqueue"}
  PROVE  Here(call'[c], todo'[c], wq_data') /\ Ahead(c)'
<1>1. TypeOK /\ CallOK /\ RestOK /\ call \in [Callers -> Records] BY TypeParts DEF WqInv
<1>2. PICK r \in Records : r = call[c] BY <1>1
<1>3. PICK s : s = call'[c] OBVIOUS
<1>4. PICK u : u = todo'[c] OBVIOUS
<1>5. r.op \in AllOps \cup {"none"} /\ r.pc \in PcsOf(r.op) BY <1>1, <1>2, CallerIn
<1>6. s.op \in {r.op, "none"} BY <1>1, <1>2, <1>3, CallerMoves
<1>7. Ahead(c)' BY <1>2, <1>3, <1>6 DEF Ahead
<1>8. s.op # "destroy_workqueue" => u = {}
  <2>1. CASE r.op # "destroy_workqueue"
    <3>1. todo[c] = {} BY <1>2, <2>1 DEF FlushInv, Here
    <3>2. ~FlushReads(c) BY <1>1, <1>2, CallerIn DEF FlushReads
    <3>3. QED BY <1>4, <3>1, <3>2, CallerKeeps
  <2>2. CASE r.op = "destroy_workqueue"
    <3>1. r.pc \in {"lock", "wait", "stop", "exited", "return"} BY <1>5, <2>2 DEF PcsOf
    <3>2. CASE Return(c) BY <1>1, <1>4, <3>2 DEF Return, RestOK
    <3>3. CASE flush_cpu_workqueue(c)
      <4>1. call'[c] = CpuFlushed(r) \/ Goto(c, "wait")
        BY <1>1, <1>2, <3>3 DEF flush_cpu_workqueue, insert_wq_barrier
      <4>2. QED BY <1>1, <1>2, <1>3, <2>2, <4>1, NextCpuOp, GotoFields
    <3>4. CASE wait_for_completion(c)
      <4>1. call'[c] = CpuFlushed(r) BY <1>1, <1>2, <2>2, <3>4 DEF wait_for_completion
      <4>2. QED BY <1>3, <2>2, <4>1, NextCpuOp
    <3>5. CASE ThreadExited(c)
      <4>1. call'[c] = NextCpu(r) BY <1>1, <1>2, <3>5 DEF ThreadExited
      <4>2. QED BY <1>3, <2>2, <4>1, NextCpuOp
    <3>6. CASE kthread_stop(c)
      <4>1. Goto(c, "exited") BY <3>6 DEF kthread_stop
      <4>2. QED BY <1>1, <1>2, <1>3, <2>2, <4>1, GotoFields
    <3>7. CASE ~(\/ Return(c) \/ flush_cpu_workqueue(c) \/ wait_for_completion(c)
                 \/ ThreadExited(c) \/ kthread_stop(c))
      BY <1>2, <2>2, <3>1, <3>7
      DEF Caller, FlushReads, FlushLooks, FlushMatches, FlushRequeues, DelTimer, GrabBit, GrabReads,
          GrabLooks, GrabMatches, wait_on_work, wait_on_cpu_work, CancelClears
    <3>8. QED BY <3>2, <3>3, <3>4, <3>5, <3>6, <3>7
  <2>3. QED BY <2>1, <2>2
<1>9. s.op \notin Flushes \cup {"flush_workqueue"} BY <1>2, <1>6
<1>10. Here(s, u, wq_data') BY <1>8, <1>9 DEF Here
<1>11. QED BY <1>3, <1>4, <1>7, <1>10

(* The call is over. *)
LEMMA ReturnHere ==
  ASSUME WqInv, NEW c \in Callers, Return(c)
  PROVE  Here(call'[c], todo'[c], wq_data') /\ Ahead(c)'
<1>1. RestOK /\ call \in [Callers -> Records] BY TypeParts DEF WqInv
<1>2. call'[c] = Idle /\ todo'[c] = {} BY <1>1 DEF Return, RestOK
<1>3. Idle.op = "none" /\ Idle.pc = "idle" BY DEF Idle
<1>4. PICK s : s = call'[c] OBVIOUS
<1>5. s.op = "none" /\ s.pc = "idle" BY <1>2, <1>3, <1>4
<1>6. Here(s, {}, wq_data') BY <1>5 DEF Here
<1>7. QED BY <1>2, <1>4, <1>5, <1>6 DEF Ahead

(* A barrier that has just been linked has not run. *)
LEMMA NewBarrier ==
  ASSUME WqInv, NEW c \in Callers, call[c].pc # "wait", NEW p, NEW q, NEW i,
         insert_wq_barrier(c, p, q, i), current_work' = current_work, wpc' = wpc
  PROVE  /\ c \notin done' /\ \A n \in Cpus : ~Hand(c, n)'
         /\ call'[c].pc = "wait" /\ call'[c].op = call[c].op /\ call'[c].work = call[c].work
         /\ call'[c].cwq = call[c].cwq /\ call'[c].cpu = call[c].cpu
<1>1. TypeOK /\ BarrierAlive BY DEF WqInv
<1>2. \A n \in Cpus : ~Hand(c, n) BY <1>1 DEF BarrierAlive, Hand
<1>3. Goto(c, "wait") /\ done' = done \ {c} BY DEF insert_wq_barrier
<1>4. \A n \in Cpus : ~Hand(c, n)' BY <1>2 DEF Hand
<1>5. QED BY <1>1, <1>3, <1>4, GotoFields

LEMMA FlushAllHere ==
  ASSUME WqInv, TokenInv, FlushInv, NEW c \in Callers, Caller(c), call[c].op = "flush_workqueue"
  PROVE  Here(call'[c], todo'[c], wq_data') /\ Ahead(c)'
<1>1. TypeOK /\ CallOK /\ CpuOK /\ RestOK /\ call \in [Callers -> Records] BY TypeParts DEF WqInv
<1>2. PICK r \in Records : r = call[c] BY <1>1
<1>3. TodoOK(c) /\ Here(r, todo[c], wq_data) /\ Ahead(c) BY <1>2 DEF FlushInv
<1>4. r.pc \in {"lock", "wait", "return"} /\ GoodCall(r)
  BY <1>1, <1>2, CallerIn DEF PcsOf
<1>5. \A x \in todo[c] : x[2] \in Cpus /\ x[1] \in Works /\ x[3] \in {"list", "run"}
  BY <1>1, TodoIn
<1>6. \A x \in todo[c] : x[2] >= r.cpu BY <1>2, <1>3 DEF Here
<1>7. Spot(r) = r.cpu BY <1>2 DEF Spot
<1>8. ASSUME r.cpu \in Cpus, \A x \in todo[c] : x[2] # r.cpu, call'[c] = NextCpu(r), todo' = todo
      PROVE  Here(call'[c], todo'[c], wq_data') /\ Ahead(c)'
  <2>1. PICK t : t = todo[c] OBVIOUS
  <2>2. \A x \in t : x[2] \in Cpus /\ x[2] > r.cpu BY <1>5, <1>6, <1>8, <2>1 DEF Cpus
  <2>3. PICK data : data = wq_data' OBVIOUS
  <2>4. r.op = "flush_workqueue" /\ r.cpu \in Cpus BY <1>2, <1>8
  <2>5. Here(NextCpu(r), t, data) /\ NextCpu(r).pc # "wait" BY <2>2, <2>4, NextCpuHere
  <2>6. QED BY <1>8, <2>1, <2>3, <2>5 DEF Ahead
<1>9. CASE Return(c) BY <1>9, ReturnHere
<1>10. CASE wait_for_completion(c)
  <2>1. /\ r.pc = "wait" /\ c \in done /\ todo' = todo /\ call'[c] = NextCpu(r)
    BY <1>1, <1>2, <1>10 DEF wait_for_completion, Completed, CpuFlushed
  <2>2. r.cpu \in Cpus BY <1>2, <1>4, <2>1 DEF GoodCall
  <2>3. \A x \in todo[c] : x[2] # r.cpu BY <1>2, <1>3, <1>7, <2>1 DEF Ahead
  <2>4. QED BY <1>8, <2>1, <2>2, <2>3
<1>11. CASE flush_cpu_workqueue(c)
  <2>1. PICK p \in Cpus : p = r.cpu BY <1>2, <1>4, <1>11 DEF flush_cpu_workqueue, GoodCall
  <2>2. todo' = todo /\ r.pc = "lock" /\ current_work' = current_work /\ wpc' = wpc
    BY <1>2, <1>11 DEF flush_cpu_workqueue
  <2>3. worklist[p] \in Seq(Items) /\ Len(worklist[p]) \in Nat /\ c \in Items BY <1>1 DEF CpuOK, Items
  <2>4. CASE Idling(p)
    <3>1. call'[c] = NextCpu(r) BY <1>1, <1>2, <1>11, <2>1, <2>4 DEF flush_cpu_workqueue, CpuFlushed
    <3>2. Entries(worklist[p]) = {} /\ current_work[p] = NULL BY <2>3, <2>4, ListEmpty DEF Idling
    <3>3. NULL \notin Works BY WorkQueueAssumption DEF Items
    <3>4. \A x \in todo[c] : x[2] # r.cpu BY <1>3, <1>5, <2>1, <3>2, <3>3 DEF TodoOK
    <3>5. QED BY <1>8, <2>1, <2>2, <3>1, <3>4
  <2>5. CASE ~Idling(p)
    <3>1. PICK n : n = Len(worklist[p]) + 1 OBVIOUS
    <3>2. insert_wq_barrier(c, p, p, n) BY <1>2, <1>11, <2>1, <2>5, <3>1 DEF flush_cpu_workqueue
    <3>3. n \in 1 .. Len(worklist[p]) + 1 BY <2>3, <3>1
    <3>4. call[c].pc # "wait" BY <1>2, <2>2
    <3>5. PICK s : s = call'[c] OBVIOUS
    <3>6. /\ c \notin done' /\ \A q \in Cpus : ~Hand(c, q)'
          /\ s.pc = "wait" /\ s.op = r.op /\ s.cpu = r.cpu
      BY <1>2, <2>2, <3>2, <3>4, <3>5, NewBarrier
    <3>7. worklist'[p] = list_insert(worklist[p], n, c) BY <3>2, <3>3, BarrierLists
    <3>8. ASSUME NEW y \in Entries(worklist[p]) PROVE Precedes(worklist'[p], y, c)
      <4>1. PICK k \in 1 .. Len(worklist[p]) : worklist[p][k] = y BY DEF Entries
      <4>2. k < n BY <2>3, <3>1
      <4>3. Precedes(list_insert(worklist[p], n, c), worklist[p][k], c)
        BY <2>3, <3>3, <4>2, PrecedesInsert
      <4>4. QED BY <3>7, <4>1, <4>3
    <3>9. Here(s, todo[c], wq_data') BY <1>2, <1>6, <3>6 DEF Here
    <3>10. Spot(s) = p BY <1>2, <2>1, <3>6 DEF Spot
    <3>11. \A x \in todo[c] : x[2] = p /\ x[3] = "list" => Precedes(worklist'[p], x[1], c)
      BY <1>3, <3>8 DEF TodoOK
    <3>12. Ahead(c)' BY <2>2, <3>5, <3>6, <3>10, <3>11 DEF Ahead
    <3>13. QED BY <2>2, <3>5, <3>9, <3>12
  <2>6. QED BY <2>4, <2>5
<1>12. CASE ~(Return(c) \/ flush_cpu_workqueue(c) \/ wait_for_completion(c))
  BY <1>2, <1>4, <1>12
  DEF Caller, kthread_stop, ThreadExited, FlushReads, FlushLooks, FlushMatches, FlushRequeues,
      DelTimer, GrabBit, GrabReads, GrabLooks, GrabMatches, wait_on_work, wait_on_cpu_work,
      CancelClears
<1>13. QED BY <1>9, <1>10, <1>11, <1>12

LEMMA FlushWorkHere ==
  ASSUME OneCpu, WqInv, TokenInv, FlushInv, NEW c \in Callers, Caller(c), call[c].op \in Flushes
  PROVE  Here(call'[c], todo'[c], wq_data') /\ Ahead(c)'
<1>1. TypeOK /\ CallOK /\ CpuOK /\ RestOK /\ call \in [Callers -> Records] BY TypeParts DEF WqInv
<1>2. PICK r \in Records : r = call[c] BY <1>1
<1>3. PICK t : t = todo[c] OBVIOUS
<1>4. PICK s : s = call'[c] OBVIOUS
<1>5. PICK u : u = todo'[c] OBVIOUS
<1>6. TodoOK(c) /\ Here(r, t, wq_data) /\ Ahead(c) BY <1>2, <1>3 DEF FlushInv
<1>7. /\ r.pc \in {"del_timer", "requeue", "fw", "fw_lock", "fw_match", "wait", "return"}
      /\ GoodCall(r) /\ r.op \in Flushes
  BY <1>1, <1>2, CallerIn DEF PcsOf
<1>8. PICK w \in Works : w = r.work BY <1>7 DEF GoodCall
<1>9. PICK p : p = r.cwq OBVIOUS
<1>10. /\ \A x \in t : x[1] = w /\ x[2] = p /\ x[3] \in {"list", "run"}
       /\ r.pc \in {"del_timer", "requeue", "fw", "return"} => t = {}
       /\ r.pc \in {"fw_lock", "fw_match"} /\ t # {} => wq_data[w] = p
  <2>1. \A x \in t : x[3] \in {"list", "run"} BY <1>1, <1>3, TodoIn
  <2>2. QED BY <1>6, <1>7, <1>8, <1>9, <2>1 DEF Here
<1>11. ASSUME u = {}, s.op \in Flushes PROVE Here(call'[c], todo'[c], wq_data') /\ Ahead(c)'
  <2>1. Here(s, u, wq_data') BY <1>11 DEF Here
  <2>2. todo'[c] = {} BY <1>5, <1>11
  <2>3. Ahead(c)' BY <2>2 DEF Ahead
  <2>4. QED BY <1>4, <1>5, <2>1, <2>3
<1>12. CASE Return(c) BY <1>12, ReturnHere
<1>13. CASE DelTimer(c)
  <2>1. r.pc = "del_timer" /\ todo' = todo BY <1>2, <1>13 DEF DelTimer
  <2>2. call'[c] = [r EXCEPT !.pc = "requeue"] \/ Goto(c, "fw")
    BY <1>1, <1>2, <1>7, <1>13 DEF DelTimer
  <2>3. [r EXCEPT !.pc = "requeue"].op = r.op BY DEF Records
  <2>4. s.op = r.op BY <1>1, <1>2, <1>4, <2>2, <2>3, GotoFields
  <2>5. QED BY <1>3, <1>5, <1>7, <1>10, <1>11, <2>1, <2>4
<1>14. CASE FlushRequeues(c)
  <2>1. r.pc = "requeue" /\ Goto(c, "fw") BY <1>2, <1>14 DEF FlushRequeues
  <2>2. ~FlushReads(c) BY <1>2, <2>1 DEF FlushReads
  <2>3. u \subseteq t BY <1>3, <1>5, <2>2, CallerKeeps
  <2>4. s.op = r.op BY <1>1, <1>2, <1>4, <2>1, GotoFields
  <2>5. QED BY <1>7, <1>10, <1>11, <2>1, <2>3, <2>4
<1>15. CASE FlushReads(c)
  <2>1. PICK q : q = wq_data[w] OBVIOUS
  <2>2. wq_data' = wq_data BY <1>15 DEF FlushReads, workVars
  <2>3. CASE q = NULL
    <3>1. call'[c] = [r EXCEPT !.pc = "return"] /\ todo'[c] = {}
      BY <1>1, <1>2, <1>8, <1>15, <2>1, <2>3 DEF FlushReads, RestOK
    <3>2. [r EXCEPT !.pc = "return"].op = r.op BY DEF Records
    <3>3. QED BY <1>4, <1>5, <1>7, <1>11, <3>1, <3>2
  <2>4. CASE q # NULL
    <3> DEFINE f == [r EXCEPT !.pc = "fw_lock", !.cwq = q]
    <3>1. call'[c] = f /\ todo'[c] = Busy({w}, {q})
      BY <1>1, <1>2, <1>8, <1>15, <2>1, <2>4 DEF FlushReads, RestOK
    <3>2. f.op = r.op /\ f.pc = "fw_lock" /\ f.work = w /\ f.cwq = q BY <1>8 DEF Records
    <3> HIDE DEF f
    <3>3. \A x \in u : x[1] = w /\ x[2] = q BY <1>5, <3>1 DEF Busy
    <3>4. Here(s, u, wq_data) BY <1>4, <1>7, <2>1, <3>1, <3>2, <3>3 DEF Here
    <3>5. Ahead(c)' BY <3>1, <3>2 DEF Ahead
    <3>6. QED BY <1>4, <1>5, <2>2, <3>4, <3>5
  <2>5. QED BY <2>3, <2>4
<1>16. CASE wait_for_completion(c)
  <2>1. r.pc = "wait" /\ c \in done /\ todo' = todo /\ call'[c] = [r EXCEPT !.pc = "return"]
    BY <1>1, <1>2, <1>7, <1>16 DEF wait_for_completion, Completed
  <2>2. [r EXCEPT !.pc = "return"].op = r.op BY DEF Records
  <2>3. Spot(r) = p BY <1>7, <1>9 DEF Spot
  <2>4. t = {} BY <1>2, <1>3, <1>6, <1>7, <1>10, <2>1, <2>3 DEF Ahead
  <2>5. QED BY <1>3, <1>4, <1>5, <1>7, <1>11, <2>1, <2>2, <2>4
<1>17. ASSUME NEW i, p \in Cpus, i \in 1 .. Len(worklist[p]) + 1, insert_wq_barrier(c, p, p, i),
              r.pc # "wait", todo' = todo, current_work' = current_work, wpc' = wpc,
              w \in Entries(worklist[p]) => Precedes(worklist'[p], w, c)
       PROVE  Here(call'[c], todo'[c], wq_data') /\ Ahead(c)'
  <2>1. insert_wq_barrier(c, p, p, i) /\ current_work' = current_work /\ wpc' = wpc BY <1>17
  <2>2. call[c].pc # "wait" BY <1>2, <1>17
  <2>3. /\ c \notin done' /\ \A q \in Cpus : ~Hand(c, q)'
        /\ s.pc = "wait" /\ s.op = r.op /\ s.work = r.work /\ s.cwq = r.cwq
    BY <1>2, <1>4, <2>1, <2>2, NewBarrier
  <2>4. Here(s, t, wq_data') BY <1>7, <1>8, <1>9, <1>10, <2>3 DEF Here
  <2>5. \A x \in t : x[3] = "list" => w \in Entries(worklist[p]) BY <1>3, <1>6, <1>10 DEF TodoOK
  <2>6. \A x \in todo'[c] : x[3] = "list" => Precedes(worklist'[x[2]], x[1], c)
    BY <1>3, <1>10, <1>17, <2>5
  <2>7. Ahead(c)' BY <2>3, <2>6 DEF Ahead
  <2>8. QED BY <1>3, <1>4, <1>17, <2>4, <2>7
<1>18. CASE FlushLooks(c)
  <2>1. r.pc = "fw_lock" /\ todo' = todo /\ wq_data' = wq_data /\ current_work' = current_work
          /\ wpc' = wpc
    BY <1>2, <1>18 DEF FlushLooks, workVars
  <2>2. p \in Cpus BY <1>7, <1>9, <2>1 DEF GoodCall
  <2>3. CASE Goto(c, "fw_match")
    <3>1. s.pc = "fw_match" /\ s.op = r.op /\ s.work = r.work /\ s.cwq = r.cwq
      BY <1>1, <1>2, <1>4, <2>3, GotoFields
    <3>2. Here(s, t, wq_data) BY <1>7, <1>8, <1>9, <1>10, <2>1, <3>1 DEF Here
    <3>3. Ahead(c)' BY <1>4, <3>1 DEF Ahead
    <3>4. QED BY <1>3, <1>4, <2>1, <3>2, <3>3
  <2>4. CASE ~Linked(w) /\ insert_wq_barrier(c, p, p, 1)
    <3>1. w \notin Entries(worklist[p]) BY <2>2, <2>4 DEF Linked
    <3>2. 1 \in 1 .. Len(worklist[p]) + 1 BY <1>1, <2>2 DEF CpuOK
    <3>3. QED BY <1>17, <2>1, <2>2, <2>4, <3>1, <3>2
  <2>5. CASE ~Linked(w) /\ current_work[p] # w /\ Goto(c, "return")
    <3>1. w \notin Entries(worklist[p]) BY <2>2, <2>5 DEF Linked
    <3>2. t = {} BY <1>3, <1>6, <1>10, <2>5, <3>1 DEF TodoOK
    <3>3. s.op = r.op BY <1>1, <1>2, <1>4, <2>5, GotoFields
    <3>4. QED BY <1>3, <1>5, <1>7, <1>11, <2>1, <3>2, <3>3
  <2>6. QED BY <1>2, <1>8, <1>9, <1>18, <2>3, <2>4, <2>5 DEF FlushLooks
<1>19. CASE FlushMatches(c)
  <2>1. r.pc = "fw_match" /\ todo' = todo /\ current_work' = current_work /\ wpc' = wpc
    BY <1>2, <1>19 DEF FlushMatches
  <2>2. CASE wq_data[w] # p /\ Goto(c, "return")
    <3>1. t = {} BY <1>10, <2>1, <2>2
    <3>2. s.op = r.op BY <1>1, <1>2, <1>4, <2>2, GotoFields
    <3>3. QED BY <1>3, <1>5, <1>7, <1>11, <2>1, <3>1, <3>2
  <2>3. CASE /\ p \in Cpus /\ w \in Entries(worklist[p])
             /\ Position(worklist[p], w) + 1 \in 1 .. Len(worklist[p]) + 1
             /\ insert_wq_barrier(c, p, p, Position(worklist[p], w) + 1)
    <3>1. PICK k : k = Position(worklist[p], w) OBVIOUS
    <3>2. worklist[p] \in Seq(Items) /\ Len(worklist[p]) \in Nat /\ c \in Items
      BY <1>1, <2>3 DEF CpuOK, Items
    <3>3. k \in 1 .. Len(worklist[p]) /\ worklist[p][k] = w BY <2>3, <3>1 DEF Position, Entries
    <3>4. k + 1 \in 1 .. Len(worklist[p]) + 1 /\ k < k + 1 BY <3>2, <3>3
    <3>5. insert_wq_barrier(c, p, p, k + 1) /\ p \in Cpus BY <2>3, <3>1
    <3>6. worklist'[p] = list_insert(worklist[p], k + 1, c) BY <3>4, <3>5, BarrierLists
    <3>7. Precedes(list_insert(worklist[p], k + 1, c), worklist[p][k], c)
      BY <3>2, <3>3, <3>4, PrecedesInsert
    <3>8. Precedes(worklist'[p], w, c) BY <3>3, <3>6, <3>7
    <3>9. r.pc # "wait" BY <2>1
    <3>10. QED BY <1>17, <2>1, <3>4, <3>5, <3>8, <3>9
  <2>4. w \notin Works \ Steady BY DEF OneCpu
  <2>5. QED BY <1>2, <1>8, <1>9, <1>19, <2>2, <2>3, <2>4, FlushMatchesThere
<1>20. CASE ~(\/ Return(c) \/ DelTimer(c) \/ FlushRequeues(c) \/ FlushReads(c)
              \/ wait_for_completion(c) \/ FlushLooks(c) \/ FlushMatches(c))
  BY <1>2, <1>7, <1>20
  DEF Caller, kthread_stop, ThreadExited, flush_cpu_workqueue, GrabBit, GrabReads, GrabLooks,
      GrabMatches, wait_on_work, wait_on_cpu_work, CancelClears
<1>21. QED BY <1>12, <1>13, <1>14, <1>15, <1>16, <1>18, <1>19, <1>20

LEMMA CallerFlush ==
  ASSUME OneCpu, WqInv, TokenInv, FlushInv, NEW c \in Callers, Caller(c)
  PROVE  FlushInv'
<1>1. TodoOK(c)' BY CallerTodo
<1>2. Here(call'[c], todo'[c], wq_data') /\ Ahead(c)'
  BY NoFlushHere, FlushAllHere, FlushWorkHere
<1>3. \A d \in Callers : d # c => TodoOK(d)' /\ Here(call'[d], todo'[d], wq_data') /\ Ahead(d)'
  BY CallerOthers
<1>4. QED BY <1>1, <1>2, <1>3 DEF FlushInv

(* A caller begins a call: what it finds on the lists is what it waits for. *)
LEMMA BeginFlush ==
  ASSUME WqInv, FlushInv, NEW c \in Callers,
         \/ \E op \in CpuLoops : BeginCpuLoop(c, op)
         \/ \E op \in AllOps, w \in Works : Begin(c, op, w)
  PROVE  FlushInv'
<1>1. TypeOK /\ CallOK /\ RestOK /\ call \in [Callers -> Records] BY TypeParts DEF WqInv
<1>2. /\ CallStep(c) /\ call[c] = Idle
      /\ UNCHANGED <<worklist, current_work, wpc, workVars, done>>
      /\ call'[c].pc \in {"lock", "fw", "grab", "del_timer"}
  BY BeginCall
<1>3. wq_data' = wq_data BY <1>2 DEF workVars
<1>4. \A d \in Callers : d # c => call'[d] = call[d] BY <1>1, <1>2, CallFrame
<1>5. \A d \in Callers : d # c => todo'[d] = todo[d]
  <2>1. CASE \E op \in AllOps, w \in Works : Begin(c, op, w) BY <2>1, Zenon DEF Begin
  <2>2. ASSUME NEW op \in CpuLoops, BeginCpuLoop(c, op)
        PROVE  \A d \in Callers : d # c => todo'[d] = todo[d]
    <3>1. todo' = [todo EXCEPT ![c] = Busy(Works, Cpus)] BY <2>2, Zenon DEF BeginCpuLoop
    <3>2. QED BY <1>1, <3>1 DEF RestOK
  <2>3. QED BY <2>1, <2>2
<1>6. ASSUME NEW d \in Callers, d # c
      PROVE  TodoOK(d)' /\ Here(call'[d], todo'[d], wq_data') /\ Ahead(d)'
  <2>1. TodoOK(d) /\ Here(call[d], todo[d], wq_data) /\ Ahead(d) BY DEF FlushInv
  <2>2. call'[d] = call[d] /\ todo'[d] = todo[d] BY <1>4, <1>5, <1>6
  <2>3. \A p \in Cpus : Hand(d, p)' => Hand(d, p) BY <1>2 DEF Hand
  <2>4. \A x \in todo[d] : Stays(x) /\ StaysAhead(x, d) BY <1>2, <2>1, ListsSame
  <2>5. QED BY <1>2, <1>3, <2>1, <2>2, <2>3, <2>4, FlushOther
<1>7. Ahead(c)' BY <1>2 DEF Ahead
<1>8. TodoOK(c)' /\ Here(call'[c], todo'[c], wq_data')
  <2>1. Idle.op = "none" BY DEF Idle
  <2>2. todo[c] = {} BY <1>2, <2>1 DEF FlushInv, Here
  <2>3. ASSUME NEW op \in CpuLoops, BeginCpuLoop(c, op)
        PROVE  TodoOK(c)' /\ Here(call'[c], todo'[c], wq_data')
    <3> DEFINE s == [Idle EXCEPT !.op = op, !.pc = CpuEntry(op), !.cpu = 1]
    <3>1. call'[c] = s BY <1>1, <2>3 DEF BeginCpuLoop
    <3>2. s.op = op /\ s.pc = "lock" /\ s.cpu = 1 BY DEF Idle, CpuEntry
    <3> HIDE DEF s
    <3>3. todo'[c] = Busy(Works, Cpus) BY <1>1, <2>3 DEF BeginCpuLoop, RestOK
    <3>4. \A x \in Busy(Works, Cpus) : /\ x[2] \in Cpus
                                       /\ x[3] = "list" => x[1] \in Entries(worklist[x[2]])
                                       /\ x[3] = "run" => current_work[x[2]] = x[1]
      BY DEF Busy
    <3>5. TodoOK(c)' BY <1>2, <3>3, <3>4 DEF TodoOK
    <3>6. PICK u : u = todo'[c] OBVIOUS
    <3>7. \A x \in u : x[2] >= 1 BY <3>3, <3>4, <3>6 DEF Cpus
    <3>8. Here(s, u, wq_data') BY <3>2, <3>7 DEF Here
    <3>9. QED BY <3>1, <3>5, <3>6, <3>8
  <2>4. ASSUME NEW op \in AllOps, NEW w \in Works, Begin(c, op, w)
        PROVE  TodoOK(c)' /\ Here(call'[c], todo'[c], wq_data')
    <3>1. todo'[c] = {} BY <2>2, <2>4, Zenon DEF Begin
    <3>2. PICK s : s = call'[c] OBVIOUS
    <3>3. Here(s, {}, wq_data') BY DEF Here
    <3>4. QED BY <3>1, <3>2, <3>3 DEF TodoOK
  <2>5. QED BY <2>3, <2>4
<1>9. QED BY <1>6, <1>7, <1>8 DEF FlushInv

LEMMA FlushStep ==
  ASSUME OneCpu, WqInv, TokenInv, CancelInv, FlushInv, [Next]_vars
  PROVE  FlushInv'
<1>1. CASE UNCHANGED vars
  BY <1>1 DEF vars, FlushInv, TodoOK, Here, Ahead, Hand, Spot
<1>2. CASE create_workqueue
  <2>1. call' = call /\ todo' = todo /\ \A c \in Callers : call[c] = Idle
    BY <1>2 DEF create_workqueue, callVars
  <2>2. Idle.op = "none" /\ Idle.pc = "idle" BY DEF Idle
  <2>3. \A c \in Callers : todo'[c] = {} BY <2>1, <2>2 DEF FlushInv, Here
  <2>4. ASSUME NEW c \in Callers PROVE TodoOK(c)' /\ Here(call'[c], todo'[c], wq_data') /\ Ahead(c)'
    <3>1. PICK s : s = call'[c] OBVIOUS
    <3>2. s.op = "none" /\ s.pc = "idle" BY <2>1, <2>2, <3>1
    <3>3. Here(s, {}, wq_data') BY <3>2 DEF Here
    <3>4. QED BY <2>3, <3>1, <3>2, <3>3 DEF TodoOK, Ahead
  <2>5. QED BY <2>4 DEF FlushInv
<1>3. QED BY <1>1, <1>2, ContextFlush, WorkerFlush, CallerFlush, BeginFlush DEF Next

(* The inductive invariant of the flushes: what a flush found on entry is  *)
(* ahead of the CPU it is at, and on that CPU ahead of its barrier.        *)
THEOREM WorkQueueFlushes ==
  ASSUME OneCpu
  PROVE  Spec => []FlushInv
<1>1. ASSUME Init PROVE FlushInv
  <2>1. \A c \in Callers : call[c] = Idle /\ todo[c] = {} BY <1>1 DEF Init
  <2>2. Idle.op = "none" /\ Idle.pc = "idle" BY DEF Idle
  <2>3. ASSUME NEW c \in Callers PROVE TodoOK(c) /\ Here(call[c], todo[c], wq_data) /\ Ahead(c)
    BY <2>1, <2>2 DEF TodoOK, Here, Ahead
  <2>4. QED BY <2>3 DEF FlushInv
<1>2. WqInv /\ TokenInv /\ CancelInv /\ FlushInv /\ [Next]_vars => FlushInv' BY FlushStep
<1>3. QED BY <1>1, <1>2, OneCpuSettled, WorkQueueInvariant, WorkQueueTokens, WorkQueueCancels, PTL
          DEF Spec

(* flush_workqueue() has waited for everything that it found on the CPUs,  *)
(* and flush_work() for the work where it was last queued                  *)
(* (workqueue.c:397-401, 418-428), where each delayed work stays on one    *)
(* CPU.                                                                    *)
THEOREM WorkQueueFlushComplete ==
  ASSUME OneCpu
  PROVE  Spec => []FlushComplete
<1>1. FlushInv => FlushComplete BY DEF FlushInv, Here, FlushComplete
<1>2. QED BY <1>1, WorkQueueFlushes, PTL
===============================================================================
