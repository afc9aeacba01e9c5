------------------------ MODULE InstanceActions_proofs ------------------------
(* Proofs of the types and of KeyIsLive of InstanceActions, for any workers,   *)
(* slots and bounds.  KeyIsLive is not inductive: it needs to know that the    *)
(* operation behind a key has not yet written to the row of the instance, and  *)
(* that every retry it has lost was lost to a fault (KeyInv).  The types need  *)
(* a bound of the retries that processMessage, which compares the row as it    *)
(* was claimed, does not check (BudgetInv).                                    *)
EXTENDS InstanceActions, FiniteSetTheorems, TLAPS

(* What the place of worker w says of what it has read. *)
JobInv(w) ==
  /\ job[w].pc \in {"loop", "select", "get", "store", "create", "consume"} => job[w].slot = None
  /\ job[w].pc \in {"set", "call", "wait", "finish"} =>
       job[w].slot \in Slots /\ job[w].type \in Types
  /\ job[w].pc = "wait" => job[w].plan # <<>>
  /\ job[w].pc = "create" => job[w].type \in Types
  /\ job[w].pc \in {"get", "store"} => job[w].desired \in DesiredStates
  /\ job[w].pc \in {"store", "finish"} => job[w].state \in {"running", "stopped"}

OpInv(s) == Open(s) => ops[s].type \in Types

(* The workers that may still count a retry of the operation of slot s. *)
Incrementers(s) == {w \in Workers : Executing(w, s) /\ job[w].attempt < MaxRetries}

BudgetInv(s) ==
  ops[s].retries + Cardinality(Incrementers(s)) <= MaxRetries + Cardinality(Workers) - 1

(* A retry that RecoverStuck is going to take: the operation is running, and   *)
(* its heartbeat is old or nobody executes it.                                 *)
Lost(s) == ops[s].status = "running" /\ (ops[s].stale \/ \A w \in Workers : ~Executing(w, s))

Debt(s) == IF Lost(s) THEN 1 ELSE 0

(* The operation of slot s is behind a key for d: nobody has yet written to    *)
(* the row for it, and there was a fault for each retry it has lost.           *)
Behind(d, s) ==
  /\ Open(s) /\ Desired(ops[s].type) = d
  /\ \A w \in Workers : Executing(w, s) => job[w].pc = "set"
  /\ ops[s].retries + Debt(s) <= faults

KeyInv ==
  ~aborted /\ faults <= MaxRetries => \A d \in keys : \E s \in Slots : Behind(d, s)

ActionInv ==
  /\ TypeOK
  /\ \A w \in Workers : JobInv(w)
  /\ \A s \in Slots : OpInv(s) /\ BudgetInv(s)
  /\ KeyInv

-----------------------------------------------------------------------------
(* Jobs                                                                     *)

JobTypes == job \in [Workers -> JobRows]

(* A step leaves the jobs of other workers alone. *)
Others(w) == \A v \in Workers : v # w => job'[v] = job[v]

(* The worker w stays with its operation or leaves it. *)
Moves(w) ==
  /\ JobTypes' /\ Others(w) /\ JobInv(w)'
  /\ \/ job'[w].slot = None
     \/ job'[w].slot = job[w].slot /\ job'[w].attempt = job[w].attempt

(* Counts is not empty: there is a worker. *)
LEMMA CountFacts ==
  /\ Cardinality(Workers) \in Nat /\ Cardinality(Workers) >= 1 /\ MaxRetries \in Nat
  /\ 0 \in Counts /\ Counts \subseteq Nat
<1>1. Cardinality(Workers) \in Nat /\ Cardinality(Workers) # 0
  BY ActionAssumption, FS_CardinalityType, FS_EmptySet, Zenon
<1> QED
  BY <1>1, ActionAssumption, SMT, SMTT(30) DEF Counts

(* The fields of a job. *)
LEMMA JobFields ==
  ASSUME JobTypes, NEW w \in Workers
  PROVE  /\ job[w] \in JobRows /\ job[w].pc \in Places /\ job[w].slot \in Slots \cup {None}
         /\ job[w].type \in Types \cup {None} /\ job[w].attempt \in Counts
         /\ job[w].plan \in Seq(Requests) /\ job[w].desired \in DesiredStates \cup {None}
         /\ job[w].state \in {"running", "stopped", None}
  BY Zenon DEF JobTypes, JobRows

(* A row is put in the place of the job of w. *)
LEMMA JobPut ==
  ASSUME JobTypes, NEW w \in Workers, NEW row \in JobRows, job' = [job EXCEPT ![w] = row]
  PROVE  JobTypes' /\ Others(w) /\ job'[w] = row
  BY Zenon DEF JobTypes, Others

(* The job of a worker that has nothing to do. *)
LEMMA LoopRow ==
  ASSUME NEW p \in Places
  PROVE  LET row == [Loop EXCEPT !.pc = p]
         IN  row \in JobRows /\ row.pc = p /\ row.slot = None
<1>1. <<>> \in Seq(Requests)
  OBVIOUS
<1>2. Loop \in JobRows
  BY <1>1, CountFacts, Zenon DEF Loop, JobRows, Places
<1> QED
  BY <1>2, Zenon DEF Loop, JobRows

(* A worker returns to its loop, or goes on to the queue. *)
LEMMA JobLeft ==
  ASSUME JobTypes, NEW w \in Workers,
         \/ job' = [job EXCEPT ![w] = Loop]
         \/ job' = [job EXCEPT ![w] = Consume]
  PROVE  Moves(w) /\ job'[w].slot = None
<1>1. "loop" \in Places /\ "consume" \in Places /\ Loop = [Loop EXCEPT !.pc = "loop"]
  BY SMT, SMTT(30) DEF Places, Loop
<1>2. PICK p \in {"loop", "consume"} : job' = [job EXCEPT ![w] = [Loop EXCEPT !.pc = p]]
  BY <1>1, Zenon DEF Consume
<1>3. PICK row \in JobRows : /\ row = [Loop EXCEPT !.pc = p]
                             /\ row.pc = p /\ row.slot = None
  BY <1>1, LoopRow, Zenon
<1>4. JobTypes' /\ Others(w) /\ job'[w] = row
  BY <1>2, <1>3, JobPut, Zenon
<1> QED
  BY <1>3, <1>4, Zenon DEF Moves, JobInv

(* What a worker keeps when it goes on to another place. *)
Keeps(w) ==
  /\ job'[w].slot = job[w].slot /\ job'[w].type = job[w].type
  /\ job'[w].attempt = job[w].attempt

(* The job of w with another place, plan, desired state and observed state. *)
Moved(w, p, plan, desired, state) ==
  [job[w] EXCEPT !.pc = p, !.plan = plan, !.desired = desired, !.state = state]

JobNow(w, p, plan, desired, state) ==
  /\ JobTypes' /\ Others(w) /\ Keeps(w)
  /\ job'[w].pc = p /\ job'[w].plan = plan /\ job'[w].desired = desired
  /\ job'[w].state = state

(* Only the place, the plan and the states that were read change. *)
LEMMA JobMoved ==
  ASSUME JobTypes, NEW w \in Workers, NEW p \in Places, NEW plan \in Seq(Requests),
         NEW desired \in DesiredStates \cup {None}, NEW state \in {"running", "stopped", None},
         job' = [job EXCEPT ![w] = Moved(w, p, plan, desired, state)]
  PROVE  JobNow(w, p, plan, desired, state)
<1> DEFINE row == Moved(w, p, plan, desired, state)
<1>1. job[w] \in JobRows
  BY JobFields, Zenon
<1>2. row \in JobRows
  BY <1>1, Zenon DEF JobRows, Moved
<1>3. /\ row.pc = p /\ row.plan = plan /\ row.desired = desired /\ row.state = state
      /\ row.slot = job[w].slot /\ row.type = job[w].type /\ row.attempt = job[w].attempt
  BY <1>1, Zenon DEF JobRows, Moved
<1>4. JobTypes' /\ Others(w) /\ job'[w] = row
  BY <1>2, JobPut, Zenon
<1> QED
  BY <1>3, <1>4, Zenon DEF Keeps, JobNow

(* The places that a worker can come to. *)
LEMMA IsPlace ==
  /\ "select" \in Places /\ "get" \in Places /\ "store" \in Places /\ "set" \in Places
  /\ "call" \in Places /\ "wait" \in Places /\ "finish" \in Places
  BY Zenon DEF Places

(* A plan that is not empty. *)
LEMMA PlanRest ==
  ASSUME NEW plan \in Seq(Requests), plan # <<>>
  PROVE  Head(plan) \in Requests /\ Tail(plan) \in Seq(Requests)
  OBVIOUS

(* The state of a machine, as the adapter reports it. *)
LEMMA StateTypes ==
  ASSUME LxdTypeOK
  PROVE  State \in {"running", "stopped"}
<1>1. lxd.status \in {"Running", "Stopped"}
  BY Zenon DEF LxdTypeOK
<1> QED
  BY <1>1, Zenon DEF State, MapState

(* The requests of an action. *)
LEMMA PlanTypes ==
  ASSUME NEW type \in Types
  PROVE  Plan(type) \in Seq(Requests)
<1>1. /\ "stop" \in Requests /\ "rebuild" \in Requests /\ "start" \in Requests
      /\ "restart" \in Requests
  BY Zenon DEF Requests, StateActions
<1>2. /\ <<"stop">> \in Seq(Requests) /\ <<>> \in Seq(Requests)
      /\ <<"rebuild", "start">> \in Seq(Requests)
  BY <1>1, SMT, SMTT(30)
<1>3. CASE type = "reinstall"
  <2>1. \A a, b \in Seq(Requests) : a \o b \in Seq(Requests)
    OBVIOUS
  <2>2. Plan(type) = (IF State = "running" THEN <<"stop">> ELSE <<>>) \o <<"rebuild", "start">>
    BY <1>3, Zenon DEF Plan
  <2>3. (IF State = "running" THEN <<"stop">> ELSE <<>>) \in Seq(Requests)
    BY <1>2, Zenon
  <2> QED
    BY <1>2, <2>1, <2>2, <2>3, Zenon
<1>4. CASE type = "suspend"
  BY <1>2, <1>4, Zenon DEF Plan
<1>5. CASE type \in {"start", "stop", "restart"}
  <2>1. Plan(type) = <<type>> /\ type \in Requests
    BY <1>1, <1>5, Zenon DEF Plan
  <2> QED
    BY <2>1, SMT, SMTT(30)
<1> QED
  BY <1>3, <1>4, <1>5, Zenon DEF Types, UserActions

(* A worker goes on in its round. *)
LEMMA RoundJob ==
  ASSUME JobTypes, LxdTypeOK, inst.desired \in DesiredStates, NEW w \in Workers, JobInv(w),
         \/ job[w].pc = "loop" /\ job' = [job EXCEPT ![w].pc = "select"]
         \/ SelectCandidate(w) \/ GetInstance(w)
  PROVE  Moves(w) /\ job[w].slot = None
<1>0. job[w] \in JobRows /\ State \in {"running", "stopped"}
  BY JobFields, StateTypes, Zenon
<1>a. PICK P \in Seq(Requests), D \in DesiredStates \cup {None}, S \in {"running", "stopped", None} :
        P = job[w].plan /\ D = job[w].desired /\ S = job[w].state
  BY JobFields, Zenon
<1>b. PICK now \in {"running", "stopped", None} : now = State
  BY <1>0, Zenon
<1>1. CASE job[w].pc = "loop" /\ job' = [job EXCEPT ![w].pc = "select"]
  <2>1. job' = [job EXCEPT ![w] = Moved(w, "select", P, D, S)]
    BY <1>0, <1>a, <1>1, Zenon DEF JobTypes, JobRows, Moved
  <2>2. JobNow(w, "select", P, D, S)
    BY <1>0, <2>1, IsPlace, JobMoved, Zenon
  <2> QED
    BY <1>1, <2>2, Zenon DEF JobNow, Moves, JobInv, Keeps
<1>2. CASE SelectCandidate(w)
  <2>0. PICK d \in DesiredStates \cup {None} : d = inst.desired
    BY Zenon
  <2>1. job' = [job EXCEPT ![w] = Moved(w, "get", P, d, S)]
    BY <1>0, <1>a, <1>2, <2>0, Zenon DEF SelectCandidate, JobTypes, JobRows, Moved
  <2>2. JobNow(w, "get", P, d, S)
    BY <1>0, <2>1, IsPlace, JobMoved, Zenon
  <2> QED
    BY <1>2, <2>0, <2>2, Zenon DEF JobNow, Moves, JobInv, Keeps, SelectCandidate
<1>3. CASE GetInstance(w)
  <2>1. job' = [job EXCEPT ![w] = Moved(w, "store", P, D, now)]
    BY <1>0, <1>a, <1>b, <1>3, Zenon DEF GetInstance, JobTypes, JobRows, Moved
  <2>2. JobNow(w, "store", P, D, now)
    BY <1>0, <2>1, IsPlace, JobMoved, Zenon
  <2> QED
    BY <1>0, <1>a, <1>b, <1>3, <2>2, Zenon DEF JobNow, Moves, JobInv, Keeps, GetInstance
<1> QED
  BY <1>1, <1>2, <1>3, Zenon

(* The ways in which a worker goes on with its operation. *)
Works(w) ==
  \/ \E plan \in Seq(Requests) : job' = [job EXCEPT ![w].pc = "call", ![w].plan = plan]
  \/ job[w].pc = "call" /\ job' = [job EXCEPT ![w].plan = Tail(@)] /\ job[w].plan # <<>>
  \/ job' = [job EXCEPT ![w].pc = "wait"] /\ job[w].plan # <<>>
  \/ job' = [job EXCEPT ![w].pc = "finish", ![w].state = State]

(* A worker that goes on stays with its operation. *)
LEMMA WorkJob ==
  ASSUME JobTypes, LxdTypeOK, NEW w \in Workers, JobInv(w),
         job[w].pc \in {"set", "call", "wait"}, Works(w)
  PROVE  Moves(w) /\ job'[w].slot = job[w].slot
<1>0. job[w] \in JobRows /\ State \in {"running", "stopped"}
  BY JobFields, StateTypes, Zenon
<1>a. PICK P \in Seq(Requests), D \in DesiredStates \cup {None}, S \in {"running", "stopped", None} :
        P = job[w].plan /\ D = job[w].desired /\ S = job[w].state
  BY JobFields, Zenon
<1>b. PICK now \in {"running", "stopped", None} : now = State
  BY <1>0, Zenon
<1>1. ASSUME NEW plan \in Seq(Requests), job' = [job EXCEPT ![w].pc = "call", ![w].plan = plan]
      PROVE  Moves(w) /\ job'[w].slot = job[w].slot
  <2>1. job' = [job EXCEPT ![w] = Moved(w, "call", plan, D, S)]
    BY <1>0, <1>a, <1>1, Zenon DEF JobTypes, JobRows, Moved
  <2>2. JobNow(w, "call", plan, D, S)
    BY <1>0, <2>1, IsPlace, JobMoved, Zenon
  <2> QED
    BY <2>2, Zenon DEF JobNow, Moves, JobInv, Keeps
<1>2. CASE job[w].pc = "call" /\ job' = [job EXCEPT ![w].plan = Tail(@)] /\ job[w].plan # <<>>
  <2>1. PICK plan \in Seq(Requests) : plan = Tail(job[w].plan)
    BY <1>2, <1>a, PlanRest, Zenon
  <2>2. job' = [job EXCEPT ![w] = [job[w] EXCEPT !.plan = plan]]
    BY <1>2, <2>1, Zenon
  <2>3. [job[w] EXCEPT !.plan = plan] = Moved(w, "call", plan, D, S)
    BY <1>0, <1>a, <1>2, Zenon DEF JobRows, Moved
  <2>4. job' = [job EXCEPT ![w] = Moved(w, "call", plan, D, S)]
    BY <2>2, <2>3, Zenon
  <2>5. JobNow(w, "call", plan, D, S)
    BY <1>0, <2>4, IsPlace, JobMoved, Zenon
  <2> QED
    BY <2>5, Zenon DEF JobNow, Moves, JobInv, Keeps
<1>3. CASE job' = [job EXCEPT ![w].pc = "wait"] /\ job[w].plan # <<>>
  <2>1. job' = [job EXCEPT ![w] = Moved(w, "wait", P, D, S)]
    BY <1>0, <1>a, <1>b, <1>3, Zenon DEF JobTypes, JobRows, Moved
  <2>2. JobNow(w, "wait", P, D, S)
    BY <1>0, <2>1, IsPlace, JobMoved, Zenon
  <2> QED
    BY <1>a, <1>3, <2>2, Zenon DEF JobNow, Moves, JobInv, Keeps
<1>4. CASE job' = [job EXCEPT ![w].pc = "finish", ![w].state = State]
  <2>1. job' = [job EXCEPT ![w] = Moved(w, "finish", P, D, now)]
    BY <1>0, <1>a, <1>b, <1>4, Zenon DEF JobTypes, JobRows, Moved
  <2>2. JobNow(w, "finish", P, D, now)
    BY <1>0, <2>1, IsPlace, JobMoved, Zenon
  <2> QED
    BY <1>0, <1>b, <2>2, Zenon DEF JobNow, Moves, JobInv, Keeps
<1> QED
  BY <1>1, <1>2, <1>3, <1>4, Zenon DEF Works

(* The job of a worker that is about to create an operation of a type. *)
LEMMA CreateJob ==
  ASSUME JobTypes, NEW w \in Workers, NEW type \in Types,
         job' = [job EXCEPT ![w] = [Loop EXCEPT !.pc = "create", !.type = type]]
  PROVE  Moves(w) /\ job'[w].slot = None
<1> DEFINE row == [Loop EXCEPT !.pc = "create", !.type = type]
<1>1. <<>> \in Seq(Requests)
  OBVIOUS
<1>2. row \in JobRows
  BY <1>1, CountFacts, Zenon DEF Loop, JobRows, Places
<1>3. row.slot = None /\ row.pc = "create" /\ row.type = type
  BY Zenon DEF Loop
<1>4. JobTypes' /\ Others(w) /\ job'[w] = row
  BY <1>2, JobPut, Zenon
<1> QED
  BY <1>3, <1>4, Zenon DEF Moves, JobInv

(* A worker claims an operation and reads its row. *)
LEMMA ClaimJob ==
  ASSUME JobTypes, NEW w \in Workers, NEW s \in Slots, ops[s] \in OpRows, ops[s].type \in Types,
         job' = [job EXCEPT ![w] = [Loop EXCEPT !.pc = "set", !.slot = s, !.type = ops[s].type,
                                                !.attempt = ops[s].retries]]
  PROVE  /\ JobTypes' /\ Others(w) /\ JobInv(w)'
         /\ job'[w].slot = s /\ job'[w].attempt = ops[s].retries /\ job'[w].pc = "set"
<1> DEFINE row == [Loop EXCEPT !.pc = "set", !.slot = s, !.type = ops[s].type,
                               !.attempt = ops[s].retries]
<1>1. ops[s].retries \in Counts
  BY Zenon DEF OpRows
<1>2. <<>> \in Seq(Requests)
  OBVIOUS
<1>3. row \in JobRows
  BY <1>1, <1>2, Zenon DEF Loop, JobRows, Places
<1>4. row.slot = s /\ row.attempt = ops[s].retries /\ row.pc = "set" /\ row.type = ops[s].type
  BY Zenon DEF Loop
<1>5. JobTypes' /\ Others(w) /\ job'[w] = row
  BY <1>3, JobPut, Zenon
<1> QED
  BY <1>4, <1>5, Zenon DEF JobInv

-----------------------------------------------------------------------------
(* Operations and their retries                                             *)

OpNats == [type : Types \cup {None}, status : {"queued", "running", "ended"},
           retries : Nat, stale : BOOLEAN]

OpsInv == ops \in [Slots -> OpNats] /\ \A s \in Slots : OpInv(s) /\ BudgetInv(s)

(* No worker comes to an operation. *)
Quiet == \A s \in Slots : Incrementers(s)' \subseteq Incrementers(s)

(* Sets of workers are finite; one with an element more or less counts so.   *)
LEMMA WorkerSets ==
  /\ \A S \in SUBSET Workers : Cardinality(S) \in Nat
  /\ \A S \in SUBSET Workers : \A T \in SUBSET S : Cardinality(T) <= Cardinality(S)
  /\ \A S \in SUBSET Workers, w \in Workers : Cardinality(S \cup {w}) <= Cardinality(S) + 1
  /\ \A S \in SUBSET Workers : \A w \in S : Cardinality(S \ {w}) = Cardinality(S) - 1
<1>1. \A S \in SUBSET Workers : IsFiniteSet(S) /\ Cardinality(S) \in Nat
  BY ActionAssumption, FS_Subset, FS_CardinalityType, Zenon
<1>2. \A S \in SUBSET Workers : \A T \in SUBSET S : Cardinality(T) <= Cardinality(S)
  BY <1>1, FS_Subset, Zenon
<1>3. ASSUME NEW S \in SUBSET Workers, NEW w \in Workers
      PROVE  Cardinality(S \cup {w}) <= Cardinality(S) + 1
  <2>1. IsFiniteSet(S) /\ Cardinality(S) \in Nat
    BY <1>1, Zenon
  <2>2. Cardinality(S \cup {w}) = IF w \in S THEN Cardinality(S) ELSE Cardinality(S) + 1
    BY <2>1, FS_AddElement, Zenon
  <2> QED
    BY <2>1, <2>2, SMT, SMTT(30)
<1>4. \A S \in SUBSET Workers : \A w \in S : Cardinality(S \ {w}) = Cardinality(S) - 1
  BY <1>1, FS_RemoveElement, Zenon
<1> QED
  BY <1>1, <1>2, <1>3, <1>4, Zenon

(* A worker that stays with its operation or leaves it comes to none. *)
LEMMA MovesQuietly ==
  ASSUME NEW w \in Workers, Moves(w)
  PROVE  Quiet
<1>1. SUFFICES ASSUME NEW s \in Slots, NEW v \in Incrementers(s)' PROVE v \in Incrementers(s)
  BY Zenon DEF Quiet
<1>2. v \in Workers /\ job'[v].slot = s /\ job'[v].attempt < MaxRetries
  BY <1>1, Zenon DEF Incrementers, Executing
<1>3. job[v].slot = s /\ job'[v].attempt = job[v].attempt
  <2>1. s # None
    BY ActionAssumption, Zenon
  <2> QED
    BY <1>2, <2>1, Zenon DEF Moves, Others
<1> QED
  BY <1>2, <1>3, Zenon DEF Incrementers, Executing

(* The retries of an operation and the workers that may count one. *)
LEMMA BudgetKept ==
  ASSUME NEW s \in Slots, BudgetInv(s), ops[s].retries \in Nat, ops'[s].retries \in Nat,
         \/ /\ ops'[s].retries <= ops[s].retries
            /\ Incrementers(s)' \subseteq Incrementers(s)
         \/ /\ ops'[s].retries = ops[s].retries + 1
            /\ \E w \in Incrementers(s) : Incrementers(s)' \subseteq Incrementers(s) \ {w}
         \/ /\ ops'[s].retries <= MaxRetries
            /\ \E w \in Workers : Incrementers(s)' \subseteq Workers \ {w}
         \/ /\ ops'[s].retries < MaxRetries
  PROVE  BudgetInv(s)'
<1>0. /\ Incrementers(s) \in SUBSET Workers /\ Incrementers(s)' \in SUBSET Workers
      /\ Workers \in SUBSET Workers
  BY Zenon DEF Incrementers
<1>1. /\ Cardinality(Incrementers(s)) \in Nat /\ Cardinality(Incrementers(s)') \in Nat
      /\ Cardinality(Workers) \in Nat /\ MaxRetries \in Nat
      /\ Cardinality(Incrementers(s)') <= Cardinality(Workers)
  BY <1>0, WorkerSets, CountFacts, Zenon
<1>2. CASE /\ ops'[s].retries <= ops[s].retries
           /\ Incrementers(s)' \subseteq Incrementers(s)
  <2>1. Cardinality(Incrementers(s)') <= Cardinality(Incrementers(s))
    BY <1>0, <1>2, WorkerSets, Zenon
  <2> QED
    BY <1>1, <1>2, <2>1, SMT, SMTT(30) DEF BudgetInv
<1>3. ASSUME ops'[s].retries = ops[s].retries + 1, NEW w \in Incrementers(s),
             Incrementers(s)' \subseteq Incrementers(s) \ {w}
      PROVE  BudgetInv(s)'
  <2>1. Incrementers(s) \ {w} \in SUBSET Workers
    BY <1>0, Zenon
  <2>2. /\ Cardinality(Incrementers(s)') <= Cardinality(Incrementers(s) \ {w})
        /\ Cardinality(Incrementers(s) \ {w}) = Cardinality(Incrementers(s)) - 1
    BY <1>0, <1>3, <2>1, WorkerSets, Zenon
  <2> QED
    BY <1>1, <1>3, <2>2, SMT, SMTT(30) DEF BudgetInv
<1>4. ASSUME ops'[s].retries <= MaxRetries, NEW w \in Workers,
             Incrementers(s)' \subseteq Workers \ {w}
      PROVE  BudgetInv(s)'
  <2>1. /\ Cardinality(Incrementers(s)') <= Cardinality(Workers \ {w})
        /\ Cardinality(Workers \ {w}) = Cardinality(Workers) - 1
    BY <1>0, <1>4, WorkerSets, Zenon
  <2> QED
    BY <1>1, <1>4, <2>1, SMT, SMTT(30) DEF BudgetInv
<1>5. CASE ops'[s].retries < MaxRetries
  BY <1>1, <1>5, SMT, SMTT(30) DEF BudgetInv
<1> QED
  BY <1>2, <1>3, <1>4, <1>5, Zenon

(* The operations stay as they are. *)
LEMMA OpsSame ==
  ASSUME OpsInv, Quiet, ops' = ops
  PROVE  OpsInv'
<1>1. ASSUME NEW s \in Slots PROVE OpInv(s)' /\ BudgetInv(s)'
  <2>1. ops[s].retries \in Nat /\ OpInv(s) /\ BudgetInv(s)
    BY Zenon DEF OpsInv, OpNats
  <2>2. BudgetInv(s)'
    BY <2>1, BudgetKept, SMT, SMTT(30) DEF Quiet
  <2> QED
    BY <2>1, <2>2, Zenon DEF OpInv, Open
<1> QED
  BY <1>1, Zenon DEF OpsInv

(* One operation changes; its retries do not grow. *)
LEMMA OpsPut ==
  ASSUME OpsInv, Quiet, NEW s \in Slots, NEW row \in OpNats, ops' = [ops EXCEPT ![s] = row],
         row.retries <= ops[s].retries, row.status # "ended" => row.type \in Types
  PROVE  OpsInv'
<1>0. ops \in [Slots -> OpNats] /\ row.retries \in Nat
  BY Zenon DEF OpsInv, OpNats
<1>1. ASSUME NEW t \in Slots PROVE OpInv(t)' /\ BudgetInv(t)'
  <2>1. ops[t].retries \in Nat /\ OpInv(t) /\ BudgetInv(t)
    BY Zenon DEF OpsInv, OpNats
  <2>2. ops'[t] = IF t = s THEN row ELSE ops[t]
    BY <1>0, Zenon
  <2>3. ops'[t].retries \in Nat /\ ops'[t].retries <= ops[t].retries
    BY <1>0, <2>1, <2>2, SMT, SMTT(30)
  <2>4. BudgetInv(t)'
    BY <2>1, <2>3, BudgetKept, Zenon DEF Quiet
  <2> QED
    BY <2>1, <2>2, <2>4, Zenon DEF OpInv, Open
<1>2. ops' \in [Slots -> OpNats]
  BY <1>0, Zenon
<1> QED
  BY <1>1, <1>2, Zenon DEF OpsInv

(* The rows of operations. *)
LEMMA OpFields ==
  ASSUME OpsInv, NEW s \in Slots
  PROVE  /\ ops[s] \in OpNats /\ ops[s].type \in Types \cup {None} /\ ops[s].retries \in Nat
         /\ ops[s].status \in {"queued", "running", "ended"} /\ ops[s].stale \in BOOLEAN
         /\ (Open(s) => ops[s].type \in Types)
  BY Zenon DEF OpsInv, OpNats, OpInv

(* An operation that has ended. *)
LEMMA EndedRow ==
  Ended \in OpNats /\ Ended.status = "ended" /\ Ended.retries = 0
  BY Zenon DEF Ended, OpNats

(* The row o with another status, n retries and a new heartbeat. *)
Written(o, status, n) == [o EXCEPT !.status = status, !.retries = n, !.stale = FALSE]

IsWritten(row, o, status, n) ==
  /\ row = Written(o, status, n) /\ row \in OpNats
  /\ row.type = o.type /\ row.status = status /\ row.retries = n /\ row.stale = FALSE

(* There is such a row. *)
LEMMA WrittenRow ==
  ASSUME NEW o \in OpNats, NEW status \in {"queued", "running", "ended"}, NEW n \in Nat
  PROVE  \E row : IsWritten(row, o, status, n)
<1>1. Written(o, status, n) \in OpNats
  BY Zenon DEF Written, OpNats
<1>2. /\ Written(o, status, n).type = o.type /\ Written(o, status, n).status = status
      /\ Written(o, status, n).retries = n
  BY Zenon DEF Written, OpNats
<1>3. Written(o, status, n).stale = FALSE
  BY Zenon DEF Written, OpNats
<1> QED
  BY <1>1, <1>2, <1>3, Zenon DEF IsWritten

(* The worker w touches no other operation than its own. *)
Elsewhere(w) == \A t \in Slots : t # job[w].slot => ops'[t] = ops[t]

(* Progress. *)
LEMMA OpsBeat ==
  ASSUME OpsInv, Quiet, NEW w \in Workers, job[w].slot \in Slots, Open(job[w].slot),
         ops' = Beat(job[w].slot)
  PROVE  OpsInv' /\ Elsewhere(w)
<1>0. PICK s \in Slots : s = job[w].slot
  BY Zenon
<1>1. PICK row : IsWritten(row, ops[s], "running", ops[s].retries)
  BY OpFields, WrittenRow, Zenon
<1>2. ops' = [ops EXCEPT ![s] = row]
  <2>1. ops' = [ops EXCEPT ![s] = [ops[s] EXCEPT !.status = "running", !.stale = FALSE]]
    BY <1>0, OpFields, Zenon DEF Beat, OpsInv, OpNats
  <2>2. [ops[s] EXCEPT !.status = "running", !.stale = FALSE] = row
    BY <1>1, OpFields, Zenon DEF OpNats, Written, IsWritten
  <2> QED
    BY <2>1, <2>2, Zenon
<1>3. /\ row.retries <= ops[s].retries
      /\ row.status # "ended" => row.type \in Types
  <2>1. ops[s].retries \in Nat /\ ops[s].type \in Types
    BY <1>0, OpFields, Zenon
  <2> QED
    BY <1>1, <2>1, SMT, SMTT(30) DEF IsWritten
<1>4. OpsInv'
  BY <1>1, <1>2, <1>3, OpsPut, Zenon DEF IsWritten
<1> QED
  BY <1>0, <1>2, <1>4, Zenon DEF Elsewhere, OpsInv

(* The operation of w ends. *)
LEMMA OpsEnded ==
  ASSUME OpsInv, Quiet, NEW w \in Workers, job[w].slot \in Slots,
         ops' = [ops EXCEPT ![job[w].slot] = Ended]
  PROVE  OpsInv' /\ Elsewhere(w)
<1>1. Ended.retries <= ops[job[w].slot].retries
  BY OpFields, EndedRow, SMT, SMTT(30)
<1>2. OpsInv'
  BY <1>1, EndedRow, OpsPut, Zenon
<1> QED
  BY <1>2, Zenon DEF Elsewhere, OpsInv

(* An error: a worker counts a retry at most once. *)
LEMMA OpsError ==
  ASSUME OpsInv, JobTypes, NEW w \in Workers, job[w].slot \in Slots,
         NEW retryable \in BOOLEAN, EndWithError(w, retryable)
  PROVE  OpsInv' /\ Elsewhere(w) /\ Moves(w) /\ job'[w].slot = None
<1>0. PICK s \in Slots : s = job[w].slot
  BY Zenon
<1>1. Moves(w) /\ job'[w].slot = None
  BY JobLeft, Zenon DEF EndWithError
<1>2. Quiet
  BY <1>1, MovesQuietly, Zenon
<1>3. CASE ops' = ops
  BY <1>1, <1>2, <1>3, OpsSame, Zenon DEF Elsewhere
<1>4. CASE ops' = [ops EXCEPT ![s] = Ended]
  BY <1>0, <1>1, <1>2, <1>4, OpsEnded, Zenon
<1>5. CASE /\ Open(s) /\ job[w].attempt < MaxRetries
           /\ ops' = [ops EXCEPT ![s].status = "queued", ![s].retries = @ + 1, ![s].stale = FALSE]
  <2>1. PICK row : IsWritten(row, ops[s], "queued", ops[s].retries + 1)
    <3>1. ops[s] \in OpNats /\ ops[s].retries + 1 \in Nat
      BY OpFields, SMT, SMTT(30)
    <3> QED
      BY <3>1, WrittenRow, Zenon
  <2>2. ops \in [Slots -> OpNats] /\ ops' = [ops EXCEPT ![s] = row]
    BY <1>5, <2>1, OpFields, Zenon DEF OpsInv, OpNats, Written, IsWritten
  <2>3. ASSUME NEW t \in Slots PROVE OpInv(t)' /\ BudgetInv(t)'
    <3>1. ops[t].retries \in Nat /\ OpInv(t) /\ BudgetInv(t)
      BY OpFields, Zenon DEF OpsInv
    <3>2. CASE t = s
      <4>1. ops'[s] = row /\ ops'[s].retries \in Nat
        <5>1. ops'[s] = row
          BY <2>2, Zenon
        <5> QED
          BY <2>1, <3>1, <3>2, <5>1, SMT, SMTT(30) DEF IsWritten
      <4>2. w \in Incrementers(s) /\ Incrementers(s)' \subseteq Incrementers(s) \ {w}
        <5>1. w \in Incrementers(s) /\ Incrementers(s)' \subseteq Incrementers(s)
          BY <1>0, <1>2, <1>5, Zenon DEF Incrementers, Executing, Quiet
        <5>2. w \notin Incrementers(s)'
          BY <1>1, ActionAssumption, Zenon DEF Incrementers, Executing
        <5> QED
          BY <5>1, <5>2, Zenon
      <4>3. BudgetInv(s)'
        BY <2>1, <3>1, <3>2, <4>1, <4>2, BudgetKept, Zenon DEF IsWritten
      <4> QED
        BY <1>5, <2>1, <3>1, <3>2, <4>1, <4>3, Zenon DEF OpInv, IsWritten
    <3>3. CASE t # s
      <4>1. ops'[t] = ops[t]
        BY <2>2, <3>3, Zenon
      <4>2. BudgetInv(t)'
        BY <1>2, <3>1, <4>1, BudgetKept, SMT, SMTT(30) DEF Quiet
      <4> QED
        BY <3>1, <4>1, <4>2, Zenon DEF OpInv, Open
    <3> QED
      BY <3>2, <3>3, Zenon
  <2>4. ops' \in [Slots -> OpNats]
    BY <2>1, <2>2, Zenon DEF IsWritten
  <2> QED
    BY <1>0, <1>1, <2>2, <2>3, <2>4, Zenon DEF OpsInv, Elsewhere
<1> QED
  BY <1>0, <1>1, <1>3, <1>4, <1>5, Zenon DEF EndWithError

(* RecoverStuck leaves an operation alone, takes one retry or ends it. *)
LEMMA RecoveredRow ==
  ASSUME NEW o \in OpNats
  PROVE  \/ Recovered(o) = o
         \/ /\ o.status = "running" /\ o.stale /\ o.retries < MaxRetries
            /\ IsWritten(Recovered(o), o, "queued", o.retries + 1)
         \/ /\ o.status = "running" /\ o.stale /\ ~(o.retries < MaxRetries)
            /\ Recovered(o) = Ended
<1>1. CASE ~(o.status = "running" /\ o.stale)
  BY <1>1, Zenon DEF Recovered
<1>2. CASE o.status = "running" /\ o.stale /\ ~(o.retries < MaxRetries)
  BY <1>2, Zenon DEF Recovered
<1>3. CASE o.status = "running" /\ o.stale /\ o.retries < MaxRetries
  <2>1. o.retries + 1 \in Nat
    BY SMT, SMTT(30) DEF OpNats
  <2>2. Recovered(o) = Written(o, "queued", o.retries + 1)
    BY <1>3, Zenon DEF Recovered, Written
  <2>3. PICK row : IsWritten(row, o, "queued", o.retries + 1)
    BY <2>1, WrittenRow, Zenon
  <2>4. IsWritten(Recovered(o), o, "queued", o.retries + 1)
    BY <2>2, <2>3, Zenon DEF IsWritten
  <2> QED
    BY <1>3, <2>4, Zenon
<1> QED
  BY <1>1, <1>2, <1>3, Zenon

(* RecoverStuck: the worker that counts this retry executes nothing. *)
LEMMA OpsRecovered ==
  ASSUME OpsInv, NEW w \in Workers, Moves(w), job[w].slot = None,
         ops' = [s \in Slots |-> Recovered(ops[s])]
  PROVE  OpsInv'
<1>1. Quiet
  BY MovesQuietly, Zenon
<1>2. ASSUME NEW t \in Slots PROVE ops'[t] \in OpNats /\ OpInv(t)' /\ BudgetInv(t)'
  <2>1. ops[t] \in OpNats /\ ops[t].retries \in Nat /\ OpInv(t) /\ BudgetInv(t)
    BY OpFields, Zenon DEF OpsInv
  <2>2. ops'[t] = Recovered(ops[t])
    BY Zenon
  <2>3. CASE ops'[t] = ops[t]
    <3>1. BudgetInv(t)'
      BY <1>1, <2>1, <2>3, BudgetKept, SMT, SMTT(30) DEF Quiet
    <3> QED
      BY <2>1, <2>3, <3>1, Zenon DEF OpInv, Open
  <2>4. CASE /\ ops[t].status = "running" /\ ops[t].retries < MaxRetries
             /\ IsWritten(ops'[t], ops[t], "queued", ops[t].retries + 1)
    <3>1. /\ ops'[t] \in OpNats /\ ops'[t].type = ops[t].type
          /\ ops'[t].retries = ops[t].retries + 1
      BY <2>4, Zenon DEF IsWritten
    <3>2. ops'[t].retries <= MaxRetries /\ ops'[t].retries \in Nat
      BY <2>1, <2>4, <3>1, CountFacts, SMT, SMTT(30)
    <3>3. Incrementers(t)' \subseteq Workers \ {w}
      <4>1. w \notin Incrementers(t)'
        BY ActionAssumption, Zenon DEF Moves, Incrementers, Executing
      <4> QED
        BY <4>1, Zenon DEF Incrementers
    <3>4. BudgetInv(t)'
      BY <2>1, <3>2, <3>3, BudgetKept, Zenon
    <3>5. ops[t].type \in Types
      BY <2>1, <2>4, Zenon DEF OpInv, Open
    <3> QED
      BY <3>1, <3>4, <3>5, Zenon DEF OpInv
  <2>5. CASE ops'[t] = Ended
    <3>1. ops'[t].retries \in Nat /\ ops'[t].retries <= ops[t].retries
      BY <2>1, <2>5, EndedRow, SMT, SMTT(30)
    <3>2. BudgetInv(t)'
      BY <1>1, <2>1, <3>1, BudgetKept, Zenon DEF Quiet
    <3> QED
      BY <2>5, <3>2, EndedRow, Zenon DEF OpInv, Open
  <2> QED
    BY <2>1, <2>2, <2>3, <2>4, <2>5, RecoveredRow, Zenon
<1>3. ops' \in [Slots -> OpNats]
  <2>1. \A t \in Slots : Recovered(ops[t]) \in OpNats
    BY <1>2, Zenon
  <2> QED
    BY <2>1, Zenon
<1> QED
  BY <1>2, <1>3, Zenon DEF OpsInv

(* A claim: one more worker may count a retry, if the row has one left. *)
LEMMA OpsClaimed ==
  ASSUME OpsInv, NEW w \in Workers, NEW s \in Slots, Others(w),
         job'[w].slot = s, job'[w].attempt = ops[s].retries,
         ops[s].status = "queued",
         ops' = [ops EXCEPT ![s].status = "running", ![s].stale = FALSE]
  PROVE  /\ OpsInv' /\ IsWritten(ops'[s], ops[s], "running", ops[s].retries)
         /\ \A t \in Slots : t # s => ops'[t] = ops[t]
<1>0. ops \in [Slots -> OpNats] /\ ops[s] \in OpNats /\ ops[s].type \in Types
  BY OpFields, Zenon DEF OpsInv, Open
<1>1. PICK row : IsWritten(row, ops[s], "running", ops[s].retries)
  BY OpFields, WrittenRow, Zenon
<1>2. ops' = [ops EXCEPT ![s] = row]
  <2>1. ops' = [ops EXCEPT ![s] = [ops[s] EXCEPT !.status = "running", !.stale = FALSE]]
    BY <1>0, Zenon DEF OpNats
  <2>2. [ops[s] EXCEPT !.status = "running", !.stale = FALSE] = row
    BY <1>0, <1>1, Zenon DEF OpNats, Written, IsWritten
  <2> QED
    BY <2>1, <2>2, Zenon
<1>3. ops'[s] = row /\ \A t \in Slots : t # s => ops'[t] = ops[t]
  BY <1>0, <1>2, Zenon
<1>4. ASSUME NEW t \in Slots PROVE OpInv(t)' /\ BudgetInv(t)'
  <2>1. ops[t].retries \in Nat /\ OpInv(t) /\ BudgetInv(t) /\ ops[t].retries <= ops[t].retries
    BY OpFields, SMT, SMTT(30) DEF OpsInv
  <2>2. CASE t = s
    <3>1. ops'[t].retries = ops[t].retries /\ ops'[t].type = ops[t].type
      BY <1>1, <1>3, <2>2, Zenon DEF IsWritten
    <3>2. ASSUME ops[t].retries < MaxRetries PROVE BudgetInv(t)'
      BY <2>1, <3>1, <3>2, BudgetKept, Zenon
    <3>3. ASSUME ~(ops[t].retries < MaxRetries) PROVE BudgetInv(t)'
      <4>1. w \notin Incrementers(t)'
        BY <2>2, <3>3, Zenon DEF Incrementers
      <4>2. Incrementers(t)' \subseteq Incrementers(t)
        BY <4>1, Zenon DEF Incrementers, Executing, Others
      <4> QED
        BY <2>1, <3>1, <4>2, BudgetKept, Zenon
    <3> QED
      BY <1>0, <2>2, <3>1, <3>2, <3>3, Zenon DEF OpInv
  <2>3. CASE t # s
    <3>1. ops'[t] = ops[t]
      BY <1>3, <2>3, Zenon
    <3>2. Incrementers(t)' \subseteq Incrementers(t)
      BY <2>3, Zenon DEF Incrementers, Executing, Others
    <3>3. BudgetInv(t)'
      BY <2>1, <3>1, <3>2, BudgetKept, Zenon
    <3> QED
      BY <2>1, <3>1, <3>3, Zenon DEF OpInv, Open
  <2> QED
    BY <2>2, <2>3, Zenon
<1>5. ops' \in [Slots -> OpNats]
  BY <1>0, <1>1, <1>2, Zenon DEF IsWritten
<1> QED
  BY <1>1, <1>3, <1>4, <1>5, Zenon DEF OpsInv

(* A new operation takes the place of one that nobody executes. *)
LEMMA OpsCreated ==
  ASSUME OpsInv, Quiet, NEW type \in Types, FreeSlots # {}, CreateOperation(type)
  PROVE  /\ OpsInv'
         /\ \E s \in FreeSlots :
              /\ ops'[s] = [type |-> type, status |-> "queued", retries |-> 0, stale |-> FALSE]
              /\ \A t \in Slots : t # s => ops'[t] = ops[t]
<1>1. PICK s \in FreeSlots : s = CHOOSE r \in FreeSlots : TRUE
  BY Zenon
<1>2. s \in Slots
  BY <1>1, Zenon DEF FreeSlots
<1>3. PICK row \in OpNats :
        /\ row = [type |-> type, status |-> "queued", retries |-> 0, stale |-> FALSE]
        /\ row.type = type /\ row.retries = 0
  <2>1. [type |-> type, status |-> "queued", retries |-> 0, stale |-> FALSE] \in OpNats
    BY Zenon DEF OpNats
  <2> QED
    BY <2>1, Zenon
<1>4. ops' = [ops EXCEPT ![s] = row]
  BY <1>1, <1>3, Zenon DEF CreateOperation
<1>5. row.retries <= ops[s].retries
  BY <1>2, <1>3, OpFields, SMT, SMTT(30)
<1>6. OpsInv'
  BY <1>2, <1>3, <1>4, <1>5, OpsPut, Zenon
<1>7. ops'[s] = row /\ \A t \in Slots : t # s => ops'[t] = ops[t]
  BY <1>2, <1>4, Zenon DEF OpsInv
<1> QED
  BY <1>3, <1>6, <1>7, Zenon

(* The heartbeat of an operation gets old. *)
LEMMA OpsStale ==
  ASSUME OpsInv, Quiet, NEW s \in Slots, Open(s), ops' = [ops EXCEPT ![s].stale = TRUE]
  PROVE  /\ OpsInv' /\ \A t \in Slots : t # s => ops'[t] = ops[t]
         /\ ops'[s].type = ops[s].type /\ ops'[s].status = ops[s].status
         /\ ops'[s].retries = ops[s].retries
<1>0. ops[s] \in OpNats /\ ops[s].type \in Types /\ ops \in [Slots -> OpNats]
  BY OpFields, Zenon DEF OpsInv
<1>1. [ops[s] EXCEPT !.stale = TRUE] \in OpNats
  BY <1>0, Zenon DEF OpNats
<1>2. PICK row \in OpNats :
        /\ row = [ops[s] EXCEPT !.stale = TRUE]
        /\ row.type = ops[s].type /\ row.status = ops[s].status /\ row.retries = ops[s].retries
  BY <1>0, <1>1, Zenon DEF OpNats
<1>3. ops' = [ops EXCEPT ![s] = row]
  BY <1>0, <1>2, Zenon
<1>4. row.retries <= ops[s].retries
  BY <1>0, <1>2, SMT, SMTT(30) DEF OpNats
<1>5. OpsInv'
  BY <1>0, <1>2, <1>3, <1>4, OpsPut, Zenon
<1>6. ops'[s] = row /\ \A t \in Slots : t # s => ops'[t] = ops[t]
  BY <1>0, <1>3, Zenon
<1> QED
  BY <1>2, <1>5, <1>6, Zenon

-----------------------------------------------------------------------------
(* The operations behind the keys                                           *)

FaultsGrow ==
  /\ faults \in Nat /\ faults' \in Nat /\ faults <= faults'
  /\ aborted => aborted'

(* The step leaves every operation behind a key where it is. *)
Carried ==
  ~aborted' /\ faults' <= MaxRetries =>
    \A d \in keys, s \in Slots : Behind(d, s) => Behind(d, s)'

(* A lost retry counts once. *)
LEMMA DebtFacts ==
  ASSUME NEW s \in Slots
  PROVE  /\ Debt(s) \in {0, 1} /\ (Lost(s) => Debt(s) = 1) /\ (~Lost(s) => Debt(s) = 0)
         /\ Debt(s)' \in {0, 1} /\ (Lost(s)' => Debt(s)' = 1) /\ (~Lost(s)' => Debt(s)' = 0)
<1>1. Debt(s) \in {0, 1} /\ (Lost(s) => Debt(s) = 1) /\ (~Lost(s) => Debt(s) = 0)
  BY Zenon DEF Debt
<1>2. Debt(s)' \in {0, 1} /\ (Lost(s)' => Debt(s)' = 1) /\ (~Lost(s)' => Debt(s)' = 0)
  BY Zenon DEF Debt
<1> QED
  BY <1>1, <1>2, Zenon

(* Keys that are kept are still backed. *)
LEMMA KeysCarried ==
  ASSUME KeyInv, FaultsGrow, Carried, keys' \subseteq keys
  PROVE  KeyInv'
<1>1. SUFFICES ASSUME ~aborted', faults' <= MaxRetries, NEW d \in keys'
               PROVE  \E s \in Slots : Behind(d, s)'
  BY Zenon DEF KeyInv
<1>a. ~aborted
  BY <1>1, Zenon DEF FaultsGrow
<1>b. faults <= MaxRetries
  BY <1>1, CountFacts, SMT, SMTT(30) DEF FaultsGrow
<1>2. ~aborted /\ faults <= MaxRetries
  BY <1>a, <1>b, Zenon
<1>3. d \in keys
  BY <1>1, Zenon
<1>4. PICK s \in Slots : Behind(d, s)
  BY <1>2, <1>3, Zenon DEF KeyInv
<1> QED
  BY <1>1, <1>3, <1>4, Zenon DEF Carried

(* A write to the row leaves no keys. *)
LEMMA KeysForgotten ==
  ASSUME keys' = {}
  PROVE  KeyInv'
  BY Zenon DEF KeyInv

(* An operation with the same row and the same workers stays behind a key.   *)
LEMMA BehindKept ==
  ASSUME FaultsGrow, NEW d, NEW s \in Slots, Behind(d, s), ops[s].retries \in Nat,
         ops'[s] = ops[s],
         \A v \in Workers : job'[v].slot = s <=> job[v].slot = s,
         \A v \in Workers : job[v].slot = s => job'[v].pc = job[v].pc
  PROVE  Behind(d, s)'
<1>1. Lost(s)' <=> Lost(s)
  BY Zenon DEF Lost, Executing
<1>2. Debt(s)' = Debt(s) /\ Debt(s) \in {0, 1}
  BY <1>1, DebtFacts, Zenon
<1>3. ops'[s].retries + Debt(s)' <= faults'
  BY <1>2, SMT, SMTT(30) DEF Behind, FaultsGrow
<1> QED
  BY <1>3, Zenon DEF Behind, Open, Executing

(* A worker that has written to the row, or executes nothing, touches no     *)
(* operation behind a key.                                                   *)
LEMMA WorkerCarries ==
  ASSUME OpsInv, FaultsGrow, NEW w \in Workers, Moves(w), job[w].pc # "set",
         \A t \in Slots : Open(t) /\ t # job[w].slot => ops'[t] = ops[t]
  PROVE  Carried
<1>1. SUFFICES ASSUME NEW d \in keys, NEW s \in Slots, Behind(d, s) PROVE Behind(d, s)'
  BY Zenon DEF Carried
<1>2. job[w].slot # s /\ Open(s)
  BY <1>1, Zenon DEF Behind, Executing
<1>3. ops'[s] = ops[s] /\ ops[s].retries \in Nat
  BY <1>2, OpFields, Zenon
<1>4. job'[w].slot # s
  BY <1>2, ActionAssumption, Zenon DEF Moves
<1>5. /\ \A v \in Workers : job'[v].slot = s <=> job[v].slot = s
      /\ \A v \in Workers : job[v].slot = s => job'[v].pc = job[v].pc
  BY <1>2, <1>4, Zenon DEF Moves, Others
<1> QED
  BY <1>1, <1>3, <1>5, BehindKept, Zenon

(* So does a step in which no worker moves. *)
LEMMA StillCarries ==
  ASSUME OpsInv, FaultsGrow, job' = job, \A t \in Slots : Open(t) => ops'[t] = ops[t]
  PROVE  Carried
<1>1. SUFFICES ASSUME NEW d \in keys, NEW s \in Slots, Behind(d, s) PROVE Behind(d, s)'
  BY Zenon DEF Carried
<1>2. ops'[s] = ops[s] /\ ops[s].retries \in Nat
  BY <1>1, OpFields, Zenon DEF Behind
<1> QED
  BY <1>1, <1>2, BehindKept, Zenon

(* A claim: the worker has not written to the row yet. *)
LEMMA ClaimCarries ==
  ASSUME OpsInv, FaultsGrow, NEW w \in Workers, NEW u \in Slots, job[w].slot = None, Others(w),
         job'[w].slot = u, job'[w].pc = "set",
         IsWritten(ops'[u], ops[u], "running", ops[u].retries),
         \A t \in Slots : t # u => ops'[t] = ops[t]
  PROVE  Carried
<1>1. SUFFICES ASSUME NEW d \in keys, NEW s \in Slots, Behind(d, s) PROVE Behind(d, s)'
  BY Zenon DEF Carried
<1>2. job[w].slot # s /\ ops[s].retries \in Nat
  BY OpFields, ActionAssumption, Zenon
<1>3. CASE s # u
  <2>1. ops'[s] = ops[s]
    BY <1>3, Zenon
  <2>2. /\ \A v \in Workers : job'[v].slot = s <=> job[v].slot = s
        /\ \A v \in Workers : job[v].slot = s => job'[v].pc = job[v].pc
    BY <1>2, <1>3, Zenon DEF Others
  <2> QED
    BY <1>1, <1>2, <2>1, <2>2, BehindKept, Zenon
<1>4. CASE s = u
  <2>1. /\ ops'[s].type = ops[s].type /\ ops'[s].status = "running"
        /\ ops'[s].retries = ops[s].retries /\ ~ops'[s].stale
    BY <1>4, Zenon DEF IsWritten
  <2>2. ~Lost(s)'
    BY <1>4, <2>1, Zenon DEF Lost, Executing
  <2>3. Debt(s)' = 0 /\ Debt(s) \in {0, 1}
    BY <2>2, DebtFacts, Zenon
  <2>4. ops'[s].retries + Debt(s)' <= faults'
    BY <1>1, <1>2, <2>1, <2>3, SMT, SMTT(30) DEF Behind, FaultsGrow
  <2>5. \A v \in Workers : job'[v].slot = s => job'[v].pc = "set"
    BY <1>1, Zenon DEF Behind, Executing, Others
  <2>6. Open(s)' /\ Desired(ops'[s].type) = d
    BY <1>1, <2>1, Zenon DEF Open, Behind
  <2> QED
    BY <2>4, <2>5, <2>6, Zenon DEF Behind, Executing
<1> QED
  BY <1>3, <1>4, Zenon

(* RecoverStuck takes a retry for which there was a fault, and ends no       *)
(* operation behind a key as long as there were not more faults than retries. *)
LEMMA RecoverCarries ==
  ASSUME OpsInv, FaultsGrow, NEW w \in Workers, Moves(w), job[w].slot = None,
         ops' = [s \in Slots |-> Recovered(ops[s])]
  PROVE  Carried
<1>1. SUFFICES ASSUME ~aborted', faults' <= MaxRetries, NEW d \in keys, NEW s \in Slots, Behind(d, s)
               PROVE  Behind(d, s)'
  BY Zenon DEF Carried
<1>2. ops[s] \in OpNats /\ ops[s].retries \in Nat /\ job[w].slot # s /\ job'[w].slot # s
  BY OpFields, ActionAssumption, Zenon DEF Moves
<1>3. ops'[s] = Recovered(ops[s])
  BY Zenon
<1>4. /\ \A v \in Workers : job'[v].slot = s <=> job[v].slot = s
      /\ \A v \in Workers : job[v].slot = s => job'[v].pc = job[v].pc
  BY <1>2, Zenon DEF Moves, Others
<1>5. CASE ops'[s] = ops[s]
  BY <1>1, <1>2, <1>4, <1>5, BehindKept, Zenon
<1>6. ASSUME ops[s].status = "running", ops[s].stale
      PROVE  ops[s].retries + 1 <= faults
  <2>1. Debt(s) = 1
    BY <1>6, DebtFacts, Zenon DEF Lost
  <2> QED
    BY <1>1, <1>2, <2>1, Zenon DEF Behind
<1>7. CASE /\ ops[s].status = "running" /\ ops[s].stale
           /\ IsWritten(ops'[s], ops[s], "queued", ops[s].retries + 1)
  <2>1. /\ ops'[s].type = ops[s].type /\ ops'[s].status = "queued"
        /\ ops'[s].retries = ops[s].retries + 1
    BY <1>7, Zenon DEF IsWritten
  <2>2. Debt(s)' = 0
    <3>1. ~Lost(s)'
      BY <2>1, Zenon DEF Lost
    <3> QED
      BY <3>1, DebtFacts, Zenon
  <2>3. ops'[s].retries + Debt(s)' <= faults'
    BY <1>2, <1>6, <1>7, <2>1, <2>2, SMT, SMTT(30) DEF FaultsGrow
  <2>4. \A v \in Workers : job'[v].slot = s => job'[v].pc = "set"
    BY <1>1, <1>4, Zenon DEF Behind, Executing
  <2>5. Open(s)' /\ Desired(ops'[s].type) = d
    BY <1>1, <2>1, Zenon DEF Open, Behind
  <2> QED
    BY <2>3, <2>4, <2>5, Zenon DEF Behind, Executing
<1>8. CASE ops[s].status = "running" /\ ops[s].stale /\ ~(ops[s].retries < MaxRetries)
  BY <1>1, <1>2, <1>6, <1>8, CountFacts, SMT, SMTT(30) DEF FaultsGrow
<1> QED
  BY <1>2, <1>3, <1>5, <1>7, <1>8, RecoveredRow, Zenon

(* The retry that is lost with an old heartbeat is one that nobody executed, *)
(* or there was a fault.                                                     *)
LEMMA StaleCarries ==
  ASSUME OpsInv, FaultsGrow, job' = job, NEW u \in Slots, ops[u].status = "running",
         \A t \in Slots : t # u => ops'[t] = ops[t],
         ops'[u].type = ops[u].type, ops'[u].status = ops[u].status,
         ops'[u].retries = ops[u].retries,
         (\E w \in Workers : Executing(w, u)) => faults' = faults + 1
  PROVE  Carried
<1>1. SUFFICES ASSUME NEW d \in keys, NEW s \in Slots, Behind(d, s) PROVE Behind(d, s)'
  BY Zenon DEF Carried
<1>2. ops[s].retries \in Nat /\ Debt(s) \in {0, 1} /\ Debt(s)' \in {0, 1}
  BY OpFields, DebtFacts, Zenon
<1>3. CASE s # u
  <2>1. ops'[s] = ops[s]
    BY <1>3, Zenon
  <2> QED
    BY <1>1, <1>2, <2>1, BehindKept, Zenon
<1>4. CASE s = u
  <2>1. ops'[s].retries + Debt(s)' <= faults'
    <3>1. CASE \E w \in Workers : Executing(w, u)
      BY <1>1, <1>2, <1>4, <3>1, SMT, SMTT(30) DEF Behind, FaultsGrow
    <3>2. CASE ~\E w \in Workers : Executing(w, u)
      <4>1. Debt(s) = 1
        BY <1>4, <3>2, DebtFacts, Zenon DEF Lost
      <4> QED
        BY <1>1, <1>2, <1>4, <4>1, SMT, SMTT(30) DEF Behind, FaultsGrow
    <3> QED
      BY <3>1, <3>2, Zenon
  <2> QED
    BY <1>1, <1>4, <2>1, Zenon DEF Behind, Open, Executing
<1> QED
  BY <1>3, <1>4, Zenon

(* A crash: there was a fault for the retry that is lost. *)
LEMMA CrashCarries ==
  ASSUME OpsInv, faults \in Nat, faults' = faults + 1, ops' = ops, NEW w \in Workers, Others(w),
         job'[w].slot = None
  PROVE  Carried
<1>1. SUFFICES ASSUME NEW d \in keys, NEW s \in Slots, Behind(d, s) PROVE Behind(d, s)'
  BY Zenon DEF Carried
<1>2. ops[s].retries \in Nat /\ Debt(s) \in {0, 1} /\ Debt(s)' \in {0, 1} /\ job'[w].slot # s
  BY OpFields, DebtFacts, ActionAssumption, Zenon
<1>3. ops'[s].retries + Debt(s)' <= faults'
  BY <1>1, <1>2, SMT, SMTT(30) DEF Behind
<1>4. \A v \in Workers : job'[v].slot = s => job'[v].pc = "set"
  BY <1>1, <1>2, Zenon DEF Behind, Executing, Others
<1> QED
  BY <1>1, <1>3, <1>4, Zenon DEF Behind, Open, Executing

(* What an error makes of the operation of w. *)
Failed(w) ==
  /\ Elsewhere(w)
  /\ \/ ops' = ops
     \/ Open(job[w].slot) /\ ops'[job[w].slot].status = "ended"
     \/ IsWritten(ops'[job[w].slot], ops[job[w].slot], "queued", ops[job[w].slot].retries + 1)

(* An error leaves the operation as it is, ends it, or counts a retry. *)
LEMMA ErrorRows ==
  ASSUME OpsInv, JobTypes, NEW w \in Workers, job[w].slot \in Slots,
         NEW retryable \in BOOLEAN, FailWith(w, retryable)
  PROVE  OpsInv' /\ Failed(w) /\ Moves(w) /\ job'[w].slot = None
<1>0. PICK s \in Slots : s = job[w].slot
  BY Zenon
<1>1. CASE job' = [job EXCEPT ![w] = Loop] /\ ops' = ops
  <2>1. Moves(w) /\ job'[w].slot = None
    BY <1>1, JobLeft, Zenon
  <2>2. OpsInv'
    BY <1>1, <2>1, MovesQuietly, OpsSame, Zenon
  <2> QED
    BY <1>1, <2>1, <2>2, Zenon DEF Failed, Elsewhere
<1>2. CASE EndWithError(w, retryable)
  <2>1. OpsInv' /\ Elsewhere(w) /\ Moves(w) /\ job'[w].slot = None
    BY <1>2, OpsError, Zenon
  <2>2. ops[s] \in OpNats /\ ops \in [Slots -> OpNats]
    BY OpFields, Zenon DEF OpsInv
  <2>3. CASE ops' = ops
    BY <2>1, <2>3, Zenon DEF Failed
  <2>4. CASE Open(s) /\ ops' = [ops EXCEPT ![s] = Ended]
    <3>1. ops'[s] = Ended
      BY <2>2, <2>4, Zenon
    <3> QED
      BY <1>0, <2>1, <2>4, <3>1, EndedRow, Zenon DEF Failed
  <2>5. CASE ops' = [ops EXCEPT ![s].status = "queued", ![s].retries = @ + 1, ![s].stale = FALSE]
    <3>1. PICK row : IsWritten(row, ops[s], "queued", ops[s].retries + 1)
      <4>1. ops[s].retries + 1 \in Nat
        BY OpFields, SMT, SMTT(30)
      <4> QED
        BY <2>2, <4>1, WrittenRow, Zenon
    <3>2. ops' = [ops EXCEPT ![s] = row]
      BY <2>2, <2>5, <3>1, Zenon DEF OpNats, Written, IsWritten
    <3>3. ops'[s] = row
      BY <2>2, <3>2, Zenon
    <3> QED
      BY <1>0, <2>1, <3>1, <3>3, Zenon DEF Failed
  <2> QED
    BY <1>0, <1>2, <2>3, <2>4, <2>5, Zenon DEF EndWithError
<1> QED
  BY <1>1, <1>2, Zenon DEF FailWith

(* An error before the write: there was a fault for the retry that is counted, *)
(* and an operation that ends is noted.                                        *)
LEMMA ErrorCarries ==
  ASSUME OpsInv, faults \in Nat, faults' = faults + 1, NEW w \in Workers, Others(w),
         job[w].slot \in Slots, job'[w].slot = None, Failed(w),
         Open(job[w].slot) /\ ops'[job[w].slot].status = "ended" => aborted'
  PROVE  Carried
<1>0. PICK u \in Slots : u = job[w].slot
  BY Zenon
<1>1. CASE ops' = ops
  BY <1>1, CrashCarries, Zenon
<1>2. CASE Open(u) /\ ops'[u].status = "ended"
  BY <1>0, <1>2, Zenon DEF Carried
<1>3. CASE IsWritten(ops'[u], ops[u], "queued", ops[u].retries + 1)
  <2>1. SUFFICES ASSUME NEW d \in keys, NEW s \in Slots, Behind(d, s) PROVE Behind(d, s)'
    BY Zenon DEF Carried
  <2>2. ops[s].retries \in Nat /\ Debt(s) \in {0, 1} /\ job'[w].slot # s
    BY OpFields, DebtFacts, ActionAssumption, Zenon
  <2>3. CASE s # u
    <3>1. ops'[s] = ops[s]
      BY <1>0, <2>3, Zenon DEF Failed, Elsewhere
    <3>2. /\ \A v \in Workers : job'[v].slot = s <=> job[v].slot = s
          /\ \A v \in Workers : job[v].slot = s => job'[v].pc = job[v].pc
      BY <1>0, <2>2, <2>3, Zenon DEF Others
    <3>3. Lost(s)' <=> Lost(s)
      BY <3>1, <3>2, Zenon DEF Lost, Executing
    <3>4. Debt(s)' = Debt(s)
      BY <3>3, DebtFacts, Zenon
    <3>5. ops'[s].retries + Debt(s)' <= faults'
      BY <2>1, <2>2, <3>1, <3>4, SMT, SMTT(30) DEF Behind
    <3> QED
      BY <2>1, <3>1, <3>2, <3>5, Zenon DEF Behind, Open, Executing
  <2>4. CASE s = u
    <3>1. /\ ops'[s].type = ops[s].type /\ ops'[s].status = "queued"
          /\ ops'[s].retries = ops[s].retries + 1
      BY <1>3, <2>4, Zenon DEF IsWritten
    <3>2. Debt(s)' = 0
      <4>1. ~Lost(s)'
        BY <3>1, Zenon DEF Lost
      <4> QED
        BY <4>1, DebtFacts, Zenon
    <3>3. ops'[s].retries + Debt(s)' <= faults'
      BY <2>1, <2>2, <3>1, <3>2, SMT, SMTT(30) DEF Behind
    <3>4. \A v \in Workers : job'[v].slot = s => job'[v].pc = "set"
      BY <2>1, <2>2, Zenon DEF Behind, Executing, Others
    <3>5. Open(s)' /\ Desired(ops'[s].type) = d
      BY <2>1, <3>1, Zenon DEF Open, Behind
    <3> QED
      BY <3>3, <3>4, <3>5, Zenon DEF Behind, Executing
  <2> QED
    BY <2>3, <2>4, Zenon
<1> QED
  BY <1>0, <1>1, <1>2, <1>3, Zenon DEF Failed

-----------------------------------------------------------------------------
(* The steps                                                                *)

InstRows == [desired : DesiredStates, observed : DesiredStates \cup Changing \cup {"unknown"}]

InstTypes ==
  /\ inst \in InstRows /\ keys \subseteq DesiredStates /\ fresh \subseteq Workers
  /\ sub \in SubscriptionStatuses

CoreInv == JobTypes /\ (\A w \in Workers : JobInv(w)) /\ OpsInv /\ KeyInv

(* The other workers rely on what they relied on before. *)
LEMMA JobsKept ==
  ASSUME \A v \in Workers : JobInv(v), NEW w \in Workers, Others(w), JobInv(w)'
  PROVE  \A v \in Workers : JobInv(v)'
<1>1. ASSUME NEW v \in Workers, v # w PROVE JobInv(v)'
  <2>1. job'[v] = job[v] /\ JobInv(v)
    BY <1>1, Zenon DEF Others
  <2> QED
    BY <2>1, Zenon DEF JobInv
<1> QED
  BY <1>1, Zenon

(* A step of a worker that has written to the row, or executes nothing. *)
LEMMA WorkerCore ==
  ASSUME CoreInv, FaultsGrow, NEW w \in Workers, Moves(w), job[w].pc # "set", OpsInv',
         \A t \in Slots : Open(t) /\ t # job[w].slot => ops'[t] = ops[t],
         keys' \subseteq keys
  PROVE  CoreInv'
<1>1. JobTypes' /\ \A v \in Workers : JobInv(v)'
  BY JobsKept, Zenon DEF CoreInv, Moves
<1>2. KeyInv'
  BY WorkerCarries, KeysCarried, Zenon DEF CoreInv
<1> QED
  BY <1>1, <1>2, Zenon DEF CoreInv

(* A step in which no worker moves. *)
LEMMA StillCore ==
  ASSUME CoreInv, FaultsGrow, job' = job, keys' = keys, OpsInv',
         \A t \in Slots : Open(t) => ops'[t] = ops[t]
  PROVE  CoreInv'
<1>1. JobTypes' /\ \A v \in Workers : JobInv(v)'
  BY Zenon DEF CoreInv, JobTypes, JobInv
<1>2. KeyInv'
  BY StillCarries, KeysCarried, Zenon DEF CoreInv
<1> QED
  BY <1>1, <1>2, Zenon DEF CoreInv

(* No worker comes to an operation when no worker moves. *)
LEMMA StillQuiet ==
  ASSUME job' = job
  PROVE  Quiet
  BY Zenon DEF Quiet, Incrementers, Executing

(* The action for a difference leads to the desired state. *)
LEMMA DriftFacts ==
  ASSUME NEW d, NEW state, Drift(d, state) # None
  PROVE  Drift(d, state) \in Types /\ Desired(Drift(d, state)) = d
<1>1. CASE d = "running" /\ state \in {"stopped", "suspended"}
  <2>1. Drift(d, state) = "start"
    BY <1>1, Zenon DEF Drift
  <2> QED
    BY <1>1, <2>1, Zenon DEF Desired, Types, UserActions
<1>2. CASE d = "stopped" /\ state = "running"
  <2>1. Drift(d, state) = "stop"
    BY <1>2, Zenon DEF Drift
  <2> QED
    BY <1>2, <2>1, Zenon DEF Desired, Types, UserActions
<1>3. CASE d = "suspended" /\ state \in {"running", "stopped"}
  <2>1. Drift(d, state) = "suspend"
    BY <1>3, Zenon DEF Drift
  <2> QED
    BY <1>3, <2>1, Zenon DEF Desired, Types
<1> QED
  BY <1>1, <1>2, <1>3, Zenon DEF Drift

(* The part of a round that creates nothing. *)
RoundOf(w) ==
  \/ StartRound(w) \/ SelectCandidate(w) \/ GetInstance(w) \/ StoreObserved(w)
  \/ GetFails(w) \/ RoundFails(w)

(* A round of the reconciler, up to the creation of an operation. *)
LEMMA RoundCore ==
  ASSUME CoreInv, FaultsGrow, LxdTypeOK, InstTypes, NEW w \in Workers, RoundOf(w)
  PROVE  CoreInv'
<1>0. /\ JobTypes /\ JobInv(w) /\ OpsInv /\ KeyInv /\ inst.desired \in DesiredStates
      /\ \A v \in Workers : JobInv(v)
  BY Zenon DEF CoreInv, InstTypes, InstRows
<1>1. CASE StartRound(w)
  <2>1. /\ job[w].pc = "loop" /\ job' = [job EXCEPT ![w].pc = "select"]
        /\ ops' = [s \in Slots |-> Recovered(ops[s])] /\ keys' \subseteq keys
    BY <1>1, Zenon DEF StartRound, FollowSubscription, SetInstance, instRow
  <2>2. Moves(w) /\ job[w].slot = None
    BY <1>0, <2>1, RoundJob, Zenon
  <2>3. OpsInv'
    BY <1>0, <2>1, <2>2, OpsRecovered, Zenon
  <2>4. Carried
    BY <1>0, <2>1, <2>2, RecoverCarries, Zenon
  <2>5. KeyInv'
    BY <1>0, <2>1, <2>4, KeysCarried, Zenon
  <2>6. JobTypes' /\ \A v \in Workers : JobInv(v)'
    BY <1>0, <2>2, JobsKept, Zenon DEF Moves
  <2> QED
    BY <2>3, <2>5, <2>6, Zenon DEF CoreInv
<1>2. CASE SelectCandidate(w) \/ GetInstance(w)
  <2>1. Moves(w)
    BY <1>0, <1>2, RoundJob, Zenon
  <2>2. ops' = ops /\ keys' = keys /\ job[w].pc # "set"
    BY <1>2, Zenon DEF SelectCandidate, GetInstance, tables, instRow
  <2>3. OpsInv'
    BY <1>0, <2>1, <2>2, MovesQuietly, OpsSame, Zenon
  <2> QED
    BY <2>1, <2>2, <2>3, WorkerCore, Zenon
<1>3. CASE GetFails(w) \/ RoundFails(w) \/ StoreObserved(w)
  <2>1. ops' = ops /\ keys' \subseteq keys /\ job[w].pc # "set"
    BY <1>3, Zenon
    DEF GetFails, RoundFails, StoreObserved, SetInstanceObservedState, SetInstance, instRow
  <2>2. Moves(w)
    <3>1. CASE job' = [job EXCEPT ![w] = Consume]
      BY <1>0, <3>1, JobLeft, Zenon
    <3>2. CASE StoreObserved(w)
      <4>1. PICK type : type = Drift(job[w].desired, job[w].state)
        OBVIOUS
      <4>2. CASE type = None
        <5>1. job' = [job EXCEPT ![w] = Consume]
          BY <3>2, <4>1, <4>2, Zenon DEF StoreObserved
        <5> QED
          BY <3>1, <5>1, Zenon
      <4>3. CASE type # None
        <5>1. type \in Types
          BY <4>1, <4>3, DriftFacts, Zenon
        <5>2. job' = [job EXCEPT ![w] = [Loop EXCEPT !.pc = "create", !.type = type]]
          BY <3>2, <4>1, <4>3, Zenon DEF StoreObserved
        <5> QED
          BY <1>0, <5>1, <5>2, CreateJob, Zenon
      <4> QED
        BY <4>2, <4>3, Zenon
    <3> QED
      BY <1>3, <3>1, <3>2, Zenon DEF GetFails, RoundFails
  <2>3. OpsInv'
    BY <1>0, <2>1, <2>2, MovesQuietly, OpsSame, Zenon
  <2> QED
    BY <2>1, <2>2, <2>3, WorkerCore, Zenon
<1> QED
  BY <1>1, <1>2, <1>3, Zenon DEF RoundOf

(* The creation: a new key with the current version has a new operation behind it. *)
LEMMA DriftCore ==
  ASSUME CoreInv, FaultsGrow, NEW w \in Workers, CreateDrift(w)
  PROVE  CoreInv'
<1>0. /\ JobTypes /\ JobInv(w) /\ OpsInv /\ KeyInv /\ job[w].pc = "create"
      /\ \A v \in Workers : JobInv(v)
  BY Zenon DEF CoreInv, CreateDrift
<1>1. Moves(w) /\ job'[w].slot = None /\ job[w].pc # "set" /\ Quiet
  <2>1. job' = [job EXCEPT ![w] = Consume]
    BY Zenon DEF CreateDrift
  <2>2. Moves(w) /\ job'[w].slot = None
    BY <1>0, <2>1, JobLeft, Zenon
  <2> QED
    BY <1>0, <2>2, MovesQuietly, Zenon
<1>2. PICK type \in Types : type = job[w].type
  BY <1>0, Zenon DEF JobInv
<1>3. PICK d : d = Desired(type)
  OBVIOUS
<1>5. CASE ops' = ops /\ keys' = keys
  <2>1. OpsInv'
    BY <1>0, <1>1, <1>5, OpsSame, Zenon
  <2>2. keys' \subseteq keys /\ \A t \in Slots : ops'[t] = ops[t]
    BY <1>5, Zenon
  <2> QED
    BY <1>1, <2>1, <2>2, WorkerCore, Zenon
<1>6. CASE FreeSlots # {} /\ CreateOperation(type) /\ keys' \subseteq keys \cup {d}
  <2>1. type \in Types /\ Desired(type) = d
    BY <1>3, Zenon
  <2>2. PICK u \in FreeSlots :
          /\ ops'[u] = [type |-> type, status |-> "queued", retries |-> 0, stale |-> FALSE]
          /\ \A t \in Slots : t # u => ops'[t] = ops[t]
    BY <1>0, <1>1, <1>6, <2>1, OpsCreated, Zenon
  <2>3. OpsInv'
    BY <1>0, <1>1, <1>6, <2>1, OpsCreated, Zenon
  <2>4. u \in Slots /\ ~Open(u) /\ \A v \in Workers : job[v].slot # u
    BY <2>2, Zenon DEF FreeSlots, Executing
  <2>5. \A t \in Slots : Open(t) => ops'[t] = ops[t]
    BY <2>2, <2>4, Zenon
  <2>6. Carried
    BY <1>0, <1>1, <2>5, WorkerCarries, Zenon
  <2>7. Behind(d, u)'
    <3>1. /\ ops'[u].type = type /\ ops'[u].status = "queued" /\ ops'[u].retries = 0
      BY <2>2, SMT, SMTT(30)
    <3>2. \A v \in Workers : job'[v].slot # u
      BY <1>1, <2>4, ActionAssumption, Zenon DEF Moves, Others
    <3>3. Debt(u)' = 0
      <4>1. ~Lost(u)'
        BY <3>1, Zenon DEF Lost
      <4> QED
        BY <2>4, <4>1, DebtFacts, Zenon
    <3>4. ops'[u].retries + Debt(u)' <= faults'
      BY <3>1, <3>3, SMT, SMTT(30) DEF FaultsGrow
    <3>5. Open(u)'
      BY <3>1, Zenon DEF Open
    <3> QED
      BY <2>1, <3>1, <3>2, <3>4, <3>5, Zenon DEF Behind, Executing
  <2>8. KeyInv'
    <3>1. SUFFICES ASSUME ~aborted', faults' <= MaxRetries, NEW e \in keys'
                   PROVE  \E s \in Slots : Behind(e, s)'
      BY Zenon DEF KeyInv
    <3>2. CASE e = d
      BY <2>4, <2>7, <3>2, Zenon
    <3>3. CASE e # d
      <4>1. e \in keys
        BY <1>6, <3>1, <3>3, Zenon
      <4>2. faults <= MaxRetries
        BY <3>1, CountFacts, SMT, SMTT(30) DEF FaultsGrow
      <4>3. ~aborted
        BY <3>1, Zenon DEF FaultsGrow
      <4>4. PICK s \in Slots : Behind(e, s)
        BY <1>0, <4>1, <4>2, <4>3, Zenon DEF KeyInv
      <4> QED
        BY <2>6, <3>1, <4>1, <4>4, Zenon DEF Carried
    <3> QED
      BY <3>2, <3>3, Zenon
  <2>9. JobTypes' /\ \A v \in Workers : JobInv(v)'
    BY <1>0, <1>1, JobsKept, Zenon DEF Moves
  <2> QED
    BY <2>3, <2>8, <2>9, Zenon DEF CoreInv
<1>7. keys \cup (IF w \in fresh THEN {d} ELSE {}) \subseteq keys \cup {d}
  BY Zenon
<1> QED
  BY <1>2, <1>3, <1>5, <1>6, <1>7, Zenon DEF CreateDrift

(* A claim, or an empty queue. *)
LEMMA ClaimCore ==
  ASSUME CoreInv, FaultsGrow, ops \in [Slots -> OpRows], NEW w \in Workers, Claim(w)
  PROVE  CoreInv'
<1>0. /\ JobTypes /\ JobInv(w) /\ OpsInv /\ KeyInv /\ job[w].pc = "consume" /\ keys' = keys
      /\ \A v \in Workers : JobInv(v)
  BY Zenon DEF CoreInv, Claim, instRow
<1>1. job[w].slot = None /\ job[w].pc # "set"
  BY <1>0, Zenon DEF JobInv
<1>2. CASE job' = [job EXCEPT ![w] = Loop] /\ ops' = ops
  <2>1. Moves(w)
    BY <1>0, <1>2, JobLeft, Zenon
  <2>2. OpsInv'
    BY <1>0, <1>2, <2>1, MovesQuietly, OpsSame, Zenon
  <2> QED
    BY <1>0, <1>1, <1>2, <2>1, <2>2, WorkerCore, Zenon
<1>3. ASSUME NEW s \in Slots, ops[s].status = "queued",
             ops' = [ops EXCEPT ![s].status = "running", ![s].stale = FALSE],
             job' = [job EXCEPT ![w] = [Loop EXCEPT !.pc = "set", !.slot = s, !.type = ops[s].type,
                                                    !.attempt = ops[s].retries]]
      PROVE  CoreInv'
  <2>1. ops[s] \in OpRows /\ ops[s].type \in Types
    BY <1>0, <1>3, OpFields, Zenon DEF Open
  <2>2. /\ JobTypes' /\ Others(w) /\ JobInv(w)'
        /\ job'[w].slot = s /\ job'[w].attempt = ops[s].retries /\ job'[w].pc = "set"
    BY <1>0, <1>3, <2>1, ClaimJob, Zenon
  <2>3. /\ OpsInv' /\ IsWritten(ops'[s], ops[s], "running", ops[s].retries)
        /\ \A t \in Slots : t # s => ops'[t] = ops[t]
    BY <1>0, <1>3, <2>2, OpsClaimed, Zenon
  <2>4. Carried
    BY <1>0, <1>1, <2>2, <2>3, ClaimCarries, Zenon
  <2>5. KeyInv'
    BY <1>0, <2>4, KeysCarried, Zenon
  <2>6. \A v \in Workers : JobInv(v)'
    BY <1>0, <2>2, JobsKept, Zenon
  <2> QED
    BY <2>2, <2>3, <2>5, <2>6, Zenon DEF CoreInv
<1> QED
  BY <1>2, <1>3, Zenon DEF Claim

(* setActionState: the version changes before anything can end. *)
LEMMA SetCore ==
  ASSUME CoreInv, LxdTypeOK, NEW w \in Workers, SetActionState(w)
  PROVE  CoreInv'
<1>0. /\ JobTypes /\ JobInv(w) /\ OpsInv /\ job[w].pc = "set" /\ keys' = {}
      /\ \A v \in Workers : JobInv(v)
  BY Zenon DEF CoreInv, SetActionState, SetInstance
<1>1. job[w].slot \in Slots /\ job[w].type \in Types
  BY <1>0, Zenon DEF JobInv
<1>2. OpsInv' /\ Moves(w)
  <2>1. CASE ops' = ops /\ job' = [job EXCEPT ![w] = Loop]
    BY <1>0, <2>1, JobLeft, MovesQuietly, OpsSame, Zenon
  <2>2. CASE /\ Open(job[w].slot) /\ ops' = Beat(job[w].slot)
             /\ \E plan \in Seq(Requests) : job' = [job EXCEPT ![w].pc = "call", ![w].plan = plan]
    <3>1. Moves(w)
      BY <1>0, <2>2, WorkJob, Zenon DEF Works
    <3> QED
      BY <1>0, <1>1, <2>2, <3>1, MovesQuietly, OpsBeat, Zenon
  <2>3. ASSUME NEW known
        PROVE  (IF known THEN <<>> ELSE Plan(job[w].type)) \in Seq(Requests)
    <3>1. <<>> \in Seq(Requests) /\ Plan(job[w].type) \in Seq(Requests)
      BY <1>1, PlanTypes, SMT, SMTT(30)
    <3> QED
      BY <3>1, Zenon
  <2> QED
    BY <2>1, <2>2, <2>3, Zenon DEF SetActionState
<1>3. JobTypes' /\ \A v \in Workers : JobInv(v)'
  BY <1>0, <1>2, JobsKept, Zenon DEF Moves
<1>4. KeyInv'
  BY <1>0, KeysForgotten, Zenon
<1> QED
  BY <1>2, <1>3, <1>4, Zenon DEF CoreInv

(* An error before the write to the row, or after it. *)
LEMMA SetFailsCore ==
  ASSUME CoreInv, FaultsGrow, NEW w \in Workers, ContextFails(w) \/ SetActionFails(w)
  PROVE  CoreInv'
<1>0. /\ JobTypes /\ JobInv(w) /\ OpsInv /\ KeyInv /\ job[w].pc = "set"
      /\ \A v \in Workers : JobInv(v)
  BY Zenon DEF CoreInv, ContextFails, SetActionFails
<1>1. job[w].slot \in Slots
  BY <1>0, Zenon DEF JobInv
<1>2. OpsInv' /\ Failed(w) /\ Moves(w) /\ job'[w].slot = None
  <2>1. PICK retryable \in BOOLEAN : FailWith(w, retryable)
    BY Zenon DEF ContextFails, SetActionFails
  <2> QED
    BY <1>0, <1>1, <2>1, ErrorRows, Zenon
<1>3. JobTypes' /\ \A v \in Workers : JobInv(v)'
  BY <1>0, <1>2, JobsKept, Zenon DEF Moves
<1>4. CASE ContextFails(w)
  <2>1. /\ keys' = keys /\ faults' = faults + 1 /\ faults \in Nat
        /\ Open(job[w].slot) /\ ops'[job[w].slot].status = "ended" => aborted'
    BY <1>4, Zenon DEF ContextFails, Fault, instRow, FaultsGrow
  <2>2. Others(w)
    BY <1>2, Zenon DEF Moves
  <2>3. Carried
    BY <1>0, <1>1, <1>2, <2>1, <2>2, ErrorCarries, Zenon
  <2>4. KeyInv'
    BY <1>0, <2>1, <2>3, KeysCarried, Zenon
  <2> QED
    BY <1>2, <1>3, <2>4, Zenon DEF CoreInv
<1>5. CASE SetActionFails(w)
  <2>1. keys' = {}
    BY <1>5, Zenon DEF SetActionFails, SetInstance
  <2> QED
    BY <1>2, <1>3, <2>1, KeysForgotten, Zenon DEF CoreInv
<1> QED
  BY <1>4, <1>5, Zenon

(* The steps of a worker between its two writes to the row. *)
CallOf(w) ==
  \/ Request(w) \/ RequestFails(w) \/ Wait(w) \/ WaitFails(w) \/ Verify(w) \/ VerifyFails(w)

(* A worker goes on with its operation, or meets an error. *)
LEMMA CallCore ==
  ASSUME CoreInv, FaultsGrow, LxdTypeOK, NEW w \in Workers, CallOf(w)
  PROVE  CoreInv'
<1>0. /\ JobTypes /\ JobInv(w) /\ OpsInv /\ job[w].pc \in {"call", "wait"} /\ keys' = keys
  BY Zenon
  DEF CoreInv, CallOf, Request, RequestFails, Wait, WaitFails, Verify, VerifyFails, tables, instRow
<1>1. /\ job[w].slot \in Slots /\ job[w].pc # "set" /\ job[w].plan \in Seq(Requests)
      /\ job[w].pc \in {"set", "call", "wait"}
  BY <1>0, JobFields, Zenon DEF JobInv
<1>2. ASSUME NEW retryable \in BOOLEAN, FailWith(w, retryable) PROVE CoreInv'
  <2>1. OpsInv' /\ Elsewhere(w) /\ Moves(w)
    BY <1>0, <1>1, <1>2, ErrorRows, Zenon DEF Failed
  <2>2. keys' \subseteq keys /\ \A t \in Slots : Open(t) /\ t # job[w].slot => ops'[t] = ops[t]
    BY <1>0, <2>1, Zenon DEF Elsewhere
  <2> QED
    BY <1>1, <2>1, <2>2, WorkerCore, Zenon
<1>3. CASE Works(w) /\ ops' = ops
  <2>1. Moves(w)
    BY <1>0, <1>1, <1>3, WorkJob, Zenon
  <2>2. OpsInv'
    BY <1>0, <1>3, <2>1, MovesQuietly, OpsSame, Zenon
  <2> QED
    BY <1>0, <1>1, <1>3, <2>1, <2>2, WorkerCore, Zenon
<1>4. CASE Request(w)
  <2>1. \/ Works(w) /\ ops' = ops
        \/ \E retryable \in BOOLEAN : FailWith(w, retryable)
    BY <1>4, Zenon DEF Request, Works, FailWith
  <2> QED
    BY <1>2, <1>3, <2>1, Zenon
<1>5. CASE RequestFails(w) \/ WaitFails(w) \/ VerifyFails(w)
  <2>1. TRUE \in BOOLEAN
    OBVIOUS
  <2>2. \E retryable \in BOOLEAN : FailWith(w, retryable)
    BY <1>5, <2>1, Zenon DEF RequestFails, WaitFails, VerifyFails
  <2> QED
    BY <1>2, <2>2, Zenon
<1>6. CASE Wait(w)
  <2>1. PICK plan \in Seq(Requests) : plan = Tail(job[w].plan)
    BY <1>0, <1>1, <1>6, PlanRest, Zenon DEF Wait, JobInv
  <2>2. job' = [job EXCEPT ![w].pc = "call", ![w].plan = plan] /\ ops' = ops
    BY <1>6, <2>1, Zenon DEF Wait, tables, instRow
  <2>3. Works(w)
    BY <2>2, Zenon DEF Works
  <2> QED
    BY <1>3, <2>2, <2>3, Zenon
<1>7. CASE Verify(w)
  <2>1. CASE ops' = ops /\ job' = [job EXCEPT ![w] = Loop]
    <3>1. Moves(w)
      BY <1>0, <2>1, JobLeft, Zenon
    <3>2. OpsInv'
      BY <1>0, <2>1, <3>1, MovesQuietly, OpsSame, Zenon
    <3> QED
      BY <1>0, <1>1, <2>1, <3>1, <3>2, WorkerCore, Zenon
  <2>2. CASE EndWithError(w, TRUE)
    BY <1>2, <2>2, Zenon DEF FailWith
  <2>3. CASE /\ Open(job[w].slot) /\ ops' = Beat(job[w].slot)
             /\ job' = [job EXCEPT ![w].pc = "finish", ![w].state = State]
    <3>1. Moves(w)
      BY <1>0, <1>1, <2>3, WorkJob, Zenon DEF Works
    <3>2. OpsInv' /\ Elsewhere(w)
      BY <1>0, <1>1, <2>3, <3>1, MovesQuietly, OpsBeat, Zenon
    <3>3. keys' \subseteq keys /\ \A t \in Slots : Open(t) /\ t # job[w].slot => ops'[t] = ops[t]
      BY <1>0, <3>2, Zenon DEF Elsewhere
    <3> QED
      BY <1>1, <3>1, <3>2, <3>3, WorkerCore, Zenon
  <2> QED
    BY <1>7, <2>1, <2>2, <2>3, Zenon DEF Verify
<1> QED
  BY <1>4, <1>5, <1>6, <1>7, Zenon DEF CallOf

(* The operation succeeds, or its worker dies. *)
LEMMA LeaveCore ==
  ASSUME CoreInv, FaultsGrow, NEW w \in Workers, Finish(w) \/ Crash(w)
  PROVE  CoreInv'
<1>0. /\ JobTypes /\ JobInv(w) /\ OpsInv /\ KeyInv /\ \A v \in Workers : JobInv(v)
  BY Zenon DEF CoreInv
<1>1. Moves(w) /\ job'[w].slot = None
  BY <1>0, JobLeft, Zenon DEF Finish, Crash
<1>2. JobTypes' /\ \A v \in Workers : JobInv(v)'
  BY <1>0, <1>1, JobsKept, Zenon DEF Moves
<1>3. Quiet
  BY <1>1, MovesQuietly, Zenon
<1>4. CASE Finish(w)
  <2>1. job[w].slot \in Slots
    BY <1>0, <1>4, Zenon DEF Finish, JobInv
  <2>2. ops' = [ops EXCEPT ![job[w].slot] = Ended] /\ keys' = {}
    BY <1>4, Zenon DEF Finish, SetObserved, SetInstanceObservedState, SetInstance
  <2>3. OpsInv'
    BY <1>0, <1>3, <2>1, <2>2, OpsEnded, Zenon
  <2> QED
    BY <1>2, <2>2, <2>3, KeysForgotten, Zenon DEF CoreInv
<1>5. CASE Crash(w)
  <2>1. ops' = ops /\ keys' = keys /\ faults' = faults + 1 /\ faults \in Nat
    BY <1>5, Zenon DEF Crash, Fault, FaultsGrow
  <2>2. OpsInv'
    BY <1>0, <1>3, <2>1, OpsSame, Zenon
  <2>3. Carried
    BY <1>0, <1>1, <2>1, CrashCarries, Zenon DEF Moves
  <2>4. KeyInv'
    BY <1>0, <2>1, <2>3, KeysCarried, Zenon
  <2> QED
    BY <1>2, <2>2, <2>4, Zenon DEF CoreInv
<1> QED
  BY <1>4, <1>5, Zenon

(* An error after the check of the machine. *)
LEMMA FinishFailsCore ==
  ASSUME CoreInv, FaultsGrow, NEW w \in Workers, FinishFails(w)
  PROVE  CoreInv'
<1>0. /\ JobTypes /\ JobInv(w) /\ OpsInv /\ job[w].pc = "finish"
  BY Zenon DEF CoreInv, FinishFails
<1>1. job[w].slot \in Slots /\ job[w].pc # "set" /\ TRUE \in BOOLEAN
  BY <1>0, Zenon DEF JobInv
<1>2. PICK retryable \in BOOLEAN : FailWith(w, retryable)
  BY <1>1, Zenon DEF FinishFails
<1>3. OpsInv' /\ Elsewhere(w) /\ Moves(w)
  BY <1>0, <1>1, <1>2, ErrorRows, Zenon DEF Failed
<1>4. keys' \subseteq keys
  BY Zenon DEF FinishFails, SetObserved, SetInstanceObservedState, SetInstance, instRow
<1>5. \A t \in Slots : Open(t) /\ t # job[w].slot => ops'[t] = ops[t]
  BY <1>3, Zenon DEF Elsewhere
<1> QED
  BY <1>1, <1>3, <1>4, <1>5, WorkerCore, Zenon

(* Requests of the owner, the subscription, old heartbeats and the machine. *)
Outside ==
  \/ \E type \in UserActions : InstanceAction(type)
  \/ LifecycleTransition \/ RenewSubscription \/ GuestStops \/ LxdStep
  \/ \E s \in Slots : HeartbeatExpires(s)

(* What happens outside the workers. *)
LEMMA OutsideCore ==
  ASSUME CoreInv, FaultsGrow, Outside
  PROVE  CoreInv'
<1>0. /\ JobTypes /\ OpsInv /\ KeyInv /\ job' = job /\ keys' = keys
      /\ \A v \in Workers : JobInv(v)
  BY Zenon
  DEF Outside, CoreInv, InstanceAction, LifecycleTransition, RenewSubscription, GuestStops, LxdStep,
      HeartbeatExpires, tables, instRow
<1>1. Quiet
  BY <1>0, StillQuiet, Zenon
<1>2. ASSUME NEW type \in UserActions, InstanceAction(type) PROVE CoreInv'
  <2>1. type \in Types /\ FreeSlots # {} /\ CreateOperation(type)
    BY <1>2, Zenon DEF InstanceAction, Types
  <2>2. PICK u \in FreeSlots : \A t \in Slots : t # u => ops'[t] = ops[t]
    BY <1>0, <1>1, <2>1, OpsCreated, Zenon
  <2>3. OpsInv'
    BY <1>0, <1>1, <2>1, OpsCreated, Zenon
  <2>4. \A t \in Slots : Open(t) => ops'[t] = ops[t]
    BY <2>2, Zenon DEF FreeSlots
  <2> QED
    BY <1>0, <2>3, <2>4, StillCore, Zenon
<1>3. CASE LifecycleTransition \/ RenewSubscription \/ GuestStops \/ LxdStep
  <2>1. ops' = ops
    BY <1>3, Zenon DEF LifecycleTransition, RenewSubscription, GuestStops, LxdStep, tables
  <2>2. OpsInv'
    BY <1>0, <1>1, <2>1, OpsSame, Zenon
  <2> QED
    BY <1>0, <2>1, <2>2, StillCore, Zenon
<1>4. ASSUME NEW s \in Slots, HeartbeatExpires(s) PROVE CoreInv'
  <2>1. /\ ops[s].status = "running" /\ ops' = [ops EXCEPT ![s].stale = TRUE]
        /\ (\E w \in Workers : Executing(w, s)) => faults' = faults + 1
    BY <1>4, Zenon DEF HeartbeatExpires, Fault
  <2>2. Open(s)
    BY <2>1, Zenon DEF Open
  <2>3. /\ OpsInv' /\ \A t \in Slots : t # s => ops'[t] = ops[t]
        /\ ops'[s].type = ops[s].type /\ ops'[s].status = ops[s].status
        /\ ops'[s].retries = ops[s].retries
    BY <1>0, <1>1, <2>1, <2>2, OpsStale, Zenon
  <2>4. Carried
    BY <1>0, <2>1, <2>3, StaleCarries, Zenon
  <2>5. KeyInv'
    BY <1>0, <2>4, KeysCarried, Zenon
  <2>6. JobTypes' /\ \A v \in Workers : JobInv(v)'
    BY <1>0, Zenon DEF JobTypes, JobInv
  <2> QED
    BY <2>3, <2>5, <2>6, Zenon DEF CoreInv
<1> QED
  BY <1>2, <1>3, <1>4, Zenon DEF Outside

-----------------------------------------------------------------------------
(* The machine, the row of the instance and the bounds                      *)

CountTypes == events \in 0 .. MaxEvents /\ faults \in 0 .. MaxFaults /\ aborted \in BOOLEAN

(* The step counts no event, an event, or a fault, and what was noted stays so. *)
Counted ==
  /\ UNCHANGED counters \/ (Event /\ faults' = faults) \/ Fault
  /\ aborted' = aborted \/ \E b : aborted' = (aborted \/ b)

(* What a step counts. *)
LEMMA NextCounts ==
  ASSUME Next
  PROVE  Counted
<1>1. ASSUME NEW type \in UserActions, InstanceAction(type) PROVE Counted
  BY <1>1, Zenon DEF InstanceAction, Counted
<1>2. CASE LifecycleTransition \/ RenewSubscription \/ GuestStops \/ LxdStep
  BY <1>2, Zenon DEF LifecycleTransition, RenewSubscription, GuestStops, LxdStep, Counted
<1>3. ASSUME NEW w \in Workers, RoundStep(w) PROVE Counted
  BY <1>3, Zenon
  DEF RoundStep, StartRound, SelectCandidate, GetInstance, StoreObserved, CreateDrift, Counted
<1>4. ASSUME NEW w \in Workers, WorkflowStep(w) PROVE Counted
  BY <1>4, Zenon
  DEF WorkflowStep, Claim, SetActionState, Request, Wait, Verify, Finish, Counted
<1>5. ASSUME NEW w \in Workers, WorkerFault(w) PROVE Counted
  BY <1>5, Zenon
  DEF WorkerFault, GetFails, RoundFails, ContextFails, SetActionFails, RequestFails, WaitFails,
      VerifyFails, FinishFails, Crash, Counted
<1>6. ASSUME NEW s \in Slots, HeartbeatExpires(s) PROVE Counted
  BY <1>6, Zenon DEF HeartbeatExpires, Counted
<1> QED
  BY <1>1, <1>2, <1>3, <1>4, <1>5, <1>6, Zenon DEF Next

(* The bounds hold, and faults are never taken back. *)
LEMMA CountersKept ==
  ASSUME CountTypes, Counted
  PROVE  CountTypes' /\ FaultsGrow
<1>1. /\ events' \in 0 .. MaxEvents /\ faults' \in 0 .. MaxFaults
      /\ faults \in Nat /\ faults' \in Nat /\ faults <= faults'
  BY ActionAssumption, SMT, SMTT(30) DEF CountTypes, Counted, Event, Fault, counters
<1>2. aborted' \in BOOLEAN /\ (aborted => aborted')
  <2>1. CASE aborted' = aborted
    BY <2>1, Zenon DEF CountTypes
  <2>2. ASSUME NEW b, aborted' = (aborted \/ b) PROVE aborted' \in BOOLEAN /\ (aborted => aborted')
    <3>1. (aborted \/ b) \in BOOLEAN
      OBVIOUS
    <3>2. aborted' \in BOOLEAN
      BY <2>2, <3>1
    <3>3. aborted => aborted'
      BY <2>2
    <3> QED
      BY <3>2, <3>3
  <2> QED
    BY <2>1, <2>2, Zenon DEF Counted
<1> QED
  BY <1>1, <1>2, Zenon DEF CountTypes, FaultsGrow

(* The states that the workflow derives from an action. *)
LEMMA ActionStates ==
  ASSUME NEW type \in Types
  PROVE  Desired(type) \in DesiredStates /\ Transitional(type) \in Changing
<1>1. CASE type = "stop"
  BY <1>1, Zenon DEF Desired, Transitional, DesiredStates, Changing
<1>2. CASE type = "suspend"
  BY <1>2, Zenon DEF Desired, Transitional, DesiredStates, Changing
<1>3. CASE type = "reinstall"
  BY <1>3, Zenon DEF Desired, Transitional, DesiredStates, Changing
<1>4. CASE type # "stop" /\ type # "suspend" /\ type # "reinstall"
  BY <1>4, Zenon DEF Desired, Transitional, DesiredStates, Changing
<1> QED
  BY <1>1, <1>2, <1>3, <1>4, Zenon

Observable == DesiredStates \cup Changing \cup {"unknown"}

(* The fields of the row of the instance. *)
LEMMA InstFields ==
  ASSUME InstTypes
  PROVE  inst.desired \in DesiredStates /\ inst.observed \in Observable
  BY Zenon DEF InstTypes, InstRows, Observable

(* A write to the row. *)
LEMMA InstWritten ==
  ASSUME NEW desired \in DesiredStates, NEW observed \in Observable,
         SetInstance(desired, observed)
  PROVE  inst' \in InstRows /\ keys' \subseteq DesiredStates /\ fresh' \subseteq Workers
<1>1. inst' \in InstRows
  BY Zenon DEF SetInstance, InstRows, Observable
<1>2. keys' \subseteq DesiredStates /\ fresh' \subseteq Workers
  BY Zenon DEF SetInstance
<1> QED
  BY <1>1, <1>2, Zenon

(* The states that can be written. *)
LEMMA IsState ==
  /\ "running" \in DesiredStates /\ "suspended" \in DesiredStates
  /\ DesiredStates \subseteq Observable /\ Changing \subseteq Observable
  /\ "unknown" \in Observable
  /\ "running" \in Observable /\ "stopped" \in Observable /\ "suspended" \in Observable
  BY Zenon DEF DesiredStates, Observable

(* The row of the instance and the keys keep their types. *)
LEMMA InstKept ==
  ASSUME InstTypes, CoreInv, Next
  PROVE  InstTypes'
<1>0. /\ inst.desired \in DesiredStates /\ inst.observed \in Observable
      /\ inst \in InstRows /\ keys \subseteq DesiredStates /\ fresh \subseteq Workers
      /\ sub \in SubscriptionStatuses /\ \A w \in Workers : JobInv(w)
  BY InstFields, Zenon DEF InstTypes, CoreInv
<1>1. CASE UNCHANGED <<inst, keys, sub>> /\ fresh' \subseteq fresh
  BY <1>0, <1>1, Zenon DEF InstTypes
<1>2. ASSUME NEW desired \in DesiredStates, NEW observed \in Observable,
             SetInstance(desired, observed), sub' = sub
      PROVE  InstTypes'
  BY <1>0, <1>2, InstWritten, Zenon DEF InstTypes
<1>3. CASE LifecycleTransition \/ RenewSubscription
  <2>1. sub' \in SubscriptionStatuses /\ inst' = inst /\ keys' = keys /\ fresh' = fresh
    BY <1>3, Zenon DEF LifecycleTransition, RenewSubscription, SubscriptionStatuses, instRow
  <2> QED
    BY <2>1, Zenon DEF InstTypes
<1>4. ASSUME NEW w \in Workers, StartRound(w) PROVE InstTypes'
  <2>1. sub' = sub /\ FollowSubscription
    BY <1>4, Zenon DEF StartRound
  <2>2. \/ UNCHANGED <<inst, keys, fresh>>
        \/ SetInstance("suspended", inst.observed) \/ SetInstance("running", inst.observed)
    BY <2>1, Zenon DEF FollowSubscription, instRow
  <2> QED
    BY <1>0, <1>1, <1>2, <2>1, <2>2, IsState, Zenon
<1>5. ASSUME NEW w \in Workers, GetFails(w) PROVE InstTypes'
  <2>1. sub' = sub /\ (UNCHANGED <<inst, keys, fresh>> \/ SetInstance(inst.desired, "unknown"))
    BY <1>5, Zenon DEF GetFails, SetInstanceObservedState, instRow
  <2> QED
    BY <1>0, <1>1, <1>2, <2>1, IsState, Zenon
<1>a. ASSUME NEW w \in Workers, StoreObserved(w) PROVE InstTypes'
  <2>1. job[w].pc = "store" /\ JobInv(w) /\ sub' = sub
    BY <1>0, <1>a, Zenon DEF StoreObserved
  <2>2. PICK state \in {"running", "stopped"} : state = job[w].state
    BY <2>1, Zenon DEF JobInv
  <2>3. inst' = [inst EXCEPT !.observed = state]
    BY <1>a, <2>2, Zenon DEF StoreObserved
  <2>4. inst' \in InstRows
    BY <1>0, <2>3, Zenon DEF InstRows, DesiredStates
  <2>5. keys' \subseteq DesiredStates
    BY <1>0, <1>a, Zenon DEF StoreObserved
  <2>6. fresh' \subseteq Workers
    BY <1>0, <1>a, Zenon DEF StoreObserved
  <2> QED
    BY <1>0, <2>1, <2>4, <2>5, <2>6, Zenon DEF InstTypes
<1>6. ASSUME NEW w \in Workers, CreateDrift(w) PROVE InstTypes'
  <2>1. /\ job[w].pc = "create" /\ JobInv(w) /\ sub' = sub /\ inst' = inst
        /\ fresh' \subseteq fresh
    BY <1>0, <1>6, Zenon DEF CreateDrift
  <2>2. Desired(job[w].type) \in DesiredStates
    BY <2>1, ActionStates, Zenon DEF JobInv
  <2>3. keys' \subseteq DesiredStates
    BY <1>0, <1>6, <2>2, Zenon DEF CreateDrift
  <2> QED
    BY <1>0, <2>1, <2>3, Zenon DEF InstTypes
<1>7. ASSUME NEW w \in Workers, SetActionState(w) \/ SetActionFails(w) PROVE InstTypes'
  <2>1. /\ job[w].pc = "set" /\ JobInv(w) /\ sub' = sub
        /\ SetInstance(Desired(job[w].type), Transitional(job[w].type))
    BY <1>0, <1>7, Zenon DEF SetActionState, SetActionFails
  <2>2. job[w].type \in Types
    BY <2>1, Zenon DEF JobInv
  <2>3. /\ Desired(job[w].type) \in DesiredStates
        /\ Transitional(job[w].type) \in Observable
    BY <2>2, ActionStates, IsState, Zenon
  <2> QED
    BY <1>2, <2>1, <2>3, Zenon
<1>8. ASSUME NEW w \in Workers, Finish(w) \/ FinishFails(w) PROVE InstTypes'
  <2>1. job[w].pc = "finish" /\ JobInv(w) /\ sub' = sub
    BY <1>0, <1>8, Zenon DEF Finish, FinishFails
  <2>2. job[w].state \in Observable
    BY <2>1, IsState, Zenon DEF JobInv
  <2>3. PICK observed \in Observable :
          observed = IF job[w].type = "suspend" THEN "suspended" ELSE job[w].state
    BY <2>2, IsState, Zenon
  <2>4. UNCHANGED <<inst, keys, fresh>> \/ SetInstance(inst.desired, observed)
    BY <1>8, <2>3, Zenon
    DEF Finish, FinishFails, SetObserved, SetInstanceObservedState, instRow
  <2> QED
    BY <1>0, <1>1, <1>2, <2>1, <2>4, Zenon
<1>9. ASSUME NEW w \in Workers,
             \/ SelectCandidate(w) \/ GetInstance(w) \/ Claim(w) \/ Request(w) \/ Wait(w)
             \/ Verify(w) \/ RoundFails(w) \/ ContextFails(w) \/ RequestFails(w)
             \/ WaitFails(w) \/ VerifyFails(w) \/ Crash(w)
      PROVE  InstTypes'
  <2>1. UNCHANGED <<inst, keys, sub>> /\ fresh' \subseteq fresh
    BY <1>9, Zenon
    DEF SelectCandidate, GetInstance, Claim, Request, Wait, Verify, RoundFails, ContextFails,
        RequestFails, WaitFails, VerifyFails, Crash, tables, instRow
  <2> QED
    BY <1>1, <2>1, Zenon
<1>10. CASE \/ GuestStops \/ LxdStep \/ \E s \in Slots : HeartbeatExpires(s)
            \/ \E type \in UserActions : InstanceAction(type)
  <2>1. UNCHANGED <<inst, keys, sub>> /\ fresh' \subseteq fresh
    BY <1>10, Zenon DEF GuestStops, LxdStep, HeartbeatExpires, InstanceAction, tables, instRow
  <2> QED
    BY <1>1, <2>1, Zenon
<1> QED
  BY <1>3, <1>4, <1>5, <1>a, <1>6, <1>7, <1>8, <1>9, <1>10, Zenon
  DEF Next, RoundStep, WorkflowStep, WorkerFault

Machines == [status : {"Running", "Stopped"}, act : Requests \cup {None},
             owner : Workers \cup {None}]

(* The machine and the caches. *)
LEMMA LxdFacts ==
  /\ LxdTypeOK <=> lxd \in Machines /\ cache \in [Workers -> SUBSET CacheKeys]
  /\ LxdTypeOK' <=> lxd' \in Machines /\ cache' \in [Workers -> SUBSET CacheKeys]
  BY Zenon DEF LxdTypeOK, Machines

(* LXD accepts a request, forgets an operation, or completes one. *)
LEMMA MachineKept ==
  ASSUME lxd \in Machines,
         \/ lxd' = lxd
         \/ \E w \in Workers, a \in Requests : Begin(w, a)
         \/ lxd' = [lxd EXCEPT !.act = None, !.owner = None]
         \/ lxd' = [lxd EXCEPT !.status = "Stopped"]
         \/ LxdCompletes
  PROVE  lxd' \in Machines
<1>1. ASSUME NEW w \in Workers, NEW a \in Requests, Begin(w, a) PROVE lxd' \in Machines
  BY <1>1, Zenon DEF Begin, Machines
<1>2. CASE lxd' = [lxd EXCEPT !.act = None, !.owner = None]
  BY <1>2, Zenon DEF Machines
<1>3. CASE lxd' = [lxd EXCEPT !.status = "Stopped"]
  BY <1>3, Zenon DEF Machines
<1>4. CASE LxdCompletes
  <2>1. PICK status \in {"Running", "Stopped"} : status = After(lxd.act)
    BY Zenon DEF After
  <2>2. lxd' = [status |-> status, act |-> None, owner |-> None]
    BY <1>4, <2>1, Zenon DEF LxdCompletes
  <2> QED
    BY <2>2, Zenon DEF Machines
<1> QED
  BY <1>1, <1>2, <1>3, <1>4, Zenon

(* The adapter of a worker stores what it has seen succeed. *)
LEMMA CacheStored ==
  ASSUME cache \in [Workers -> SUBSET CacheKeys], NEW w \in Workers, NEW S \in SUBSET CacheKeys,
         StoreOperation(w, S)
  PROVE  cache' \in [Workers -> SUBSET CacheKeys]
<1>1. PICK T \in SUBSET CacheKeys : T = cache[w] \cup S
  BY Zenon
<1>2. cache' = [cache EXCEPT ![w] = T]
  BY <1>1, Zenon DEF StoreOperation
<1> QED
  BY <1>2, Zenon

(* What was cached of an operation that has ended is forgotten. *)
LEMMA CacheCleared ==
  ASSUME cache \in [Workers -> SUBSET CacheKeys], ForgetEnded
  PROVE  cache' \in [Workers -> SUBSET CacheKeys]
<1>1. \A w \in Workers : {c \in cache[w] : c[2] \notin FreeSlots} \in SUBSET CacheKeys
  BY Zenon
<1> QED
  BY <1>1, Zenon DEF ForgetEnded

(* The machine and the caches keep their types. *)
LEMMA LxdKept ==
  ASSUME LxdTypeOK, CoreInv, Next
  PROVE  LxdTypeOK'
<1>0. /\ lxd \in Machines /\ cache \in [Workers -> SUBSET CacheKeys]
      /\ JobTypes /\ \A w \in Workers : JobInv(w)
  BY LxdFacts, Zenon DEF CoreInv
<1>1. CASE UNCHANGED lxdVars
  <2>1. lxd' = lxd /\ cache' = cache
    BY <1>1, Zenon DEF lxdVars
  <2> QED
    BY <1>0, <2>1, LxdFacts, Zenon
<1>2. ASSUME ForgetEnded, lxd' = lxd PROVE LxdTypeOK'
  BY <1>0, <1>2, CacheCleared, LxdFacts, Zenon
<1>3. ASSUME NEW w \in Workers, CreateDrift(w) \/ StartRound(w) PROVE LxdTypeOK'
  <2>1. lxd' = lxd /\ (cache' = cache \/ ForgetEnded)
    BY <1>3, Zenon DEF CreateDrift, CreateOperation, StartRound
  <2> QED
    BY <1>0, <1>2, <2>1, LxdFacts, Zenon
<1>4. ASSUME NEW w \in Workers, Request(w) \/ RequestFails(w) PROVE LxdTypeOK'
  <2>1. job[w].plan # <<>> /\ cache' = cache
    BY <1>4, Zenon DEF Request, RequestFails
  <2>2. PICK a \in Requests : a = Head(job[w].plan)
    BY <1>0, <2>1, JobFields, PlanRest, Zenon
  <2>3. lxd' = lxd \/ Begin(w, a)
    BY <1>4, <2>2, Zenon DEF Request, RequestFails
  <2>4. lxd' \in Machines
    BY <1>0, <2>3, MachineKept, Zenon
  <2> QED
    BY <1>0, <2>1, <2>4, LxdFacts, Zenon
<1>5. ASSUME NEW w \in Workers, Wait(w) PROVE LxdTypeOK'
  <2>1. job[w].pc = "wait" /\ JobInv(w) /\ lxd' = lxd
    BY <1>0, <1>5, Zenon DEF Wait
  <2>2. job[w].plan # <<>> /\ job[w].slot \in Slots
    BY <2>1, Zenon DEF JobInv
  <2>3. PICK a \in Requests, s \in Slots : a = Head(job[w].plan) /\ s = job[w].slot
    BY <1>0, <2>2, JobFields, PlanRest, Zenon
  <2>4. {<<a, s>>} \ {<<"rebuild", s>>} \in SUBSET CacheKeys
    <3>1. CASE a = "rebuild"
      BY <3>1, Zenon
    <3>2. CASE a \in StateActions
      BY <3>2, SMT, SMTT(30) DEF CacheKeys
    <3> QED
      BY <3>1, <3>2, Zenon DEF Requests
  <2>5. StoreOperation(w, {<<a, s>>} \ {<<"rebuild", s>>})
    BY <1>5, <2>3, Zenon DEF Wait
  <2> QED
    BY <1>0, <2>1, <2>4, <2>5, CacheStored, LxdFacts, Zenon
<1>6. ASSUME NEW w \in Workers, WaitFails(w) PROVE LxdTypeOK'
  <2>1. cache' = cache /\ (lxd' = lxd \/ lxd' = [lxd EXCEPT !.act = None, !.owner = None])
    BY <1>6, Zenon DEF WaitFails
  <2> QED
    BY <1>0, <2>1, MachineKept, LxdFacts, Zenon
<1>7. ASSUME NEW w \in Workers, Verify(w) \/ VerifyFails(w) PROVE LxdTypeOK'
  <2>1. job[w].pc = "call" /\ JobInv(w) /\ lxd' = lxd
    BY <1>0, <1>7, Zenon DEF Verify, VerifyFails
  <2>2. job[w].slot \in Slots
    BY <2>1, Zenon DEF JobInv
  <2>3. {<<"reinstall", job[w].slot>>} \in SUBSET CacheKeys
    BY <2>2, SMT, SMTT(30) DEF CacheKeys
  <2>4. cache' = cache \/ StoreOperation(w, {<<"reinstall", job[w].slot>>})
    BY <1>7, Zenon DEF Verify, VerifyFails, StoreReinstall
  <2> QED
    BY <1>0, <2>1, <2>3, <2>4, CacheStored, LxdFacts, Zenon
<1>8. ASSUME NEW w \in Workers, Crash(w) PROVE LxdTypeOK'
  <2>1. cache' = [cache EXCEPT ![w] = {}] /\ lxd' = lxd
    BY <1>8, Zenon DEF Crash
  <2>2. cache' \in [Workers -> SUBSET CacheKeys]
    BY <1>0, <2>1, Zenon
  <2> QED
    BY <1>0, <2>1, <2>2, LxdFacts, Zenon
<1>9. CASE GuestStops \/ LxdStep
  <2>1. cache' = cache /\ (lxd' = [lxd EXCEPT !.status = "Stopped"] \/ LxdCompletes)
    BY <1>9, Zenon DEF GuestStops, LxdStep
  <2> QED
    BY <1>0, <2>1, MachineKept, LxdFacts, Zenon
<1>10. ASSUME NEW type \in UserActions, InstanceAction(type) PROVE LxdTypeOK'
  BY <1>2, <1>10, Zenon DEF InstanceAction, CreateOperation
<1>11. ASSUME NEW w \in Workers,
              \/ SelectCandidate(w) \/ GetInstance(w) \/ StoreObserved(w) \/ GetFails(w)
              \/ RoundFails(w) \/ Claim(w) \/ SetActionState(w) \/ ContextFails(w)
              \/ SetActionFails(w) \/ Finish(w) \/ FinishFails(w)
       PROVE  LxdTypeOK'
  <2>1. UNCHANGED lxdVars
    BY <1>11, Zenon
    DEF SelectCandidate, GetInstance, StoreObserved, GetFails, RoundFails, Claim, SetActionState,
        ContextFails, SetActionFails, Finish, FinishFails
  <2> QED
    BY <1>1, <2>1, Zenon
<1>12. CASE LifecycleTransition \/ RenewSubscription \/ \E s \in Slots : HeartbeatExpires(s)
  <2>1. UNCHANGED lxdVars
    BY <1>12, Zenon DEF LifecycleTransition, RenewSubscription, HeartbeatExpires
  <2> QED
    BY <1>1, <2>1, Zenon
<1> QED
  BY <1>3, <1>4, <1>5, <1>6, <1>7, <1>8, <1>9, <1>10, <1>11, <1>12, Zenon
  DEF Next, RoundStep, WorkflowStep, WorkerFault

-----------------------------------------------------------------------------
(* The inductive invariant                                                  *)

(* The parts of the invariant. *)
StepInv == LxdTypeOK /\ InstTypes /\ CountTypes /\ CoreInv

(* The retries of every operation are within their bound. *)
LEMMA RetriesBounded ==
  ASSUME OpsInv
  PROVE  ops \in [Slots -> OpRows]
<1>1. ASSUME NEW s \in Slots PROVE ops[s] \in OpRows
  <2>1. ops[s] \in OpNats /\ BudgetInv(s) /\ Incrementers(s) \in SUBSET Workers
    BY Zenon DEF OpsInv, Incrementers
  <2>2. ops[s].retries \in Nat /\ Cardinality(Incrementers(s)) \in Nat
    BY <2>1, WorkerSets, Zenon DEF OpNats
  <2>3. ops[s].retries \in Counts
    BY <2>1, <2>2, CountFacts, SMT, SMTT(30) DEF BudgetInv, Counts
  <2> QED
    BY <2>1, <2>3, Zenon DEF OpNats, OpRows
<1> QED
  BY <1>1, Zenon DEF OpsInv

(* The same after a step. *)
LEMMA RetriesBoundedNext ==
  ASSUME OpsInv'
  PROVE  ops' \in [Slots -> OpRows]
<1>1. ASSUME NEW s \in Slots PROVE ops'[s] \in OpRows
  <2>1. ops'[s] \in OpNats /\ BudgetInv(s)' /\ Incrementers(s)' \in SUBSET Workers
    BY Zenon DEF OpsInv, Incrementers
  <2>2. ops'[s].retries \in Nat /\ Cardinality(Incrementers(s)') \in Nat
    BY <2>1, WorkerSets, Zenon DEF OpNats
  <2>3. ops'[s].retries \in Counts
    BY <2>1, <2>2, CountFacts, SMT, SMTT(30) DEF BudgetInv, Counts
  <2> QED
    BY <2>1, <2>3, Zenon DEF OpNats, OpRows
<1> QED
  BY <1>1, Zenon DEF OpsInv

(* The invariant is the conjunction of its parts, before and after a step. *)
LEMMA Parts ==
  /\ ActionInv => StepInv /\ ops \in [Slots -> OpRows]
  /\ StepInv => ActionInv
  /\ StepInv' => ActionInv'
<1>1. ASSUME ActionInv PROVE StepInv /\ ops \in [Slots -> OpRows]
  <2>1. ops \in [Slots -> OpNats]
    <3>1. OpRows \subseteq OpNats
      BY CountFacts, Zenon DEF OpRows, OpNats
    <3>2. ops \in [Slots -> OpRows]
      BY <1>1, Zenon DEF ActionInv, TypeOK
    <3> QED
      BY <3>1, <3>2, Zenon
  <2> QED
    BY <1>1, <2>1, Zenon
    DEF ActionInv, TypeOK, StepInv, InstTypes, InstRows, CountTypes, CoreInv, JobTypes, OpsInv
<1>2. ASSUME StepInv PROVE ActionInv
  <2>1. ops \in [Slots -> OpRows]
    BY <1>2, RetriesBounded, Zenon DEF StepInv, CoreInv
  <2> QED
    BY <1>2, <2>1, Zenon
    DEF ActionInv, TypeOK, StepInv, InstTypes, InstRows, CountTypes, CoreInv, JobTypes, OpsInv
<1>3. ASSUME StepInv' PROVE ActionInv'
  <2>1. ops' \in [Slots -> OpRows]
    BY <1>3, RetriesBoundedNext, Zenon DEF StepInv, CoreInv
  <2> QED
    BY <1>3, <2>1, Zenon
    DEF ActionInv, TypeOK, StepInv, InstTypes, InstRows, CountTypes, CoreInv, JobTypes, OpsInv
<1> QED
  BY <1>1, <1>2, <1>3, Zenon

(* At the start nothing is queued, nobody works and there are no keys. *)
LEMMA ActionInit == Init => ActionInv
<1> SUFFICES ASSUME Init PROVE StepInv
  BY Parts, Zenon
<1>1. LxdTypeOK
  <2>1. lxd \in Machines
    BY Zenon DEF Init, LxdInit, Machines
  <2>2. cache \in [Workers -> SUBSET CacheKeys]
    BY Zenon DEF Init, LxdInit
  <2> QED
    BY <2>1, <2>2, LxdFacts, Zenon
<1>2. InstTypes
  BY Zenon DEF Init, InstTypes, InstRows, DesiredStates, SubscriptionStatuses
<1>3. CountTypes
  <2>1. events \in 0 .. MaxEvents /\ faults \in 0 .. MaxFaults
    BY ActionAssumption, SMT, SMTT(30) DEF Init
  <2>2. aborted \in BOOLEAN
    BY Zenon DEF Init
  <2> QED
    BY <2>1, <2>2, Zenon DEF CountTypes
<1>4. JobTypes /\ \A w \in Workers : job[w].pc = "loop" /\ job[w].slot = None
  <2>1. "loop" \in Places /\ Loop = [Loop EXCEPT !.pc = "loop"]
    BY SMT, SMTT(30) DEF Places, Loop
  <2>2. Loop \in JobRows /\ Loop.pc = "loop" /\ Loop.slot = None
    BY <2>1, LoopRow, Zenon
  <2> QED
    BY <2>2, Zenon DEF Init, JobTypes
<1>5. \A w \in Workers : JobInv(w)
  BY <1>4, Zenon DEF JobInv
<1>6. OpsInv
  <2>1. Ended \in OpNats /\ Ended.status = "ended" /\ Ended.retries = 0
    BY Zenon DEF Ended, OpNats
  <2>2. ops \in [Slots -> OpNats] /\ \A s \in Slots : ops[s] = Ended
    BY <2>1, Zenon DEF Init
  <2>3. ASSUME NEW s \in Slots PROVE OpInv(s) /\ BudgetInv(s)
    <3>1. Incrementers(s) = {}
      BY <1>4, ActionAssumption, Zenon DEF Incrementers, Executing
    <3>2. Cardinality(Incrementers(s)) = 0
      BY <3>1, FS_EmptySet, Zenon
    <3>3. ops[s].status = "ended" /\ ops[s].retries = 0
      BY <2>1, <2>2, Zenon
    <3>4. BudgetInv(s)
      BY <3>2, <3>3, CountFacts, SMT, SMTT(30) DEF BudgetInv
    <3> QED
      BY <3>3, <3>4, Zenon DEF OpInv, Open
  <2> QED
    BY <2>2, <2>3, Zenon DEF OpsInv
<1>7. KeyInv
  BY Zenon DEF Init, KeyInv
<1> QED
  BY <1>1, <1>2, <1>3, <1>4, <1>5, <1>6, <1>7, Zenon DEF StepInv, CoreInv

(* Every step preserves the invariant. *)
LEMMA ActionStep == ActionInv /\ [Next]_vars => ActionInv'
<1> SUFFICES ASSUME StepInv, ops \in [Slots -> OpRows], [Next]_vars PROVE StepInv'
  BY Parts, Zenon
<1>0. LxdTypeOK /\ InstTypes /\ CountTypes /\ CoreInv
  BY Zenon DEF StepInv
<1>1. CASE Next
  <2>1. CountTypes' /\ FaultsGrow
    BY <1>0, <1>1, NextCounts, CountersKept, Zenon
  <2>2. InstTypes' /\ LxdTypeOK'
    BY <1>0, <1>1, InstKept, LxdKept, Zenon
  <2>3. ASSUME NEW w \in Workers, RoundStep(w) PROVE CoreInv'
    BY <1>0, <2>1, <2>3, RoundCore, DriftCore, Zenon DEF RoundStep, RoundOf
  <2>4. ASSUME NEW w \in Workers, WorkflowStep(w) PROVE CoreInv'
    BY <1>0, <2>1, <2>4, ClaimCore, SetCore, CallCore, LeaveCore, Zenon DEF WorkflowStep, CallOf
  <2>5. ASSUME NEW w \in Workers, WorkerFault(w) PROVE CoreInv'
    BY <1>0, <2>1, <2>5, RoundCore, SetFailsCore, CallCore, FinishFailsCore, LeaveCore, Zenon
    DEF WorkerFault, RoundOf, CallOf
  <2>6. ASSUME Outside PROVE CoreInv'
    BY <1>0, <2>1, <2>6, OutsideCore, Zenon
  <2>7. Outside \/ \E w \in Workers : RoundStep(w) \/ WorkflowStep(w) \/ WorkerFault(w)
    BY <1>1, Zenon DEF Next, Outside
  <2>8. CoreInv'
    BY <2>3, <2>4, <2>5, <2>6, <2>7, Zenon
  <2> QED
    BY <2>1, <2>2, <2>8, Zenon DEF StepInv
<1>2. CASE UNCHANGED vars
  <2>1. /\ lxd' = lxd /\ cache' = cache /\ inst' = inst /\ keys' = keys /\ fresh' = fresh
        /\ sub' = sub /\ ops' = ops /\ job' = job /\ events' = events /\ faults' = faults
        /\ aborted' = aborted
    BY <1>2, Zenon DEF vars, lxdVars, tables, instRow, counters
  <2>2. LxdTypeOK' /\ InstTypes' /\ CountTypes'
    BY <1>0, <2>1, Zenon DEF LxdTypeOK, InstTypes, CountTypes
  <2>3. FaultsGrow
    <3>1. Counted
      BY <2>1, Zenon DEF Counted, counters
    <3> QED
      BY <1>0, <3>1, CountersKept, Zenon
  <2>4. OpsInv'
    BY <1>0, <2>1, StillQuiet, OpsSame, Zenon DEF CoreInv
  <2>5. CoreInv'
    BY <1>0, <2>1, <2>3, <2>4, StillCore, Zenon
  <2> QED
    BY <2>2, <2>5, Zenon DEF StepInv
<1> QED
  BY <1>1, <1>2, Zenon

(* Every reachable state satisfies the invariant: places and what was read     *)
(* there agree, no retry is counted past MaxRetries plus the other workers,    *)
(* and the operation behind a key has not written to the row.                  *)
THEOREM ActionInvariant == Spec => []ActionInv
<1>1. Init => ActionInv
  BY ActionInit, Zenon
<1>2. ActionInv /\ [Next]_vars => ActionInv'
  BY ActionStep, Zenon
<1> QED
  BY <1>1, <1>2, PTL DEF Spec

(* The variables of the worker loop keep their types; in particular the        *)
(* retry_count of an operation stays within MaxRetries plus the workers that   *)
(* processMessage's check of the claimed row lets through.                     *)
THEOREM ActionTypes == Spec => []TypeOK
<1>1. ActionInv => TypeOK
  BY Zenon DEF ActionInv
<1> QED
  BY <1>1, ActionInvariant, PTL

(* A key of the reconciler with the current version belongs to an operation    *)
(* that has not ended, for any workers, slots and requests and whatever fails  *)
(* after setActionState.  The two exceptions are exact: an operation that an   *)
(* error ends before setActionState, and more faults than retries.             *)
THEOREM KeysAreLive == Spec => []KeyIsLive
<1>1. ActionInv => KeyIsLive
  BY Zenon DEF ActionInv, KeyInv, Behind, KeyIsLive, Underway
<1> QED
  BY <1>1, ActionInvariant, PTL
=============================================================================
