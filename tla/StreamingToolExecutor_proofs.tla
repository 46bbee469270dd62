--------------------- MODULE StreamingToolExecutor_proofs ----------------------
(***************************************************************************)
(* Exclusive access, the order of starting, the watched queue, the single  *)
(* error report, and the answers: how many a tool has, and their order, for *)
(* messages of any length and any kinds of tools.                          *)
(*                                                                         *)
(* The argument is about processQueue() loops.  A loop never leaves a      *)
(* queued tool behind it (Behind), so the tool it starts next is the first *)
(* queued tool of the whole message, and a loop that ends without starting *)
(* one leaves a running tool that the queue waits for.                     *)
(***************************************************************************)
EXTENDS StreamingToolExecutor, OrderLemmas, TLAPS

Statuses == {"absent", "queued", "executing", "completed", "yielded"}
Results == {"ok", "error"} \cup Synthetic

\* What holds of the statuses alone: Exclusive, StartedInOrder, and that the
\* tools not yet added are the last ones.
StatusInv(st) ==
  /\ st \in [Tools -> Statuses]
  /\ \A t, u \in Tools :
       st[t] = "executing" /\ ~Safe(t) /\ st[u] = "executing" => u = t
  /\ \A t, u \in Tools :
       t < u /\ st[t] = "queued" /\ kind[u] \notin UnknownKinds
         => st[u] \in {"absent", "queued"}
  /\ \A t, u \in Tools : t < u /\ st[t] = "absent" => st[u] = "absent"

\* The tools before position p have all been added and started.
Behind(st, p) == \A u \in Tools : u < p => st[u] \notin {"absent", "queued"}

Running(st) == \E t \in Tools : st[t] = "executing"

\* The inductive invariant.
IInv ==
  /\ TypeOK
  /\ StatusInv(status)
  /\ \A p \in passes : Behind(status, p)
  /\ pc = "pass" => Behind(status, own)
  /\ (\E t \in Tools : status[t] = "queued") => Running(status) \/ passes # {}
  /\ \A t \in Tools : status[t] \in {"absent", "queued"} => outcome[t] = << >>
  /\ ErrorReportedOnce
-------------------------------------------------------------------------------
\* getAbortReason() gives a reason or none.
LEMMA AbortReasonType ==
  ASSUME NEW t \in Tools
  PROVE  AbortReason(t) \in Synthetic \cup {"none"}
BY DEF AbortReason, Synthetic

\* The tool that a loop at p starts is the first queued one from p on, and may
\* execute; when there is none to start although one is queued, a tool runs.
LEMMA StartableIsFirst ==
  ASSUME ExecutorAssumption, NEW st \in [Tools -> Statuses], NEW p \in 1..(N + 1)
  PROVE  LET t == Startable(st, p) IN
         /\ t = 0 => \A q \in Tools : q >= p /\ st[q] = "queued" => Running(st)
         /\ t # 0 => /\ t \in Tools /\ t >= p
                     /\ st[t] = "queued" /\ CanExecute(st, t)
                     /\ \A q \in Tools : q >= p /\ st[q] = "queued" => t <= q
<1> DEFINE queued == {q \in Tools : q >= p /\ st[q] = "queued"}
<1>1. IsFiniteSet(Tools) /\ Tools \subseteq Int
  BY FS_Interval DEF ExecutorAssumption, Tools
<1>2. ASSUME queued # {}
      PROVE  Min(queued) \in queued /\ \A q \in queued : Min(queued) <= q
  <2>1. queued \in SUBSET Tools /\ queued \subseteq Int
    BY <1>1
  <2> HIDE DEF queued
  <2> QED BY <1>1, <1>2, <2>1, MinIsLeast
<1>3. Startable(st, p) = IF queued # {} /\ CanExecute(st, Min(queued))
                         THEN Min(queued) ELSE 0
  BY DEF Startable
<1>4. CASE queued = {}
  BY <1>3, <1>4
<1>5. CASE queued # {} /\ ~CanExecute(st, Min(queued))
  <2>1. Running(st)
    BY <1>5 DEF CanExecute, Running
  <2>2. Startable(st, p) = 0
    BY <1>3, <1>5
  <2> QED BY <2>1, <2>2
<1>6. CASE queued # {} /\ CanExecute(st, Min(queued))
  <2>1. Startable(st, p) = Min(queued)
    BY <1>3, <1>6
  <2>2. Min(queued) # 0
    BY <1>2, <1>6 DEF ExecutorAssumption, Tools
  <2> QED BY <1>2, <1>6, <2>1, <2>2
<1> QED BY <1>4, <1>5, <1>6

\* Starting the first queued tool keeps the invariant of the statuses, leaves
\* nothing behind any loop, and nothing behind the position after the tool.
LEMMA StartKeeps ==
  ASSUME ExecutorAssumption, NEW st, StatusInv(st), NEW t \in Tools,
         st[t] = "queued", CanExecute(st, t),
         \A q \in Tools : st[q] = "queued" => t <= q,
         NEW s \in {"executing", "completed"}
  PROVE  LET next == [st EXCEPT ![t] = s] IN
         /\ StatusInv(next)
         /\ \A p \in 1..(N + 1) : Behind(st, p) => Behind(next, p)
         /\ Behind(next, t + 1)
<1> DEFINE next == [st EXCEPT ![t] = s]
<1>1. next \in [Tools -> Statuses]
  BY DEF StatusInv, Statuses
<1>2. \A u \in Tools : next[u] = IF u = t THEN s ELSE st[u]
  BY DEF StatusInv
<1>3. \A x, y \in Tools : x \in Int /\ y \in Int
  BY DEF ExecutorAssumption, Tools
<1>4. StatusInv(next)
  <2>1. \A x, y \in Tools :
          next[x] = "executing" /\ ~Safe(x) /\ next[y] = "executing" => y = x
    BY <1>2 DEF StatusInv, CanExecute
  <2>2. \A x, y \in Tools :
          x < y /\ next[x] = "queued" /\ kind[y] \notin UnknownKinds
            => next[y] \in {"absent", "queued"}
    BY <1>2, <1>3 DEF StatusInv
  <2>3. \A x, y \in Tools : x < y /\ next[x] = "absent" => next[y] = "absent"
    BY <1>2, <1>3 DEF StatusInv
  <2> QED BY <1>1, <2>1, <2>2, <2>3 DEF StatusInv
<1>5. \A p \in 1..(N + 1) : Behind(st, p) => Behind(next, p)
  BY <1>2 DEF Behind
<1>6. Behind(next, t + 1)
  <2>1. ASSUME NEW u \in Tools, u < t + 1, u # t
        PROVE  st[u] \notin {"absent", "queued"}
    <3>1. u < t
      BY <1>3, <2>1
    <3>2. st[u] # "queued"
      BY <1>3, <3>1
    <3>3. st[u] # "absent"
      BY <3>1 DEF StatusInv
    <3> QED BY <3>2, <3>3
  <2> QED BY <1>2, <2>1 DEF Behind
<1> QED BY <1>4, <1>5, <1>6

\* So does completing a running tool, or yielding a completed one.
LEMMA SettleKeeps ==
  ASSUME ExecutorAssumption, NEW st, StatusInv(st), NEW t \in Tools,
         st[t] \in {"executing", "completed"},
         NEW s \in {"completed", "yielded"}
  PROVE  LET next == [st EXCEPT ![t] = s] IN
         /\ StatusInv(next)
         /\ \A p \in 1..(N + 1) : Behind(st, p) => Behind(next, p)
<1> DEFINE next == [st EXCEPT ![t] = s]
<1>1. next \in [Tools -> Statuses]
  BY DEF StatusInv, Statuses
<1>2. \A u \in Tools : next[u] = IF u = t THEN s ELSE st[u]
  BY DEF StatusInv
<1>3. \A x, y \in Tools :
        next[x] = "executing" /\ ~Safe(x) /\ next[y] = "executing" => y = x
  BY <1>2 DEF StatusInv
<1>4. \A x, y \in Tools :
        x < y /\ next[x] = "queued" /\ kind[y] \notin UnknownKinds
          => next[y] \in {"absent", "queued"}
  BY <1>2 DEF StatusInv
<1>5. \A x, y \in Tools : x < y /\ next[x] = "absent" => next[y] = "absent"
  BY <1>2 DEF StatusInv
<1>6. \A p \in 1..(N + 1) : Behind(st, p) => Behind(next, p)
  BY <1>2 DEF Behind
<1> QED BY <1>1, <1>3, <1>4, <1>5, <1>6 DEF StatusInv

\* The status part of the invariant, and a position behind which nothing is
\* left, depend on nothing but status and the kinds of the tools.
LEMMA StatusInvPrimed ==
  ASSUME UNCHANGED kind, NEW st, StatusInv(st), status' = st
  PROVE  StatusInv(status)'
BY DEF StatusInv, Safe

\* executeTool() for the tool that a loop starts.
LEMMA ExecuteKeeps ==
  ASSUME ExecutorAssumption, NEW st, StatusInv(st),
         outcome \in [Tools -> Seq(Results)], inProgress \subseteq Tools,
         \A q \in Tools : st[q] \in {"absent", "queued"} => outcome[q] = << >>,
         ErrorReportedOnce,
         NEW p \in 1..(N + 1), Behind(st, p),
         NEW t, t = Startable(st, p), t # 0,
         Execute(st, t), UNCHANGED kind
  PROVE  /\ t \in Tools
         /\ StatusInv(status)'
         /\ \A q \in 1..(N + 1) : Behind(st, q) => Behind(status, q)'
         /\ Resched(t) \subseteq 1..(N + 1) /\ t + 1 \in Resched(t)
         /\ \A q \in Resched(t) : Behind(status, q)'
         /\ Running(status)' \/ 1 \in Resched(t)
         /\ outcome' \in [Tools -> Seq(Results)] /\ inProgress' \subseteq Tools
         /\ \A q \in Tools : status'[q] \in {"absent", "queued"} => outcome'[q] = << >>
         /\ ErrorReportedOnce'
<1>1. st \in [Tools -> Statuses]
  BY DEF StatusInv
<1>2. /\ t \in Tools /\ t >= p
      /\ st[t] = "queued" /\ CanExecute(st, t)
      /\ \A q \in Tools : q >= p /\ st[q] = "queued" => t <= q
  BY <1>1, StartableIsFirst
<1>3. \A q \in Tools : st[q] = "queued" => q >= p
  BY DEF Behind, ExecutorAssumption, Tools
<1>4. \A q \in Tools : st[q] = "queued" => t <= q
  BY <1>2, <1>3
<1>5. PICK s \in {"executing", "completed"} :
        /\ status' = [st EXCEPT ![t] = s]
        /\ s = "executing" <=> AbortReason(t) = "none"
  BY DEF Execute
<1>6. LET next == [st EXCEPT ![t] = s] IN
      /\ StatusInv(next)
      /\ \A q \in 1..(N + 1) : Behind(st, q) => Behind(next, q)
      /\ Behind(next, t + 1)
  BY <1>2, <1>4, StartKeeps
<1>7. StatusInv(status)'
  BY <1>5, <1>6, StatusInvPrimed
<1>8. /\ \A q \in 1..(N + 1) : Behind(st, q) => Behind(status, q)'
      /\ Behind(status, t + 1)'
  BY <1>5, <1>6 DEF Behind
<1>9. Resched(t) \subseteq 1..(N + 1) /\ t + 1 \in Resched(t)
  BY <1>2 DEF Resched, ExecutorAssumption, Tools
<1>10. \A q \in Resched(t) : Behind(status, q)'
  <2>1. Behind(status, 1)'
    BY DEF Behind, ExecutorAssumption, Tools
  <2> QED BY <1>8, <2>1 DEF Resched
<1>11. Running(status)' \/ 1 \in Resched(t)
  <2>1. CASE s = "executing"
    <3>1. status'[t] = "executing"
      BY <1>1, <1>2, <1>5, <2>1
    <3> QED BY <1>2, <3>1 DEF Running
  <2>2. CASE s = "completed"
    BY <1>5, <2>2 DEF Resched
  <2> QED BY <1>5, <2>1, <2>2
<1>12. \A q \in Tools : status'[q] = IF q = t THEN s ELSE st[q]
  BY <1>1, <1>5
<1>13. CASE AbortReason(t) = "none"
  <2>1. UNCHANGED outcome
    BY <1>13 DEF Execute
  <2>2. inProgress' \subseteq Tools
    BY <1>2 DEF Execute
  <2>3. ErrorReportedOnce'
    BY <2>1 DEF ErrorReportedOnce, ThisToolErrored
  <2> QED BY <1>2, <1>7, <1>8, <1>9, <1>10, <1>11, <1>12, <2>1, <2>2, <2>3, <1>5
<1>14. CASE AbortReason(t) # "none"
  <2> DEFINE reason == AbortReason(t)
  <2>1. reason \in Synthetic /\ reason \in Results
    BY <1>2, <1>14, AbortReasonType DEF Results
  <2>2. outcome' = [outcome EXCEPT ![t] = <<reason>>]
    <3>1. outcome[t] = << >>
      BY <1>2
    <3>2. Append(outcome[t], reason) = <<reason>>
      BY <3>1
    <3> QED BY <1>2, <1>14, <3>2 DEF Execute
  <2>3. inProgress' \subseteq Tools
    BY <1>2 DEF Execute
  <2>4. outcome' \in [Tools -> Seq(Results)]
    <3> HIDE DEF reason
    <3>1. <<reason>> \in Seq(Results)
      BY <2>1
    <3> QED BY <2>2, <3>1
  <2>5. ErrorReportedOnce'
    <3> HIDE DEF reason
    <3>1. ASSUME NEW q \in Tools, ThisToolErrored(q)' PROVE Len(outcome'[q]) = 1
      <4>1. CASE q = t
        BY <2>2, <4>1
      <4>2. CASE q # t
        BY <2>2, <3>1, <4>2 DEF ErrorReportedOnce, ThisToolErrored
      <4> QED BY <4>1, <4>2
    <3> QED BY <3>1 DEF ErrorReportedOnce
  <2>6. \A q \in Tools : status'[q] \in {"absent", "queued"} => outcome'[q] = << >>
    <3> HIDE DEF reason
    <3>1. \A q \in Tools : q # t => outcome'[q] = outcome[q]
      BY <2>2
    <3> QED BY <1>12, <3>1
  <2> QED BY <1>2, <1>7, <1>8, <1>9, <1>10, <1>11, <2>3, <2>4, <2>5, <2>6
<1> QED BY <1>13, <1>14
-------------------------------------------------------------------------------
\* The initial state.
LEMMA InitOK == ExecutorAssumption /\ Init => IInv
<1> SUFFICES ASSUME ExecutorAssumption, Init PROVE IInv
  OBVIOUS
<1>1. TypeOK
  <2>1. outcome \in [Tools -> Seq({"ok", "error"} \cup Synthetic)]
    <3>1. << >> \in Seq({"ok", "error"} \cup Synthetic)
      BY EmptySeq
    <3> QED BY <3>1 DEF Init
  <2>2. own \in 1..(N + 1)
    BY DEF ExecutorAssumption, Init
  <2>3. status \in [Tools -> Statuses]
    BY DEF Init, Statuses
  <2> QED BY <2>1, <2>2, <2>3, EmptySeq DEF Init, TypeOK, Statuses
<1>2. StatusInv(status)
  BY DEF Init, StatusInv, Statuses
<1>3. ErrorReportedOnce
  BY DEF Init, ErrorReportedOnce, ThisToolErrored
<1> QED BY <1>1, <1>2, <1>3 DEF Init, IInv

\* A step that leaves the tools, the loops and the results alone only has to
\* keep the types, and to start its own loop from the beginning.
LEMMA QuietStep ==
  ASSUME IInv, TypeOK', UNCHANGED <<kind, status, outcome, passes>>,
         pc' # "pass" \/ (own' = 1 /\ ExecutorAssumption) \/ UNCHANGED <<pc, own>>
  PROVE  IInv'
<1>1. StatusInv(status)'
  BY StatusInvPrimed DEF IInv
<1>2. ErrorReportedOnce'
  BY DEF IInv, ErrorReportedOnce, ThisToolErrored
<1>3. (\A p \in passes : Behind(status, p))'
  BY DEF IInv, Behind
<1>4. (pc = "pass" => Behind(status, own))'
  <2>1. CASE UNCHANGED <<pc, own>>
    BY <2>1 DEF IInv, Behind
  <2>2. CASE own' = 1 /\ ExecutorAssumption
    BY <2>2 DEF Behind, Tools, ExecutorAssumption
  <2> QED BY <2>1, <2>2
<1>5. ((\E t \in Tools : status[t] = "queued") => Running(status) \/ passes # {})'
  BY DEF IInv, Running
<1> QED BY <1>1, <1>2, <1>3, <1>4, <1>5 DEF IInv

LEMMA AddToolKeeps ==
  ASSUME ExecutorAssumption, IInv, NEW t \in Tools, AddTool(t)
  PROVE  IInv'
<1>0. t \in 1..N /\ N \in Nat
  BY DEF ExecutorAssumption, Tools
<1>1. /\ status[t] = "absent" /\ UNCHANGED <<kind, pc, own>> /\ pc # "pass"
      /\ \A u \in Tools : u < t => status[u] # "absent"
  BY DEF AddTool
<1>2. TypeOK /\ StatusInv(status) /\ status \in [Tools -> Statuses]
  BY DEF IInv, StatusInv
\* The new tool is the last one, so no loop has got past it.
<1>3. \A p \in passes : p \in 1..(N + 1) /\ p <= t
  <2>1. SUFFICES ASSUME NEW p \in passes, ~(p <= t) PROVE FALSE
    BY <1>2 DEF TypeOK
  <2>2. Behind(status, p) /\ p \in 1..(N + 1)
    BY <1>2 DEF IInv, TypeOK
  <2> QED BY <1>0, <1>1, <2>1, <2>2 DEF Behind, Tools
<1>4. \A u \in Tools : t < u => status[u] = "absent"
  BY <1>1, <1>2 DEF StatusInv
<1>5. ASSUME NEW s \in {"queued", "completed"}, s = "completed" => kind[t] \in UnknownKinds
      PROVE  /\ StatusInv([status EXCEPT ![t] = s])
             /\ \A p \in passes : Behind([status EXCEPT ![t] = s], p)
  <2> DEFINE st == [status EXCEPT ![t] = s]
  <2>1. st \in [Tools -> Statuses]
    BY <1>2 DEF Statuses
  <2>2. \A u \in Tools : st[u] = IF u = t THEN s ELSE status[u]
    BY <1>2
  <2>3. \A x, y \in Tools :
          st[x] = "executing" /\ ~Safe(x) /\ st[y] = "executing" => y = x
    BY <1>2, <2>2 DEF StatusInv
  <2>4. \A x, y \in Tools :
          x < y /\ st[x] = "queued" /\ kind[y] \notin UnknownKinds
            => st[y] \in {"absent", "queued"}
    BY <1>2, <1>4, <1>5, <2>2 DEF StatusInv
  <2>5. \A x, y \in Tools : x < y /\ st[x] = "absent" => st[y] = "absent"
    <3>1. SUFFICES ASSUME NEW x \in Tools, NEW y \in Tools, x < y, st[x] = "absent"
                   PROVE  st[y] = "absent"
      OBVIOUS
    <3>2. x # t /\ status[x] = "absent"
      BY <2>2, <3>1
    <3>3. status[y] = "absent"
      BY <1>2, <3>1, <3>2 DEF StatusInv
    <3>4. y # t
      BY <1>1, <3>1, <3>2
    <3> QED BY <2>2, <3>3, <3>4
  <2>6. \A p \in passes : Behind(st, p)
    <3>1. SUFFICES ASSUME NEW p \in passes, NEW u \in Tools, u < p
                   PROVE  st[u] \notin {"absent", "queued"}
      BY DEF Behind
    <3>2. u # t
      BY <1>0, <1>3, <3>1 DEF Tools
    <3> QED BY <2>2, <3>1, <3>2 DEF IInv, Behind
  <2> QED BY <2>1, <2>3, <2>4, <2>5, <2>6 DEF StatusInv
<1>6. CASE kind[t] \in UnknownKinds
  <2>1. /\ status' = [status EXCEPT ![t] = "completed"]
        /\ outcome' = [outcome EXCEPT ![t] = <<"error">>]
        /\ UNCHANGED <<inProgress, passes>>
    BY <1>6 DEF AddTool
  <2>2. StatusInv(status)' /\ (\A p \in passes : Behind(status, p))'
    <3>1. /\ StatusInv([status EXCEPT ![t] = "completed"])
          /\ \A p \in passes : Behind([status EXCEPT ![t] = "completed"], p)
      BY <1>5, <1>6
    <3> QED BY <1>1, <2>1, <3>1, StatusInvPrimed DEF Behind
  <2>3. TypeOK'
    BY <1>2, <2>1 DEF AddTool, TypeOK, Synthetic
  <2>4. \A q \in Tools : /\ status'[q] = IF q = t THEN "completed" ELSE status[q]
                         /\ outcome'[q] = IF q = t THEN <<"error">> ELSE outcome[q]
    BY <1>2, <2>1 DEF TypeOK
  <2>5. ErrorReportedOnce'
    <3>1. ASSUME NEW q \in Tools, ThisToolErrored(q)' PROVE Len(outcome'[q]) = 1
      <4>1. CASE q = t
        BY <2>4, <4>1
      <4>2. CASE q # t
        BY <2>4, <3>1, <4>2 DEF IInv, ErrorReportedOnce, ThisToolErrored
      <4> QED BY <4>1, <4>2
    <3> QED BY <3>1 DEF ErrorReportedOnce
  <2>6. ((\E q \in Tools : status[q] = "queued") => Running(status) \/ passes # {})'
    <3>1. ASSUME NEW q \in Tools, status'[q] = "queued" PROVE (Running(status) \/ passes # {})'
      <4>1. status[q] = "queued"
        BY <2>4, <3>1
      <4>2. Running(status) \/ passes # {}
        BY <4>1 DEF IInv
      <4>3. Running(status) => Running(status)'
        BY <1>1, <2>4 DEF Running
      <4> QED BY <2>1, <4>2, <4>3
    <3> QED BY <3>1
  <2>7. \A q \in Tools : status'[q] \in {"absent", "queued"} => outcome'[q] = << >>
    BY <2>4 DEF IInv
  <2> QED BY <1>1, <2>2, <2>3, <2>5, <2>6, <2>7 DEF IInv
<1>7. CASE kind[t] \notin UnknownKinds
  <2> DEFINE st == [status EXCEPT ![t] = "queued"]
  <2> DEFINE u == Startable(st, 1)
  <2>1. StatusInv(st) /\ \A p \in passes : Behind(st, p)
    BY <1>5
  <2>2. st \in [Tools -> Statuses] /\ st[t] = "queued"
    BY <1>2 DEF Statuses
  <2>3. \A q \in Tools : st[q] = IF q = t THEN "queued" ELSE status[q]
    BY <1>2
  <2>4. \A q \in Tools : st[q] \in {"absent", "queued"} => outcome[q] = << >>
    BY <1>1, <2>3 DEF IInv
  <2>5. Behind(st, 1) /\ 1 \in 1..(N + 1)
    BY <1>0 DEF Behind, Tools
  <2>6. CASE u = 0
    <3>1. status' = st /\ UNCHANGED <<outcome, inProgress, passes>>
      BY <1>7, <2>6 DEF AddTool
    <3>2. StatusInv(status)' /\ (\A p \in passes : Behind(status, p))'
      <4> HIDE DEF st
      <4> QED BY <1>1, <2>1, <3>1, StatusInvPrimed DEF Behind
    <3>3. Running(status)'
      <4>1. Running(st)
        <5>1. t >= 1
          BY <1>0
        <5> QED BY <2>2, <2>5, <2>6, <5>1, StartableIsFirst
      <4> QED BY <3>1, <4>1 DEF Running
    <3>4. TypeOK'
      BY <1>2, <3>1 DEF AddTool, TypeOK
    <3>5. ErrorReportedOnce'
      BY <3>1 DEF IInv, ErrorReportedOnce, ThisToolErrored
    <3>6. \A q \in Tools : status'[q] \in {"absent", "queued"} => outcome'[q] = << >>
      BY <2>4, <3>1
    <3> QED BY <1>1, <3>2, <3>3, <3>4, <3>5, <3>6 DEF IInv
  <2>7. CASE u # 0
    <3>1. Execute(st, u) /\ passes' = passes \cup Resched(u)
      BY <1>7, <2>7 DEF AddTool
    <3>2. /\ u \in Tools
          /\ StatusInv(status)'
          /\ \A q \in 1..(N + 1) : Behind(st, q) => Behind(status, q)'
          /\ Resched(u) \subseteq 1..(N + 1) /\ u + 1 \in Resched(u)
          /\ \A q \in Resched(u) : Behind(status, q)'
          /\ outcome' \in [Tools -> Seq(Results)] /\ inProgress' \subseteq Tools
          /\ \A q \in Tools : status'[q] \in {"absent", "queued"} => outcome'[q] = << >>
          /\ ErrorReportedOnce'
      <4>1. outcome \in [Tools -> Seq(Results)] /\ inProgress \subseteq Tools
        BY <1>2 DEF TypeOK, Results
      <4>2. ErrorReportedOnce
        BY DEF IInv
      <4> HIDE DEF st, u
      <4>3. u = Startable(st, 1)
        BY DEF u
      <4> QED BY <1>1, <2>1, <2>4, <2>5, <2>7, <3>1, <4>1, <4>2, <4>3, ExecuteKeeps
    <3>3. (\A p \in passes : Behind(status, p))'
      <4> HIDE DEF st, u
      <4>1. \A p \in passes : Behind(status, p)'
        BY <1>3, <2>1, <3>2
      <4> QED BY <3>1, <3>2, <4>1
    <3>4. passes' # {} /\ passes' \subseteq 1..(N + 1)
      <4> HIDE DEF st, u
      <4> QED BY <1>2, <3>1, <3>2 DEF TypeOK
    <3>5. status' \in [Tools -> Statuses]
      BY <3>2 DEF StatusInv
    <3>6. TypeOK'
      <4> HIDE DEF st, u
      <4> QED BY <1>2, <3>2, <3>4, <3>5 DEF AddTool, TypeOK, Results, Statuses
    <3> QED BY <1>1, <3>2, <3>3, <3>4, <3>6 DEF IInv
  <2> QED BY <2>6, <2>7
<1> QED BY <1>6, <1>7

\* A processQueue() loop that goes on, started by anybody or by the consumer.
LEMMA LoopStep ==
  ASSUME ExecutorAssumption, IInv, NEW p \in 1..(N + 1), Behind(status, p),
         NEW t, t = Startable(status, p), t # 0, Execute(status, t), UNCHANGED kind
  PROVE  /\ t \in Tools
         /\ StatusInv(status)' /\ status' \in [Tools -> Statuses]
         /\ \A q \in 1..(N + 1) : Behind(status, q) => Behind(status, q)'
         /\ Resched(t) \subseteq 1..(N + 1) /\ t + 1 \in Resched(t)
         /\ \A q \in Resched(t) : Behind(status, q)'
         /\ Running(status)' \/ 1 \in Resched(t)
         /\ outcome' \in [Tools -> Seq(Results)] /\ inProgress' \subseteq Tools
         /\ \A q \in Tools : status'[q] \in {"absent", "queued"} => outcome'[q] = << >>
         /\ ErrorReportedOnce'
<1>1. /\ StatusInv(status) /\ ErrorReportedOnce
      /\ \A q \in Tools : status[q] \in {"absent", "queued"} => outcome[q] = << >>
  BY DEF IInv
<1>2. outcome \in [Tools -> Seq(Results)] /\ inProgress \subseteq Tools
  BY DEF IInv, TypeOK, Results
<1>3. StatusInv(status)' => status' \in [Tools -> Statuses]
  BY DEF StatusInv
<1> QED BY <1>1, <1>2, <1>3, ExecuteKeeps

\* A loop that finds nothing to start although a tool is queued leaves a
\* running tool: this is why no queued tool is forgotten.
LEMMA LoopEnds ==
  ASSUME ExecutorAssumption, IInv, NEW p \in 1..(N + 1), Behind(status, p),
         Startable(status, p) = 0, NEW q \in Tools, status[q] = "queued"
  PROVE  Running(status)
<1>1. q >= p
  BY DEF Behind, ExecutorAssumption, Tools
<1>2. status \in [Tools -> Statuses]
  BY DEF IInv, StatusInv
<1> QED BY <1>1, <1>2, StartableIsFirst

LEMMA PassStepKeeps ==
  ASSUME ExecutorAssumption, IInv, NEW p \in passes, PassStep(p)
  PROVE  IInv'
<1> DEFINE t == Startable(status, p)
<1>1. p \in 1..(N + 1) /\ Behind(status, p) /\ TypeOK
  BY DEF IInv, TypeOK
<1>2. UNCHANGED <<kind, progress, errored, discarded, aborted, context, raceWon,
                  pc, own, race, emitted>>
  BY DEF PassStep, consumerVars
<1>3. CASE t = 0
  <2>1. passes' = passes \ {p} /\ UNCHANGED <<status, outcome, inProgress>>
    BY <1>3 DEF PassStep, execVars
  <2>2. StatusInv(status)'
    BY <1>2, <2>1, StatusInvPrimed DEF IInv
  <2>3. ErrorReportedOnce'
    BY <2>1 DEF IInv, ErrorReportedOnce, ThisToolErrored
  <2>4. TypeOK'
    BY <1>1, <1>2, <2>1 DEF TypeOK
  <2>5. ((\E q \in Tools : status[q] = "queued") => Running(status) \/ passes # {})'
    BY <1>1, <1>3, <2>1, LoopEnds DEF Running
  <2> QED BY <1>2, <2>1, <2>2, <2>3, <2>4, <2>5 DEF IInv, Behind
<1>4. CASE t # 0
  <2>1. Execute(status, t) /\ passes' = (passes \ {p}) \cup Resched(t)
    BY <1>4 DEF PassStep
  <2> HIDE DEF t
  <2>2. /\ t \in Tools
        /\ StatusInv(status)' /\ status' \in [Tools -> Statuses]
        /\ \A q \in 1..(N + 1) : Behind(status, q) => Behind(status, q)'
        /\ Resched(t) \subseteq 1..(N + 1) /\ t + 1 \in Resched(t)
        /\ \A q \in Resched(t) : Behind(status, q)'
        /\ outcome' \in [Tools -> Seq(Results)] /\ inProgress' \subseteq Tools
        /\ \A q \in Tools : status'[q] \in {"absent", "queued"} => outcome'[q] = << >>
        /\ ErrorReportedOnce'
    BY <1>1, <1>2, <1>4, <2>1, LoopStep DEF t
  <2>3. passes' # {} /\ passes' \subseteq 1..(N + 1)
    BY <1>1, <2>1, <2>2 DEF TypeOK
  <2>4. TypeOK'
    BY <1>1, <1>2, <2>2, <2>3 DEF TypeOK, Results, Statuses
  <2>5. (\A q \in passes : Behind(status, q))'
    <3>1. \A q \in passes : Behind(status, q)'
      BY <1>1, <2>2 DEF IInv, TypeOK
    <3> QED BY <2>1, <2>2, <3>1
  <2>6. (pc = "pass" => Behind(status, own))'
    <3>1. own \in 1..(N + 1)
      BY <1>1 DEF TypeOK
    <3>2. pc = "pass" => Behind(status, own)'
      BY <1>2, <2>2, <3>1 DEF IInv, Behind
    <3> QED BY <1>2, <3>2
  <2> QED BY <2>2, <2>3, <2>4, <2>5, <2>6 DEF IInv
<1> QED BY <1>3, <1>4

LEMMA OwnPassKeeps ==
  ASSUME ExecutorAssumption, IInv, OwnPass
  PROVE  IInv'
<1> DEFINE t == Startable(status, own)
<1>1. own \in 1..(N + 1) /\ Behind(status, own) /\ TypeOK
  BY DEF IInv, TypeOK, OwnPass
<1>2. UNCHANGED <<kind, progress, errored, discarded, aborted, context, raceWon,
                  race, emitted>>
  BY DEF OwnPass
<1>3. CASE t = 0
  <2>1. /\ pc' = "collect" /\ own' = 1
        /\ UNCHANGED <<status, outcome, inProgress, passes>>
    BY <1>3 DEF OwnPass, execVars
  <2>2. TypeOK'
    BY <1>1, <1>2, <2>1 DEF TypeOK, ExecutorAssumption
  <2> QED BY <1>2, <2>1, <2>2, QuietStep
<1>4. CASE t # 0
  <2>1. /\ Execute(status, t) /\ UNCHANGED pc
        /\ own' = t + 1 /\ passes' = passes \cup (Resched(t) \ {t + 1})
    BY <1>4 DEF OwnPass
  <2> HIDE DEF t
  <2>2. /\ t \in Tools
        /\ StatusInv(status)' /\ status' \in [Tools -> Statuses]
        /\ \A q \in 1..(N + 1) : Behind(status, q) => Behind(status, q)'
        /\ Resched(t) \subseteq 1..(N + 1) /\ t + 1 \in Resched(t)
        /\ \A q \in Resched(t) : Behind(status, q)'
        /\ Running(status)' \/ 1 \in Resched(t)
        /\ outcome' \in [Tools -> Seq(Results)] /\ inProgress' \subseteq Tools
        /\ \A q \in Tools : status'[q] \in {"absent", "queued"} => outcome'[q] = << >>
        /\ ErrorReportedOnce'
    BY <1>1, <1>2, <1>4, <2>1, LoopStep DEF t
  <2>3. passes' \subseteq 1..(N + 1) /\ own' \in 1..(N + 1)
    BY <1>1, <2>1, <2>2 DEF TypeOK
  <2>4. TypeOK'
    BY <1>1, <1>2, <2>1, <2>2, <2>3 DEF TypeOK, Results, Statuses
  <2>5. (\A q \in passes : Behind(status, q))'
    <3>1. \A q \in passes : Behind(status, q)'
      BY <1>1, <2>2 DEF IInv, TypeOK
    <3> QED BY <2>1, <2>2, <3>1
  <2>6. Behind(status, own)'
    BY <2>1, <2>2 DEF Behind
  <2>7. Running(status)' \/ passes' # {}
    <3>1. 1 # t + 1
      BY <2>2 DEF Tools, ExecutorAssumption
    <3> QED BY <2>1, <2>2, <3>1
  <2> QED BY <2>2, <2>4, <2>5, <2>6, <2>7 DEF IInv
<1> QED BY <1>3, <1>4

\* A tool completes with results that contain an error only if the tool
\* reported it, and then nothing else.
LEMMA CompletesKeeps ==
  ASSUME ExecutorAssumption, IInv, NEW t \in Tools, status[t] = "executing",
         NEW results \in Seq(Results),
         (\E i \in 1..Len(results) : results[i] = "error") => Len(results) = 1,
         Completes(t, results), UNCHANGED <<kind, progress, errored, discarded,
         aborted, inProgress, pc, own, race, emitted>>
  PROVE  IInv'
<1>1. /\ outcome' = [outcome EXCEPT ![t] = results]
      /\ status' = [status EXCEPT ![t] = "completed"]
      /\ passes' = passes \cup {1}
      /\ raceWon' \in BOOLEAN /\ context' \in {context, Append(context, t)}
  BY DEF Completes, IInv, TypeOK
<1>2. TypeOK /\ StatusInv(status) /\ status \in [Tools -> Statuses]
  BY DEF IInv, StatusInv
<1>3. LET next == [status EXCEPT ![t] = "completed"] IN
      /\ StatusInv(next)
      /\ \A p \in 1..(N + 1) : Behind(status, p) => Behind(next, p)
  BY <1>2, SettleKeeps
<1>4. StatusInv(status)'
  BY <1>1, <1>3, StatusInvPrimed
<1>5. \A p \in 1..(N + 1) : Behind(status, p) => Behind(status, p)'
  BY <1>1, <1>3 DEF Behind
<1>6. /\ status' \in [Tools -> Statuses]
      /\ \A q \in Tools : status'[q] = IF q = t THEN "completed" ELSE status[q]
  BY <1>1, <1>2 DEF Statuses
<1>7. /\ outcome' \in [Tools -> Seq(Results)]
      /\ \A q \in Tools : outcome'[q] = IF q = t THEN results ELSE outcome[q]
  BY <1>1, <1>2 DEF TypeOK, Results
<1>8. passes' \subseteq 1..(N + 1) /\ passes' # {}
  BY <1>1, <1>2 DEF TypeOK, ExecutorAssumption
<1>9. TypeOK'
  <2>1. context \in Seq(Tools)
    BY <1>2 DEF TypeOK
  <2>2. context' \in Seq(Tools)
    BY <1>1, <2>1, AppendProperties
  <2> QED BY <1>1, <1>2, <1>6, <1>7, <1>8, <2>2 DEF TypeOK, Statuses, Results
<1>10. ErrorReportedOnce'
  <2>1. ASSUME NEW q \in Tools, ThisToolErrored(q)' PROVE Len(outcome'[q]) = 1
    <3>1. CASE q = t
      BY <1>7, <2>1, <3>1 DEF ThisToolErrored
    <3>2. CASE q # t
      BY <1>7, <2>1, <3>2 DEF IInv, ErrorReportedOnce, ThisToolErrored
    <3> QED BY <3>1, <3>2
  <2> QED BY <2>1 DEF ErrorReportedOnce
<1>11. (\A p \in passes : Behind(status, p))'
  <2>1. Behind(status, 1)'
    BY DEF Behind, ExecutorAssumption, Tools
  <2>2. \A p \in passes : Behind(status, p)'
    BY <1>2, <1>5 DEF IInv, TypeOK
  <2> QED BY <1>1, <2>1, <2>2
<1>12. (pc = "pass" => Behind(status, own))'
  <2>1. pc = "pass" => Behind(status, own)'
    BY <1>2, <1>5 DEF IInv, TypeOK
  <2> QED BY <2>1 DEF Behind
<1>13. \A q \in Tools : status'[q] \in {"absent", "queued"} => outcome'[q] = << >>
  BY <1>6, <1>7 DEF IInv
<1> QED BY <1>4, <1>8, <1>9, <1>10, <1>11, <1>12, <1>13 DEF IInv

LEMMA CancelledKeeps ==
  ASSUME ExecutorAssumption, IInv, NEW t \in Tools, CancelledByUpdate(t)
  PROVE  IInv'
<1> DEFINE reason == AbortReason(t)
<1>1. /\ status[t] = "executing" /\ ~ThisToolErrored(t)
      /\ Completes(t, Append(outcome[t], reason))
      /\ UNCHANGED <<kind, progress, errored, discarded, aborted, inProgress,
                     pc, own, race, emitted>>
  BY DEF CancelledByUpdate, MayUpdate, consumerVars
<1>2. reason \in Synthetic
  BY AbortReasonType DEF CancelledByUpdate
<1> HIDE DEF reason
<1>3. outcome[t] \in Seq(Results)
  BY DEF IInv, TypeOK, Results
<1> DEFINE results == Append(outcome[t], reason)
<1>4. results \in Seq(Results)
  BY <1>2, <1>3 DEF Results
<1>5. ~ \E i \in 1..Len(results) : results[i] = "error"
  BY <1>1, <1>2, <1>3 DEF ThisToolErrored, Synthetic
<1> HIDE DEF results
<1>6. Completes(t, results)
  BY <1>1 DEF results
<1> QED BY <1>1, <1>4, <1>5, <1>6, CompletesKeeps

LEMMA EndsKeeps ==
  ASSUME ExecutorAssumption, IInv, NEW t \in Tools, Ends(t)
  PROVE  IInv'
<1>1. /\ status[t] = "executing" /\ Completes(t, outcome[t])
      /\ UNCHANGED <<kind, progress, errored, discarded, aborted, inProgress,
                     pc, own, race, emitted>>
  BY DEF Ends, MayUpdate, consumerVars
<1>2. outcome[t] \in Seq(Results)
  BY DEF IInv, TypeOK, Results
<1>3. (\E i \in 1..Len(outcome[t]) : outcome[t][i] = "error") => Len(outcome[t]) = 1
  BY DEF IInv, ErrorReportedOnce, ThisToolErrored
<1> QED BY <1>1, <1>2, <1>3, CompletesKeeps

LEMMA ProgressKeeps ==
  ASSUME IInv, NEW t \in Tools, Progress(t)
  PROVE  IInv'
<1>1. UNCHANGED <<kind, status, outcome, passes, pc, own>>
  BY DEF Progress, execVars, consumerVars
<1>2. TypeOK'
  BY DEF IInv, Progress, execVars, consumerVars, TypeOK
<1> QED BY <1>1, <1>2, QuietStep

LEMMA ResultKeeps ==
  ASSUME IInv, NEW t \in Tools, NEW res \in {"ok", "error"}, Result(t, res)
  PROVE  IInv'
<1>1. /\ status[t] = "executing"
      /\ outcome' = [outcome EXCEPT ![t] = <<res>>]
      /\ UNCHANGED <<kind, status, passes, pc, own>>
  BY DEF Result, MayUpdate, consumerVars
<1>2. TypeOK'
  <2>1. <<res>> \in Seq({"ok", "error"} \cup Synthetic)
    OBVIOUS
  <2>2. outcome' \in [Tools -> Seq({"ok", "error"} \cup Synthetic)]
    BY <1>1, <2>1 DEF IInv, TypeOK
  <2>3. errored' \in BOOLEAN
    BY DEF IInv, Result, TypeOK
  <2> QED BY <1>1, <2>2, <2>3 DEF IInv, Result, consumerVars, TypeOK
<1>3. \A q \in Tools : outcome'[q] = IF q = t THEN <<res>> ELSE outcome[q]
  BY <1>1 DEF IInv, TypeOK
<1>4. StatusInv(status)'
  BY <1>1, StatusInvPrimed DEF IInv
<1>5. ErrorReportedOnce'
  <2>1. ASSUME NEW q \in Tools, ThisToolErrored(q)' PROVE Len(outcome'[q]) = 1
    <3>1. CASE q = t
      BY <1>3, <3>1
    <3>2. CASE q # t
      BY <1>3, <2>1, <3>2 DEF IInv, ErrorReportedOnce, ThisToolErrored
    <3> QED BY <3>1, <3>2
  <2> QED BY <2>1 DEF ErrorReportedOnce
<1>6. \A q \in Tools : status'[q] \in {"absent", "queued"} => outcome'[q] = << >>
  BY <1>1, <1>3 DEF IInv
<1>7. ((\E q \in Tools : status[q] = "queued") => Running(status) \/ passes # {})'
  BY <1>1 DEF IInv, Running
<1> QED BY <1>1, <1>2, <1>4, <1>5, <1>6, <1>7 DEF IInv, Behind

\* Yielding a message of getCompletedResults(), from wherever.
LEMMA YieldKeeps ==
  ASSUME ExecutorAssumption, IInv, NEW p \in 1..(N + 1), Yields(p) # {}, YieldNext(p),
         UNCHANGED <<kind, outcome, errored, discarded, aborted, context, passes,
                     race, raceWon>>,
         inProgress' \subseteq Tools, pc' \in {"taking", "yielding"}
  PROVE  IInv'
<1> DEFINE t == Min(Yields(p))
<1>1. t \in Yields(p) /\ t \in Tools
  <2>1. IsFiniteSet(Tools) /\ Tools \subseteq Int
    BY FS_Interval DEF ExecutorAssumption, Tools
  <2>2. Yields(p) \in SUBSET Tools
    BY DEF Yields
  <2> QED BY <2>1, <2>2, MinIsLeast
<1>2. TypeOK /\ StatusInv(status) /\ status \in [Tools -> Statuses]
  BY DEF IInv, StatusInv
<1>3. CASE progress[t]
  <2>1. progress' = [progress EXCEPT ![t] = FALSE] /\ own' = t /\ UNCHANGED <<status, emitted>>
    BY <1>3 DEF YieldNext
  <2> HIDE DEF t
  <2>2. own' \in 1..(N + 1)
    BY <1>1, <2>1 DEF Tools, ExecutorAssumption
  <2>3. TypeOK'
    BY <1>1, <1>2, <2>1, <2>2 DEF TypeOK
  <2> QED BY <2>1, <2>3, QuietStep
<1>4. CASE ~progress[t]
  <2>1. /\ status' = [status EXCEPT ![t] = "yielded"]
        /\ emitted' = Append(emitted, t)
        /\ own' = t + 1 /\ UNCHANGED progress
    BY <1>4 DEF YieldNext
  <2>2. status[t] = "completed"
    BY <1>1, <1>4 DEF Yields
  <2> HIDE DEF t
  <2>3. LET next == [status EXCEPT ![t] = "yielded"] IN
        /\ StatusInv(next)
        /\ \A q \in 1..(N + 1) : Behind(status, q) => Behind(next, q)
    BY <1>1, <1>2, <2>2, SettleKeeps
  <2>4. StatusInv(status)'
    BY <2>1, <2>3, StatusInvPrimed
  <2>5. (\A q \in passes : Behind(status, q))'
    BY <1>2, <2>1, <2>3 DEF IInv, TypeOK, Behind
  <2>6. \A q \in Tools : status'[q] = IF q = t THEN "yielded" ELSE status[q]
    BY <1>1, <1>2, <2>1
  <2>7. TypeOK'
    <3>1. own' \in 1..(N + 1)
      BY <1>1, <2>1 DEF Tools, ExecutorAssumption
    <3>2. emitted' \in Seq(Tools)
      BY <1>1, <1>2, <2>1 DEF TypeOK
    <3>3. status' \in [Tools -> Statuses]
      BY <1>1, <1>2, <2>1 DEF Statuses
    <3> QED BY <1>2, <2>1, <3>1, <3>2, <3>3 DEF TypeOK, Statuses
  <2>8. ErrorReportedOnce'
    BY DEF IInv, ErrorReportedOnce, ThisToolErrored
  <2>9. ((\E q \in Tools : status[q] = "queued") => Running(status) \/ passes # {})'
    <3>1. Running(status) => Running(status)'
      BY <2>2, <2>6 DEF Running
    <3>2. (\E q \in Tools : status'[q] = "queued") => \E q \in Tools : status[q] = "queued"
      BY <2>6
    <3> QED BY <3>1, <3>2 DEF IInv
  <2>10. \A q \in Tools : status'[q] \in {"absent", "queued"} => outcome'[q] = << >>
    BY <2>6 DEF IInv
  <2> QED BY <2>4, <2>5, <2>7, <2>8, <2>9, <2>10 DEF IInv
<1> QED BY <1>3, <1>4

\* The steps of the consumer, the user and the stream that touch no tool.
LEMMA QuietKeeps ==
  ASSUME ExecutorAssumption, IInv,
         \/ \E reason \in {"interrupt", "other"} : Abort(reason)
         \/ Discard \/ StreamEnds \/ CheckUnfinished \/ CallerResumes
         \/ CollectEnds \/ WakesUp \/ Finish
  PROVE  IInv'
<1>1. TypeOK /\ 1 \in 1..(N + 1)
  BY DEF IInv, ExecutorAssumption
<1>2. ASSUME NEW reason \in {"interrupt", "other"}, Abort(reason) PROVE IInv'
  <2>1. UNCHANGED <<kind, status, outcome, passes, pc, own>>
    BY <1>2 DEF Abort, execVars, consumerVars
  <2>2. TypeOK'
    BY <1>1, <1>2 DEF Abort, execVars, consumerVars, TypeOK
  <2> QED BY <2>1, <2>2, QuietStep
<1>3. CASE Discard
  BY <1>1, <1>3, QuietStep DEF Discard, execVars, TypeOK
<1>4. CASE StreamEnds
  BY <1>1, <1>4, QuietStep DEF StreamEnds, execVars, TypeOK
<1>5. CASE CheckUnfinished
  BY <1>1, <1>5, QuietStep DEF CheckUnfinished, execVars, TypeOK
<1>6. CASE CallerResumes
  BY <1>1, <1>6, QuietStep DEF CallerResumes, MarkComplete, TypeOK
<1>7. CASE CollectEnds
  BY <1>1, <1>7, QuietStep DEF CollectEnds, execVars, TypeOK, InStatus
<1>8. CASE WakesUp
  BY <1>1, <1>8, QuietStep DEF WakesUp, execVars, TypeOK
<1>9. CASE Finish
  BY <1>1, <1>9, QuietStep DEF Finish, execVars, TypeOK
<1> QED BY <1>2, <1>3, <1>4, <1>5, <1>6, <1>7, <1>8, <1>9
-------------------------------------------------------------------------------
\* The invariant holds in every reachable state, whatever message the model
\* sends and however its tools, loops, errors and aborts interleave.
THEOREM Invariance == ExecutorAssumption => (Spec => []IInv)
<1> SUFFICES ASSUME ExecutorAssumption PROVE Spec => []IInv
  OBVIOUS
<1>1. Init => IInv
  BY InitOK
<1>2. IInv /\ [Next]_vars => IInv'
  <2> SUFFICES ASSUME IInv, [Next]_vars PROVE IInv'
    OBVIOUS
  <2>1. ASSUME NEW t \in Tools, AddTool(t) PROVE IInv'
    BY <2>1, AddToolKeeps
  <2>2. ASSUME NEW t \in Tools, Update(t) PROVE IInv'
    BY <2>2, CancelledKeeps, ProgressKeeps, EndsKeeps, ResultKeeps DEF Update
  <2>3. ASSUME NEW p \in passes, PassStep(p) PROVE IInv'
    BY <2>3, PassStepKeeps
  <2>4. CASE TakeCompleted
    <3>1. inProgress' \subseteq Tools /\ pc' = "taking"
      BY <2>4 DEF TakeCompleted, IInv, TypeOK
    <3>2. 1 \in 1..(N + 1)
      BY DEF ExecutorAssumption
    <3> QED BY <2>4, <3>1, <3>2, YieldKeeps DEF TakeCompleted
  <2>5. CASE Collect
    <3>1. inProgress' \subseteq Tools /\ own \in 1..(N + 1)
      BY <2>5 DEF Collect, IInv, TypeOK
    <3> QED BY <2>5, <3>1, YieldKeeps DEF Collect
  <2>6. CASE OwnPass
    BY <2>6, OwnPassKeeps
  <2>7. CASE \/ \E reason \in {"interrupt", "other"} : Abort(reason)
             \/ Discard \/ StreamEnds \/ CheckUnfinished \/ CallerResumes
             \/ CollectEnds \/ WakesUp \/ Finish
    BY <2>7, QuietKeeps
  <2>8. CASE TakeNext
    <3>1. inProgress' \subseteq Tools /\ own \in 1..(N + 1) /\ pc = "taking"
      BY <2>8 DEF TakeNext, MarkComplete, IInv, TypeOK
    <3>2. CASE Yields(own) # {}
      BY <2>8, <3>1, <3>2, YieldKeeps DEF TakeNext
    <3>3. CASE Yields(own) = {}
      <4>1. TypeOK'
        BY <2>8, <3>1, <3>3 DEF TakeNext, IInv, TypeOK
      <4> QED BY <2>8, <3>3, <4>1, QuietStep DEF TakeNext
    <3> QED BY <3>2, <3>3
  <2>9. CASE UNCHANGED vars
    <3>1. TypeOK'
      BY <2>9 DEF vars, IInv, TypeOK
    <3> QED BY <2>9, <3>1, QuietStep DEF vars
  <2> QED BY <2>1, <2>2, <2>3, <2>4, <2>5, <2>6, <2>7, <2>8, <2>9 DEF Next, ConsumerStep
<1> QED BY <1>1, <1>2, PTL DEF Spec

\* Every reachable state is well typed.
THEOREM TypeCorrect == ExecutorAssumption => (Spec => []TypeOK)
<1>1. IInv => TypeOK
  BY DEF IInv
<1> QED BY <1>1, Invariance, PTL

\* A tool that is not concurrency safe runs alone (canExecuteTool()).
THEOREM ExclusiveAccess == ExecutorAssumption => (Spec => []Exclusive)
<1>1. IInv => Exclusive
  BY DEF IInv, StatusInv, Exclusive, Barrier, InStatus
<1> QED BY <1>1, Invariance, PTL

\* No tool overtakes a queued one, however many processQueue() loops walk the
\* list at the same time.
THEOREM StartingOrder == ExecutorAssumption => (Spec => []StartedInOrder)
<1>1. IInv => StartedInOrder
  BY DEF IInv, StatusInv, StartedInOrder
<1> QED BY <1>1, Invariance, PTL

\* A queued tool always has a running tool or a loop to wait for.
THEOREM NoForgottenTool == ExecutorAssumption => (Spec => []QueueIsWatched)
<1>1. IInv => QueueIsWatched
  BY DEF IInv, Running, QueueIsWatched, InStatus
<1> QED BY <1>1, Invariance, PTL

\* The tool that caused a cancellation is not answered twice.
THEOREM SingleErrorReport == ExecutorAssumption => (Spec => []ErrorReportedOnce)
<1>1. IInv => ErrorReportedOnce
  BY DEF IInv
<1> QED BY <1>1, Invariance, PTL
-------------------------------------------------------------------------------
(* The second invariant: what has been answered, and in which order.  It is *)
(* preserved in the states of the first one.                                *)

Unknown(t) == kind[t] \in UnknownKinds

\* What getCompletedResults() has left to do, or done, about tool t.
Answered(t) ==
  /\ status[t] \in {"completed", "yielded"} => outcome[t] # << >>
  /\ progress[t] => status[t] \in {"executing", "completed"}
  /\ Unknown(t) => status[t] \in {"absent", "completed", "yielded"} /\ ~progress[t]
  /\ pc \in {"last", "done"} => status[t] \in {"absent", "yielded"}
  /\ t \in inProgress =>
       /\ status[t] \notin {"absent", "queued"}
       /\ pc \notin {"taking", "yielding"} => status[t] # "yielded"

\* One of the first q results is the error of a tool between t and p that does
\* not exist.
PassedBy(s, t, p, q) ==
  \E k \in 1..q : Unknown(s[k]) /\ t < s[k] /\ s[k] < p

\* A generator that is under way.
Taking == pc \in {"taking", "yielding", "collect"}

\* The unsafe tools whose results are still to come: the generator has passed
\* them by only to yield such errors, no existing tool behind one was answered
\* otherwise, and no context modifier of one behind them was applied.
ToCome ==
  /\ Taking => \A t \in Tools :
       ~Safe(t) /\ t < own /\ status[t] # "yielded" => PassedBy(emitted, t, own, Len(emitted))
  /\ \A t \in Tools : ~Safe(t) /\ status[t] # "yielded" =>
       \A m \in 1..Len(emitted) :
         ~Unknown(emitted[m]) /\ t < emitted[m] => PassedBy(emitted, t, emitted[m], m - 1)
  /\ \A t \in Tools : ~Safe(t) /\ status[t] \notin {"completed", "yielded"} =>
       \A m \in 1..Len(context) : context[m] < t

Emission ==
  /\ IsInjective(emitted) /\ ToSet(emitted) = InStatus("yielded")
  /\ ToCome
  /\ UnsafeInOrder

JInv == (\A t \in Tools : Answered(t)) /\ Emission
-------------------------------------------------------------------------------
\* The order is a matter of the results and modifiers there are, and of the
\* tools that are not finished: a step that only starts tools, or finishes some
\* that apply no modifier, leaves it as it is.
LEMMA EmissionStands ==
  ASSUME Emission, UNCHANGED <<kind, emitted, context>>,
         \A t \in Tools : /\ status'[t] = "yielded" <=> status[t] = "yielded"
                          /\ status[t] = "completed" => status'[t] = "completed",
         Taking' => (Taking /\ own' = own) \/ (own' = 1 /\ ExecutorAssumption)
  PROVE  Emission'
<1>1. IsInjective(emitted)' /\ (ToSet(emitted) = InStatus("yielded"))'
  BY DEF Emission, InStatus
<1>2. \A t, p, q : PassedBy(emitted, t, p, q) <=> PassedBy(emitted, t, p, q)'
  BY DEF PassedBy, Unknown
<1>3. ToCome'
  <2>1. (Taking => \A t \in Tools : ~Safe(t) /\ t < own /\ status[t] # "yielded"
           => PassedBy(emitted, t, own, Len(emitted)))'
    <3>1. CASE Taking /\ own' = own
      BY <1>2, <3>1 DEF Emission, ToCome, Safe, PassedBy
    <3>2. CASE own' = 1 /\ ExecutorAssumption
      BY <3>2 DEF Tools, ExecutorAssumption
    <3> QED BY <3>1, <3>2
  <2>2. (\A t \in Tools : ~Safe(t) /\ status[t] # "yielded" =>
           \A m \in 1..Len(emitted) :
             ~Unknown(emitted[m]) /\ t < emitted[m] => PassedBy(emitted, t, emitted[m], m - 1))'
    BY <1>2 DEF Emission, ToCome, Safe, Unknown, PassedBy
  <2>3. (\A t \in Tools : ~Safe(t) /\ status[t] \notin {"completed", "yielded"} =>
           \A m \in 1..Len(context) : context[m] < t)'
    BY DEF Emission, ToCome, Safe
  <2> QED BY <2>1, <2>2, <2>3 DEF ToCome
<1>4. UnsafeInOrder'
  BY DEF Emission, UnsafeInOrder, Overtakes, Safe
<1> QED BY <1>1, <1>3, <1>4 DEF Emission

\* A tool that a step leaves alone.
LEMMA AnsweredStands ==
  ASSUME NEW t \in Tools, Answered(t), UNCHANGED kind,
         status'[t] = status[t], outcome'[t] = outcome[t],
         progress'[t] = progress[t], t \in inProgress' => t \in inProgress,
         pc' = pc
  PROVE  Answered(t)'
BY DEF Answered, Unknown

\* executeTool(), for statuses st that differ from the state's by a tool just
\* queued.
LEMMA ExecuteAnswers ==
  ASSUME JInv, TypeOK, NEW st \in [Tools -> Statuses],
         \A q \in Tools : \/ st[q] = status[q]
                          \/ /\ status[q] = "absent" /\ st[q] = "queued"
                             /\ ~Unknown(q),
         NEW u \in Tools, st[u] = "queued", Execute(st, u), pc \notin {"last", "done"},
         UNCHANGED <<kind, progress, context, emitted, pc>>, pc = "pass" \/ UNCHANGED own
  PROVE  JInv'
<1>1. /\ inProgress' = inProgress \cup {u}
      /\ \A q \in Tools : q # u => status'[q] = st[q] /\ outcome'[q] = outcome[q]
      /\ status'[u] \in {"executing", "completed"}
      /\ status'[u] = "completed" => outcome'[u] # << >>
  <2>1. outcome \in [Tools -> Seq(Results)]
    BY DEF TypeOK, Results
  <2>2. CASE AbortReason(u) = "none"
    BY <2>2 DEF Execute
  <2>3. CASE AbortReason(u) # "none"
    <3> DEFINE results == Append(outcome[u], AbortReason(u))
    <3>1. results # << >>
      <4>1. AbortReason(u) \in Results
        BY <2>3, AbortReasonType DEF Results
      <4> QED BY <2>1, <4>1, AppendProperties, EmptySeq
    <3>2. /\ inProgress' = inProgress \cup {u}
          /\ status' = [st EXCEPT ![u] = "completed"]
          /\ outcome' = [outcome EXCEPT ![u] = results]
      BY <2>3 DEF Execute
    <3> HIDE DEF results
    <3> QED BY <2>1, <3>1, <3>2
  <2> QED BY <2>2, <2>3
<1>2. ~Unknown(u)
  BY DEF JInv, Answered
<1>3. ASSUME NEW q \in Tools PROVE Answered(q)'
  <2>1. Answered(q)
    BY DEF JInv
  <2>2. CASE q = u
    BY <1>1, <1>2, <2>2 DEF Answered, Unknown
  <2>3. CASE q # u
    BY <1>1, <2>1, <2>3 DEF Answered, Unknown
  <2> QED BY <2>2, <2>3
<1>4. Emission'
  <2>1. \A q \in Tools : /\ status'[q] = "yielded" <=> status[q] = "yielded"
                         /\ status[q] = "completed" => status'[q] = "completed"
    BY <1>1
  <2>2. Taking' => Taking /\ own' = own
    BY DEF Taking
  <2> QED BY <2>1, <2>2, EmissionStands DEF JInv
<1> QED BY <1>3, <1>4 DEF JInv

LEMMA AddToolAnswers ==
  ASSUME ExecutorAssumption, IInv, JInv, NEW t \in Tools, AddTool(t)
  PROVE  JInv'
<1>1. /\ status[t] = "absent" /\ pc = "streaming"
      /\ UNCHANGED <<kind, progress, context, emitted, pc, own>>
  BY DEF AddTool
<1>2. TypeOK /\ status \in [Tools -> Statuses]
  BY DEF IInv, StatusInv
<1>3. ~progress[t] /\ t \notin inProgress
  BY <1>1 DEF JInv, Answered
<1>4. ASSUME NEW s \in {"queued", "completed"}, s = "completed" <=> Unknown(t),
             status' = [status EXCEPT ![t] = s], UNCHANGED inProgress,
             \A q \in Tools : q # t => outcome'[q] = outcome[q],
             s = "completed" => outcome'[t] # << >>
      PROVE  JInv'
  <2>1. \A q \in Tools : status'[q] = IF q = t THEN s ELSE status[q]
    BY <1>2, <1>4
  <2>2. ASSUME NEW q \in Tools PROVE Answered(q)'
    <3>1. CASE q = t
      BY <1>1, <1>3, <1>4, <2>1, <3>1 DEF Answered, Unknown
    <3>2. CASE q # t
      BY <1>1, <1>4, <2>1, <3>2, AnsweredStands DEF JInv
    <3> QED BY <3>1, <3>2
  <2>3. Emission'
    <3>1. ~Taking'
      BY <1>1 DEF Taking
    <3>2. \A q \in Tools : /\ status'[q] = "yielded" <=> status[q] = "yielded"
                           /\ status[q] = "completed" => status'[q] = "completed"
      BY <1>1, <1>4, <2>1
    <3> QED BY <1>1, <3>1, <3>2, EmissionStands DEF JInv
  <2> QED BY <2>2, <2>3 DEF JInv
<1>5. CASE Unknown(t)
  <2>1. /\ status' = [status EXCEPT ![t] = "completed"]
        /\ outcome' = [outcome EXCEPT ![t] = <<"error">>] /\ UNCHANGED inProgress
    BY <1>5 DEF AddTool, Unknown
  <2>2. \A q \in Tools : outcome'[q] = IF q = t THEN <<"error">> ELSE outcome[q]
    BY <1>2, <2>1 DEF TypeOK
  <2> QED BY <1>4, <1>5, <2>1, <2>2
<1>6. CASE ~Unknown(t)
  <2> DEFINE st == [status EXCEPT ![t] = "queued"]
  <2> DEFINE u == Startable(st, 1)
  <2>1. CASE u = 0
    <3>1. status' = st /\ UNCHANGED <<outcome, inProgress>>
      BY <1>6, <2>1 DEF AddTool, Unknown
    <3> QED BY <1>4, <1>6, <3>1
  <2>2. CASE u # 0
    <3>1. Execute(st, u)
      BY <1>6, <2>2 DEF AddTool, Unknown
    <3>2. st \in [Tools -> Statuses] /\ 1 \in 1..(N + 1)
      BY <1>2 DEF Statuses, ExecutorAssumption
    <3>3. u \in Tools /\ st[u] = "queued"
      BY <2>2, <3>2, StartableIsFirst
    <3>4. \A q \in Tools : \/ st[q] = status[q]
                           \/ /\ status[q] = "absent" /\ st[q] = "queued"
                              /\ ~Unknown(q)
      BY <1>1, <1>2, <1>6
    <3> HIDE DEF st, u
    <3> QED BY <1>1, <1>2, <3>1, <3>2, <3>3, <3>4, ExecuteAnswers
  <2> QED BY <2>1, <2>2
<1> QED BY <1>5, <1>6

\* Steps that touch no tool and stay where they are, or start a generator.
LEMMA StillAnswers ==
  ASSUME JInv, UNCHANGED <<kind, status, outcome, progress, inProgress, context, emitted>>,
         \/ UNCHANGED <<pc, own>>
         \/ /\ pc \notin {"taking", "yielding"}
            /\ pc' \notin {"taking", "yielding", "collect"} \/ (own' = 1 /\ ExecutorAssumption)
            /\ pc' \in {"last", "done"} =>
                 pc \in {"last", "done"}
                 \/ \A t \in Tools : status[t] \in {"absent", "yielded"}
  PROVE  JInv'
<1>1. ASSUME NEW t \in Tools PROVE Answered(t)'
  BY DEF JInv, Answered, Unknown
<1>2. Emission'
  BY EmissionStands DEF JInv, Taking
<1> QED BY <1>1, <1>2 DEF JInv

LEMMA LoopAnswers ==
  ASSUME ExecutorAssumption, IInv, JInv,
         OwnPass \/ \E p \in passes : PassStep(p)
  PROVE  JInv'
<1>1. TypeOK /\ status \in [Tools -> Statuses]
  BY DEF IInv, StatusInv
<1>2. ASSUME NEW p \in 1..(N + 1), Startable(status, p) # 0,
             Execute(status, Startable(status, p)),
             UNCHANGED <<kind, progress, context, emitted, pc>>,
             pc = "pass" \/ UNCHANGED own
      PROVE  JInv'
  <2> DEFINE u == Startable(status, p)
  <2>1. u \in Tools /\ status[u] = "queued"
    BY <1>1, <1>2, StartableIsFirst
  <2>2. pc \notin {"last", "done"}
    BY <2>1 DEF JInv, Answered
  <2>3. Execute(status, u)
    BY <1>2
  <2> HIDE DEF u
  <2> QED BY <1>1, <1>2, <2>1, <2>2, <2>3, ExecuteAnswers
<1>3. CASE OwnPass
  <2>1. /\ UNCHANGED <<kind, progress, context, emitted>> /\ pc = "pass"
        /\ own \in 1..(N + 1)
    BY <1>1, <1>3 DEF OwnPass, TypeOK
  <2>2. CASE Startable(status, own) = 0
    <3>1. pc' = "collect" /\ own' = 1 /\ UNCHANGED <<status, outcome, inProgress>>
      BY <1>3, <2>2 DEF OwnPass, execVars
    <3> QED BY <2>1, <3>1, StillAnswers
  <2>3. CASE Startable(status, own) # 0
    <3>1. Execute(status, Startable(status, own)) /\ UNCHANGED pc
      BY <1>3, <2>3 DEF OwnPass
    <3> QED BY <1>2, <2>1, <2>3, <3>1
  <2> QED BY <2>2, <2>3
<1>4. ASSUME NEW p \in passes, PassStep(p) PROVE JInv'
  <2>1. UNCHANGED <<kind, progress, context, emitted, pc, own>> /\ p \in 1..(N + 1)
    BY <1>1, <1>4 DEF PassStep, consumerVars, TypeOK
  <2>2. CASE Startable(status, p) = 0
    <3>1. UNCHANGED <<status, outcome, inProgress>>
      BY <1>4, <2>2 DEF PassStep, execVars
    <3> QED BY <2>1, <3>1, StillAnswers
  <2>3. CASE Startable(status, p) # 0
    <3>1. Execute(status, Startable(status, p))
      BY <1>4, <2>3 DEF PassStep
    <3> QED BY <1>2, <2>1, <2>3, <3>1
  <2> QED BY <2>2, <2>3
<1> QED BY <1>3, <1>4

\* A tool that completes runs: so every unsafe tool that is neither completed nor
\* yielded comes after it if its modifier is applied, and it comes after all those
\* whose modifiers were.
LEMMA CompletesAnswers ==
  ASSUME ExecutorAssumption, IInv, JInv, NEW t \in Tools, status[t] = "executing",
         NEW results \in Seq(Results), results # << >>, Completes(t, results),
         UNCHANGED <<kind, progress, inProgress, pc, own, emitted>>
  PROVE  JInv'
<1>1. /\ TypeOK /\ StatusInv(status) /\ status \in [Tools -> Statuses]
      /\ context \in Seq(Tools)
  BY DEF IInv, StatusInv, TypeOK
<1>2. \A q \in Tools : /\ status'[q] = IF q = t THEN "completed" ELSE status[q]
                       /\ outcome'[q] = IF q = t THEN results ELSE outcome[q]
  BY <1>1 DEF Completes, TypeOK
<1>3. ~Unknown(t) /\ pc \notin {"last", "done"}
  BY DEF JInv, Answered
<1>4. ASSUME NEW q \in Tools PROVE Answered(q)'
  <2>1. CASE q = t
    BY <1>2, <1>3, <2>1 DEF JInv, Answered, Unknown
  <2>2. CASE q # t
    BY <1>2, <2>2, AnsweredStands DEF JInv
  <2> QED BY <2>1, <2>2
<1>5. \A q \in Tools : /\ status'[q] = "yielded" <=> status[q] = "yielded"
                       /\ status[q] = "completed" => status'[q] = "completed"
  BY <1>2
<1>6. CASE UNCHANGED context
  <2>1. Emission'
    BY <1>5, <1>6, EmissionStands DEF JInv, Taking
  <2> QED BY <1>4, <2>1 DEF JInv
<1>7. CASE ~Safe(t) /\ context' = Append(context, t)
  \* The order of the results is not concerned.
  <2>1. /\ IsInjective(emitted)' /\ (ToSet(emitted) = InStatus("yielded"))'
        /\ (Taking => \A q \in Tools : ~Safe(q) /\ q < own /\ status[q] # "yielded"
              => PassedBy(emitted, q, own, Len(emitted)))'
        /\ (\A q \in Tools : ~Safe(q) /\ status[q] # "yielded" =>
              \A m \in 1..Len(emitted) :
                ~Unknown(emitted[m]) /\ q < emitted[m] => PassedBy(emitted, q, emitted[m], m - 1))'
    <3>1. IsInjective(emitted)' /\ (ToSet(emitted) = InStatus("yielded"))'
      BY <1>5 DEF JInv, Emission, InStatus
    <3>2. (Taking => \A q \in Tools : ~Safe(q) /\ q < own /\ status[q] # "yielded"
             => PassedBy(emitted, q, own, Len(emitted)))'
      BY <1>5 DEF JInv, Emission, ToCome, Taking, Safe, PassedBy, Unknown
    <3>3. (\A q \in Tools : ~Safe(q) /\ status[q] # "yielded" =>
             \A m \in 1..Len(emitted) :
               ~Unknown(emitted[m]) /\ q < emitted[m] => PassedBy(emitted, q, emitted[m], m - 1))'
      BY <1>5 DEF JInv, Emission, ToCome, Safe, PassedBy, Unknown
    <3> QED BY <3>1, <3>2, <3>3
  <2>2. \A q \in Tools : q \in Int
    BY DEF Tools, ExecutorAssumption
  <2>3. ASSUME NEW q \in Tools, ~Safe(q), status'[q] \notin {"completed", "yielded"}
        PROVE  t < q
    <3>1. q # t /\ status[q] \in {"absent", "queued", "executing"}
      BY <1>1, <1>2, <2>3 DEF Statuses
    <3>2. status[q] # "executing"
      BY <1>1, <2>3, <3>1 DEF StatusInv
    <3>3. ~(q < t)
      <4>1. CASE status[q] = "queued"
        BY <1>1, <1>3, <4>1 DEF StatusInv, Unknown
      <4>2. CASE status[q] = "absent"
        BY <1>1, <4>2 DEF StatusInv
      <4> QED BY <3>1, <3>2, <4>1, <4>2
    <3> QED BY <2>2, <3>1, <3>3
  <2>4. \A m \in 1..Len(context) : context[m] < t
    BY <1>7 DEF JInv, Emission, ToCome
  <2>5. /\ Len(context) \in Nat /\ Len(context') = Len(context) + 1
        /\ \A m \in 1..Len(context) : context'[m] = context[m]
        /\ context'[Len(context) + 1] = t
    BY <1>1, <1>7, AppendProperties, LenProperties
  <2>6. (\A q \in Tools : ~Safe(q) /\ status[q] \notin {"completed", "yielded"} =>
           \A m \in 1..Len(context) : context[m] < q)'
    <3>1. SUFFICES ASSUME NEW q \in Tools, ~Safe(q),
                          status'[q] \notin {"completed", "yielded"},
                          NEW m \in 1..(Len(context) + 1)
                   PROVE  context'[m] < q
      BY <2>5 DEF Safe
    <3>2. status[q] \notin {"completed", "yielded"}
      BY <1>5, <3>1
    <3>3. CASE m \in 1..Len(context)
      BY <2>5, <3>1, <3>2, <3>3 DEF JInv, Emission, ToCome
    <3>4. CASE m = Len(context) + 1
      BY <2>3, <2>5, <3>1, <3>4
    <3> QED BY <2>5, <3>3, <3>4
  <2>7. UnsafeInOrder'
    <3>1. (\A m, n \in 1..Len(emitted) : Overtakes(m, n) =>
             \E k \in 1..(m - 1) : /\ kind[emitted[k]] \in UnknownKinds
                                   /\ emitted[n] < emitted[k] /\ emitted[k] < emitted[m])'
      BY DEF JInv, Emission, UnsafeInOrder, Overtakes, Safe
    <3>2. ASSUME NEW m \in 1..Len(context'), NEW n \in 1..Len(context'), m < n
          PROVE  context'[m] < context'[n]
      <4>1. m \in 1..Len(context)
        BY <2>5, <3>2
      <4>2. CASE n \in 1..Len(context)
        BY <2>5, <3>2, <4>1, <4>2 DEF JInv, Emission, UnsafeInOrder
      <4>3. CASE n = Len(context) + 1
        BY <2>4, <2>5, <4>1, <4>3
      <4> QED BY <2>5, <4>2, <4>3
    <3> QED BY <3>1, <3>2 DEF UnsafeInOrder
  <2> QED BY <1>4, <2>1, <2>6, <2>7 DEF JInv, Emission, ToCome
<1> QED BY <1>6, <1>7 DEF Completes

LEMMA UpdateAnswers ==
  ASSUME ExecutorAssumption, IInv, JInv, NEW t \in Tools, Update(t)
  PROVE  JInv'
<1>1. outcome[t] \in Seq(Results) /\ outcome \in [Tools -> Seq(Results)]
      /\ progress \in [Tools -> BOOLEAN]
  BY DEF IInv, TypeOK, Results
<1>2. CASE CancelledByUpdate(t)
  <2> DEFINE results == Append(outcome[t], AbortReason(t))
  <2>1. results \in Seq(Results) /\ results # << >>
    <3>1. AbortReason(t) \in Results
      BY <1>2, AbortReasonType DEF CancelledByUpdate, Results
    <3> QED BY <1>1, <3>1, AppendProperties, EmptySeq
  <2>2. /\ status[t] = "executing" /\ Completes(t, results)
        /\ UNCHANGED <<kind, progress, inProgress, pc, own, emitted>>
    BY <1>2 DEF CancelledByUpdate, MayUpdate, consumerVars
  <2> HIDE DEF results
  <2> QED BY <2>1, <2>2, CompletesAnswers
<1>3. CASE Ends(t)
  BY <1>1, <1>3, CompletesAnswers DEF Ends, MayUpdate, HasResult, consumerVars
<1>4. CASE Progress(t)
  <2>1. /\ status[t] = "executing" /\ progress' = [progress EXCEPT ![t] = TRUE]
        /\ UNCHANGED <<kind, status, outcome, inProgress, context, emitted, pc, own>>
    BY <1>4 DEF Progress, MayUpdate, execVars, consumerVars
  <2>2. ASSUME NEW q \in Tools PROVE Answered(q)'
    <3>1. CASE q = t
      BY <2>1, <3>1 DEF JInv, Answered, Unknown
    <3>2. CASE q # t
      BY <1>1, <2>1, <3>2, AnsweredStands DEF JInv
    <3> QED BY <3>1, <3>2
  <2>3. Emission'
    BY <2>1, EmissionStands DEF JInv, Taking
  <2> QED BY <2>2, <2>3 DEF JInv
<1>5. ASSUME NEW res \in {"ok", "error"}, Result(t, res) PROVE JInv'
  <2>1. /\ outcome' = [outcome EXCEPT ![t] = <<res>>]
        /\ UNCHANGED <<kind, status, progress, inProgress, context, emitted, pc, own>>
    BY <1>5 DEF Result, consumerVars
  <2>2. ASSUME NEW q \in Tools PROVE Answered(q)'
    <3>1. CASE q = t
      BY <1>1, <2>1, <3>1 DEF JInv, Answered, Unknown
    <3>2. CASE q # t
      BY <1>1, <2>1, <3>2, AnsweredStands DEF JInv
    <3> QED BY <3>1, <3>2
  <2>3. Emission'
    BY <2>1, EmissionStands DEF JInv, Taking
  <2> QED BY <2>2, <2>3 DEF JInv
<1> QED BY <1>2, <1>3, <1>4, <1>5 DEF Update

\* The tool that a generator at p yields for, and why it may pass an unsafe tool
\* by: that one is still queued, so only the error of a tool that does not exist
\* can be there behind it.
LEMMA YieldedTool ==
  ASSUME ExecutorAssumption, IInv, JInv, NEW p \in 1..(N + 1), Yields(p) # {}
  PROVE  LET t == Min(Yields(p)) IN
         /\ t \in Tools /\ p <= t /\ (progress[t] \/ status[t] = "completed")
         /\ \A u \in Tools : ~Safe(u) /\ p <= u /\ u < t /\ status[u] # "yielded"
              => Unknown(t) /\ ~progress[t] /\ status[t] = "completed"
<1> DEFINE t == Min(Yields(p))
<1>1. t \in Yields(p) /\ \A u \in Yields(p) : t <= u
  <2>1. IsFiniteSet(Tools) /\ Tools \subseteq Int
    BY FS_Interval DEF ExecutorAssumption, Tools
  <2>2. Yields(p) \in SUBSET Tools /\ Yields(p) \subseteq Int
    BY <2>1 DEF Yields
  <2> QED BY <2>1, <2>2, MinIsLeast
<1>2. \A u \in Tools : u \in Int
  BY DEF Tools, ExecutorAssumption
<1> HIDE DEF t
<1>3. /\ t \in Tools /\ p <= t /\ (progress[t] \/ status[t] = "completed")
      /\ \A v \in p..(t - 1) : ~Barrier(v)
  BY <1>1, <1>2 DEF Yields
<1>4. ASSUME NEW u \in Tools, ~Safe(u), p <= u, u < t, status[u] # "yielded"
      PROVE  Unknown(t) /\ ~progress[t] /\ status[t] = "completed"
  <2>1. status[u] # "completed"
    <3>1. u \notin Yields(p)
      BY <1>1, <1>2, <1>3, <1>4
    <3>2. \A v \in p..(u - 1) : v \in p..(t - 1)
      BY <1>2, <1>3, <1>4
    <3> QED BY <1>3, <1>4, <3>1, <3>2 DEF Yields
  <2>2. status[u] # "executing"
    <3>1. u \in p..(t - 1)
      BY <1>2, <1>3, <1>4
    <3> QED BY <1>3, <1>4, <3>1 DEF Barrier
  <2>3. status[t] \in {"executing", "completed"}
    BY <1>3 DEF JInv, Answered
  <2>4. status[u] = "queued"
    <3>1. status[u] # "absent"
      BY <1>3, <1>4, <2>3 DEF IInv, StatusInv
    <3> QED BY <1>4, <2>1, <2>2, <3>1 DEF IInv, StatusInv, Statuses
  <2>5. Unknown(t)
    BY <1>3, <1>4, <2>3, <2>4 DEF IInv, StatusInv, Unknown
  <2> QED BY <1>3, <2>3, <2>5 DEF JInv, Answered
<1> QED BY <1>3, <1>4 DEF t

\* A generator at p yields progress, or a result.
LEMMA YieldAnswers ==
  ASSUME ExecutorAssumption, IInv, JInv, NEW p \in 1..(N + 1), Yields(p) # {}, YieldNext(p),
         p = 1 \/ (p = own /\ Taking), UNCHANGED <<kind, outcome, context>>,
         inProgress' \subseteq inProgress, pc' \in {"taking", "yielding"}
  PROVE  JInv'
<1> DEFINE t == Min(Yields(p))
<1>1. /\ TypeOK /\ status \in [Tools -> Statuses] /\ progress \in [Tools -> BOOLEAN]
      /\ emitted \in Seq(Tools) /\ Len(emitted) \in Nat
      /\ \A m \in 1..Len(emitted) : emitted[m] \in Tools
  BY LenProperties, ElementOfSeq DEF IInv, StatusInv, TypeOK
<1>2. /\ t \in Tools /\ p <= t /\ (progress[t] \/ status[t] = "completed")
      /\ \A u \in Tools : ~Safe(u) /\ p <= u /\ u < t /\ status[u] # "yielded"
           => Unknown(t) /\ ~progress[t] /\ status[t] = "completed"
  BY YieldedTool
<1>3. \/ progress[t] /\ progress' = [progress EXCEPT ![t] = FALSE]
         /\ own' = t /\ UNCHANGED <<status, emitted>>
      \/ ~progress[t] /\ status' = [status EXCEPT ![t] = "yielded"]
         /\ emitted' = Append(emitted, t) /\ own' = t + 1 /\ UNCHANGED progress
  BY DEF YieldNext
<1> HIDE DEF t
<1>4. \A u \in Tools : u \in Int
  BY DEF Tools, ExecutorAssumption
\* The unsafe tools behind the generator have been passed by already.
<1>5. ASSUME NEW u \in Tools, ~Safe(u), u < p, status[u] # "yielded"
      PROVE  PassedBy(emitted, u, t, Len(emitted))
  <2>1. p = own /\ Taking
    BY <1>4, <1>5 DEF Tools
  <2>2. PassedBy(emitted, u, p, Len(emitted))
    BY <1>5, <2>1 DEF JInv, Emission, ToCome
  <2>3. PICK k \in 1..Len(emitted) : Unknown(emitted[k]) /\ u < emitted[k] /\ emitted[k] < p
    BY <2>2 DEF PassedBy
  <2>4. emitted[k] < t
    BY <1>1, <1>2, <1>4, <2>3
  <2> QED BY <2>3, <2>4 DEF PassedBy
<1>6. CASE progress[t]
  <2>1. /\ progress' = [progress EXCEPT ![t] = FALSE]
        /\ own' = t /\ UNCHANGED <<status, emitted>>
    BY <1>3, <1>6
  <2>2. ASSUME NEW q \in Tools PROVE Answered(q)'
    BY <1>1, <2>1 DEF JInv, Answered, Unknown
  <2>3. ASSUME NEW u \in Tools, ~Safe(u), u < t, status[u] # "yielded"
        PROVE  PassedBy(emitted, u, t, Len(emitted))
    BY <1>2, <1>4, <1>5, <1>6, <2>3
  <2>4. ToCome'
    <3>1. \A u, m, q : PassedBy(emitted, u, m, q) <=> PassedBy(emitted, u, m, q)'
      BY <2>1 DEF PassedBy, Unknown
    <3>2. (Taking => \A u \in Tools : ~Safe(u) /\ u < own /\ status[u] # "yielded"
             => PassedBy(emitted, u, own, Len(emitted)))'
      BY <2>1, <2>3 DEF Safe, PassedBy, Unknown
    <3>3. (\A u \in Tools : ~Safe(u) /\ status[u] # "yielded" =>
             \A m \in 1..Len(emitted) :
               ~Unknown(emitted[m]) /\ u < emitted[m] => PassedBy(emitted, u, emitted[m], m - 1))'
      BY <2>1 DEF JInv, Emission, ToCome, Safe, Unknown, PassedBy
    <3>4. (\A u \in Tools : ~Safe(u) /\ status[u] \notin {"completed", "yielded"} =>
             \A m \in 1..Len(context) : context[m] < u)'
      BY <2>1 DEF JInv, Emission, ToCome, Safe
    <3> QED BY <3>2, <3>3, <3>4 DEF ToCome
  <2>5. Emission'
    BY <2>1, <2>4 DEF JInv, Emission, InStatus, UnsafeInOrder, Overtakes, Safe
  <2> QED BY <2>2, <2>5 DEF JInv
<1>7. CASE ~progress[t]
  <2>1. /\ status' = [status EXCEPT ![t] = "yielded"]
        /\ emitted' = Append(emitted, t) /\ own' = t + 1 /\ UNCHANGED progress
        /\ status[t] = "completed"
    BY <1>2, <1>3, <1>7
  <2>2. \A q \in Tools : status'[q] = IF q = t THEN "yielded" ELSE status[q]
    BY <1>1, <2>1
  <2>3. ASSUME NEW q \in Tools PROVE Answered(q)'
    <3>1. Answered(q) /\ Answered(t)
      BY <1>2 DEF JInv
    <3>2. CASE q = t
      BY <1>7, <2>1, <2>2, <3>1, <3>2 DEF Answered, Unknown
    <3>3. CASE q # t
      BY <2>1, <2>2, <3>1, <3>3 DEF Answered, Unknown
    <3> QED BY <3>2, <3>3
  <2>4. /\ Len(emitted') = Len(emitted) + 1 /\ emitted'[Len(emitted) + 1] = t
        /\ \A m \in 1..Len(emitted) : emitted'[m] = emitted[m]
    BY <1>1, <1>2, <2>1, AppendProperties
  <2>5. IsInjective(emitted)' /\ (ToSet(emitted) = InStatus("yielded"))'
    <3>1. IsInjective(emitted) /\ ToSet(emitted) = InStatus("yielded")
      BY DEF JInv, Emission
    <3>2. t \notin ToSet(emitted)
      BY <2>1, <3>1 DEF InStatus
    <3>3. IsInjective(emitted')
      BY <1>1, <1>2, <2>1, <3>1, <3>2, AppendIsInjective
    <3>4. ToSet(emitted') = ToSet(emitted) \cup {t}
      BY <1>1, <1>2, <2>1, SetOfAppend
    <3>5. InStatus("yielded")' = InStatus("yielded") \cup {t}
      BY <1>2, <2>2 DEF InStatus
    <3> QED BY <3>1, <3>3, <3>4, <3>5 DEF IsInjective, ToSet
  <2>6. ASSUME NEW u \in Tools, ~Safe(u), u < t, status[u] # "yielded"
        PROVE  Unknown(t) \/ PassedBy(emitted, u, t, Len(emitted))
    BY <1>2, <1>4, <1>5, <2>6
  <2>7. (Taking => \A u \in Tools : ~Safe(u) /\ u < own /\ status[u] # "yielded"
           => PassedBy(emitted, u, own, Len(emitted)))'
    <3>1. SUFFICES ASSUME NEW u \in Tools, ~Safe(u), u < t + 1, status'[u] # "yielded"
                   PROVE  PassedBy(emitted', u, t + 1, Len(emitted) + 1)
      BY <2>1, <2>4 DEF Safe, PassedBy, Unknown
    <3>2. u # t /\ u < t /\ status[u] # "yielded"
      BY <1>2, <1>4, <2>2, <3>1
    <3>3. CASE Unknown(t)
      <4>1. /\ Len(emitted) + 1 \in 1..(Len(emitted) + 1)
            /\ Unknown(emitted'[Len(emitted) + 1])
            /\ u < emitted'[Len(emitted) + 1] /\ emitted'[Len(emitted) + 1] < t + 1
        BY <1>1, <1>2, <1>4, <2>4, <3>2, <3>3
      <4> QED BY <4>1 DEF PassedBy, Unknown
    <3>4. CASE PassedBy(emitted, u, t, Len(emitted))
      <4>1. PICK k \in 1..Len(emitted) :
              Unknown(emitted[k]) /\ u < emitted[k] /\ emitted[k] < t
        BY <3>4 DEF PassedBy
      <4>2. emitted[k] < t + 1 /\ k \in 1..(Len(emitted) + 1) /\ emitted'[k] = emitted[k]
        BY <1>1, <1>2, <1>4, <2>4, <4>1
      <4> QED BY <4>1, <4>2 DEF PassedBy, Unknown
    <3> QED BY <2>6, <3>1, <3>2, <3>3, <3>4
  <2>8. (\A u \in Tools : ~Safe(u) /\ status[u] # "yielded" =>
           \A m \in 1..Len(emitted) :
             ~Unknown(emitted[m]) /\ u < emitted[m] => PassedBy(emitted, u, emitted[m], m - 1))'
    <3>1. SUFFICES ASSUME NEW u \in Tools, ~Safe(u), status'[u] # "yielded",
                          NEW m \in 1..(Len(emitted) + 1),
                          ~Unknown(emitted'[m]), u < emitted'[m]
                   PROVE  PassedBy(emitted', u, emitted'[m], m - 1)
      BY <2>4 DEF Safe, Unknown, PassedBy
    <3>2. status[u] # "yielded"
      BY <2>2, <3>1
    <3>3. CASE m \in 1..Len(emitted)
      <4>1. emitted'[m] = emitted[m] /\ emitted[m] \in Int /\ m - 1 \in 0..Len(emitted)
        BY <1>1, <1>4, <2>4, <3>3
      <4>2. PassedBy(emitted, u, emitted[m], m - 1)
        BY <3>1, <3>2, <3>3, <4>1 DEF JInv, Emission, ToCome
      <4>3. \A k \in 1..(m - 1) : emitted'[k] = emitted[k]
        BY <1>1, <2>4, <3>3
      <4> QED BY <4>1, <4>2, <4>3 DEF PassedBy
    <3>4. CASE m = Len(emitted) + 1
      <4>1. emitted'[m] = t /\ m - 1 = Len(emitted)
        BY <1>1, <2>4, <3>4
      <4>2. PassedBy(emitted, u, t, Len(emitted))
        BY <2>6, <3>1, <3>2, <4>1
      <4> QED BY <1>1, <2>4, <4>1, <4>2 DEF PassedBy, Unknown
    <3> QED BY <1>1, <3>3, <3>4
  <2>9. (\A u \in Tools : ~Safe(u) /\ status[u] \notin {"completed", "yielded"} =>
            \A m \in 1..Len(context) : context[m] < u)'
    BY <2>1, <2>2 DEF JInv, Emission, ToCome, Safe
  <2>10. UnsafeInOrder'
    <3>1. (\A m, n \in 1..Len(context) : m < n => context[m] < context[n])'
      BY DEF JInv, Emission, UnsafeInOrder
    <3>2. ASSUME NEW m \in 1..(Len(emitted) + 1), NEW n \in 1..(Len(emitted) + 1),
                 m < n, emitted'[n] < emitted'[m], ~Safe(emitted'[n]),
                 ~Unknown(emitted'[m])
          PROVE  \E k \in 1..(m - 1) : /\ Unknown(emitted'[k])
                                       /\ emitted'[n] < emitted'[k]
                                       /\ emitted'[k] < emitted'[m]
      <4>1. m \in 1..Len(emitted) /\ emitted'[m] = emitted[m]
        BY <1>1, <2>4, <3>2
      <4>2. \E k \in 1..(m - 1) : /\ Unknown(emitted[k])
                                  /\ emitted'[n] < emitted[k] /\ emitted[k] < emitted[m]
        <5>1. CASE n \in 1..Len(emitted)
          BY <2>4, <3>2, <4>1, <5>1
             DEF JInv, Emission, UnsafeInOrder, Overtakes, Unknown
        <5>2. CASE n = Len(emitted) + 1
          BY <1>2, <2>1, <2>4, <3>2, <4>1, <5>2
             DEF JInv, Emission, ToCome, PassedBy
        <5> QED BY <1>1, <5>1, <5>2
      <4>3. \A k \in 1..(m - 1) : emitted'[k] = emitted[k]
        BY <1>1, <2>4, <4>1
      <4> QED BY <4>1, <4>2, <4>3
    <3> QED BY <2>4, <3>1, <3>2 DEF UnsafeInOrder, Overtakes, Safe, Unknown
  <2> QED BY <2>3, <2>5, <2>7, <2>8, <2>9, <2>10 DEF JInv, Emission, ToCome
<1> QED BY <1>6, <1>7

\* The other steps of the consumer, the user and the stream.
LEMMA ConsumerAnswers ==
  ASSUME ExecutorAssumption, IInv, JInv,
         \/ \E reason \in {"interrupt", "other"} : Abort(reason)
         \/ Discard \/ StreamEnds \/ CheckUnfinished \/ CallerResumes
         \/ CollectEnds \/ WakesUp \/ Finish
  PROVE  JInv'
<1>1. ASSUME NEW reason \in {"interrupt", "other"}, Abort(reason) PROVE JInv'
  BY <1>1, StillAnswers DEF Abort, execVars, consumerVars
<1>2. CASE Discard
  BY <1>2, StillAnswers DEF Discard, execVars
<1>3. CASE StreamEnds
  BY <1>3, StillAnswers DEF StreamEnds, execVars
<1>4. CASE CheckUnfinished
  BY <1>4, StillAnswers DEF CheckUnfinished, execVars, InPass
<1>5. CASE CallerResumes
  <2>1. /\ pc = "yielding" /\ pc' = "collect" /\ own' = own
        /\ UNCHANGED <<kind, status, outcome, progress, context, emitted>>
        /\ inProgress' = inProgress \cap {t \in Tools : status[t] # "yielded"}
    BY <1>5 DEF CallerResumes, MarkComplete
  <2>2. ASSUME NEW t \in Tools PROVE Answered(t)'
    BY <2>1 DEF JInv, Answered, Unknown
  <2>3. Emission'
    BY <2>1, EmissionStands DEF JInv, Taking
  <2> QED BY <2>2, <2>3 DEF JInv
<1>6. CASE CollectEnds
  BY <1>6, StillAnswers DEF CollectEnds, execVars
<1>7. CASE WakesUp
  BY <1>7, StillAnswers DEF WakesUp, execVars
<1>8. CASE Finish
  BY <1>8, StillAnswers DEF Finish, execVars
<1> QED BY <1>1, <1>2, <1>3, <1>4, <1>5, <1>6, <1>7, <1>8

LEMMA TakeNextAnswers ==
  ASSUME ExecutorAssumption, IInv, JInv, TakeNext
  PROVE  JInv'
<1>1. /\ pc = "taking" /\ own \in 1..(N + 1)
      /\ inProgress' = inProgress \cap {t \in Tools : status[t] # "yielded"}
      /\ UNCHANGED <<kind, outcome, context>>
  BY DEF TakeNext, MarkComplete, IInv, TypeOK
<1>2. CASE Yields(own) # {}
  <2>1. YieldNext(own) /\ UNCHANGED pc
    BY <1>2 DEF TakeNext
  <2> QED BY <1>1, <1>2, <2>1, YieldAnswers DEF Taking
<1>3. CASE Yields(own) = {}
  <2>1. pc' = "streaming" /\ UNCHANGED <<status, progress, own, emitted>>
    BY <1>3 DEF TakeNext
  <2>2. ASSUME NEW t \in Tools PROVE Answered(t)'
    BY <1>1, <2>1 DEF JInv, Answered, Unknown
  <2>3. Emission'
    BY <1>1, <2>1, EmissionStands DEF JInv, Taking
  <2> QED BY <2>2, <2>3 DEF JInv
<1> QED BY <1>2, <1>3

\* The second invariant holds in every reachable state.
THEOREM AnswersInvariance == ExecutorAssumption => (Spec => []JInv)
<1> SUFFICES ASSUME ExecutorAssumption PROVE Spec => []JInv
  OBVIOUS
<1>1. Init => JInv
  <2> SUFFICES ASSUME Init PROVE JInv
    OBVIOUS
  <2>1. ASSUME NEW t \in Tools PROVE Answered(t)
    BY DEF Init, Answered
  <2>2. emitted = << >> /\ context = << >> /\ Len(<< >>) = 0 /\ 1..0 = {}
    BY DEF Init
  <2>3. IsInjective(emitted) /\ ToSet(emitted) = InStatus("yielded")
    BY <2>2 DEF Init, IsInjective, ToSet, InStatus
  <2> QED BY <2>1, <2>2, <2>3 DEF Init, JInv, Emission, ToCome, Taking, UnsafeInOrder
<1>2. IInv /\ JInv /\ [Next]_vars => JInv'
  <2> SUFFICES ASSUME IInv, JInv, [Next]_vars PROVE JInv'
    OBVIOUS
  <2>1. ASSUME NEW t \in Tools, AddTool(t) PROVE JInv'
    BY <2>1, AddToolAnswers
  <2>2. ASSUME NEW t \in Tools, Update(t) PROVE JInv'
    BY <2>2, UpdateAnswers
  <2>3. CASE OwnPass \/ \E p \in passes : PassStep(p)
    BY <2>3, LoopAnswers
  <2>4. CASE TakeCompleted
    <3>1. 1 \in 1..(N + 1)
      BY DEF ExecutorAssumption
    <3> QED BY <2>4, <3>1, YieldAnswers DEF TakeCompleted
  <2>5. CASE TakeNext
    BY <2>5, TakeNextAnswers
  <2>6. CASE Collect
    <3>1. own \in 1..(N + 1)
      BY DEF IInv, TypeOK
    <3> QED BY <2>6, <3>1, YieldAnswers DEF Collect, Taking
  <2>7. CASE \/ \E reason \in {"interrupt", "other"} : Abort(reason)
             \/ Discard \/ StreamEnds \/ CheckUnfinished \/ CallerResumes
             \/ CollectEnds \/ WakesUp \/ Finish
    BY <2>7, ConsumerAnswers
  <2>8. CASE UNCHANGED vars
    BY <2>8, StillAnswers DEF vars
  <2> QED BY <2>1, <2>2, <2>3, <2>4, <2>5, <2>6, <2>7, <2>8 DEF Next, ConsumerStep
<1> QED BY <1>1, <1>2, Invariance, PTL DEF Spec

-------------------------------------------------------------------------------
(* The third invariant: how many tool_results a tool has.                  *)

\* What the generator of a running tool has yielded, and what it may end with.
Shaped(t) ==
  /\ status[t] \in {"absent", "queued"} => outcome[t] = << >>
  /\ status[t] = "executing" => outcome[t] \in {<< >>, <<"ok">>, <<"error">>}
  /\ \/ outcome[t] = << >>
     \/ \E r \in Results : outcome[t] = <<r>>
     \/ errored /\ outcome[t] = <<"ok", "sibling">>
     \/ aborted # "no" /\ outcome[t] = <<"ok", "user">>
     \/ discarded /\ outcome[t] = <<"ok", "fallback">>

KInv ==
  /\ outcome \in [Tools -> Seq(Results)] /\ status \in [Tools -> Statuses]
  /\ \A t \in Tools : Shaped(t)
  /\ discarded => pc = "dropped"

\* Cancellations are not taken back.
Onward ==
  /\ errored => errored'
  /\ aborted # "no" => aborted' # "no"
  /\ discarded => discarded'
  /\ discarded' => pc' = "dropped"

\* getAbortReason() tells what happened.
LEMMA ReasonIsTrue ==
  ASSUME NEW t \in Tools
  PROVE  /\ AbortReason(t) = "sibling" => errored
         /\ AbortReason(t) = "user" => aborted # "no"
         /\ AbortReason(t) = "fallback" => discarded
BY DEF AbortReason

\* A step that changes the status and the outcome of one tool, if any.
LEMMA OneToolShaped ==
  ASSUME KInv, Onward, NEW t \in Tools, NEW s \in Statuses, NEW results,
         outcome' = [outcome EXCEPT ![t] = results],
         status' \in [Tools -> Statuses], status'[t] = s,
         \A q \in Tools : q # t =>
           \/ status'[q] = status[q]
           \/ status[q] = "absent" /\ status'[q] = "queued",
         s \in {"absent", "queued"} => results = << >>,
         s = "executing" => results \in {<< >>, <<"ok">>, <<"error">>},
         \/ results = outcome[t]
         \/ results = << >>
         \/ \E r \in Results : results = <<r>>
         \/ errored' /\ results = <<"ok", "sibling">>
         \/ aborted' # "no" /\ results = <<"ok", "user">>
         \/ discarded' /\ results = <<"ok", "fallback">>
  PROVE  KInv'
<1> HIDE DEF Statuses
<1>1. results \in Seq(Results)
  <2>1. {"ok", "sibling", "user", "fallback"} \subseteq Results
    BY DEF Results, Synthetic
  <2>2. outcome[t] \in Seq(Results) /\ << >> \in Seq(Results)
    BY EmptySeq DEF KInv
  <2>3. /\ \A r \in Results : <<r>> \in Seq(Results)
        /\ \A r, s1 \in Results : <<r, s1>> \in Seq(Results)
    OBVIOUS
  <2> QED BY <2>1, <2>2, <2>3
<1>2. outcome' \in [Tools -> Seq(Results)]
  BY <1>1 DEF KInv
<1>3. \A q \in Tools : outcome'[q] = IF q = t THEN results ELSE outcome[q]
  BY DEF KInv
<1>4. ASSUME NEW q \in Tools PROVE Shaped(q)'
  <2>1. Shaped(q)
    BY DEF KInv
  <2>2. CASE q # t
    BY <1>3, <2>1, <2>2 DEF Shaped, Onward
  <2>3. CASE q = t
    BY <1>3, <2>1, <2>3 DEF Shaped, Onward
  <2> QED BY <2>2, <2>3
<1> QED BY <1>2, <1>4 DEF KInv, Onward

\* A step that starts, completes and answers no tool.
LEMMA ShapedStays ==
  ASSUME KInv, Onward, UNCHANGED outcome, status' \in [Tools -> Statuses],
         \A q \in Tools :
           \/ status'[q] = status[q]
           \/ status[q] \in {"executing", "completed"} /\ status'[q] \in {"completed", "yielded"}
  PROVE  KInv'
<1> HIDE DEF Statuses
<1>1. ASSUME NEW q \in Tools PROVE Shaped(q)'
  <2>1. Shaped(q)
    BY DEF KInv
  <2> QED BY <2>1 DEF Shaped, Onward
<1> QED BY <1>1 DEF KInv, Onward

\* executeTool() of a queued tool.
LEMMA ExecuteShapes ==
  ASSUME KInv, NEW st \in [Tools -> Statuses], NEW t \in Tools, st[t] = "queued",
         \A q \in Tools :
           \/ st[q] = status[q]
           \/ status[q] = "absent" /\ st[q] = "queued",
         Execute(st, t), UNCHANGED <<errored, aborted, discarded>>,
         discarded => pc' = "dropped"
  PROVE  KInv'
<1>1. Onward
  BY DEF Onward
<1>2. outcome[t] = << >>
  BY DEF KInv, Shaped
<1>3. CASE AbortReason(t) = "none"
  <2>1. status' = [st EXCEPT ![t] = "executing"] /\ outcome' = [outcome EXCEPT ![t] = << >>]
    BY <1>2, <1>3 DEF Execute, KInv
  <2>2. status' \in [Tools -> Statuses] /\ status'[t] = "executing" /\ "executing" \in Statuses
    BY <2>1 DEF Statuses
  <2> QED BY <1>1, <2>1, <2>2, OneToolShaped
<1>4. CASE AbortReason(t) # "none"
  <2>1. AbortReason(t) \in Results
    BY <1>4, AbortReasonType DEF Results
  <2>2. outcome' = [outcome EXCEPT ![t] = <<AbortReason(t)>>]
    BY <1>2, <1>4 DEF Execute, KInv
  <2>3. status' = [st EXCEPT ![t] = "completed"]
    BY <1>4 DEF Execute
  <2>4. status' \in [Tools -> Statuses] /\ status'[t] = "completed" /\ "completed" \in Statuses
    BY <2>3 DEF Statuses
  <2>5. \A q \in Tools : q # t => status'[q] = st[q]
    BY <2>3
  <2>6. \A q \in Tools : q # t =>
          \/ status'[q] = status[q]
          \/ status[q] = "absent" /\ status'[q] = "queued"
    BY <2>5
  <2> DEFINE results == <<AbortReason(t)>>
  <2>7. \E r \in Results : results = <<r>>
    BY <2>1
  <2>8. outcome' = [outcome EXCEPT ![t] = results]
    BY <2>2
  <2> HIDE DEF results
  <2> QED BY <1>1, <2>4, <2>6, <2>7, <2>8, OneToolShaped
<1> QED BY <1>3, <1>4

LEMMA AddToolShapes ==
  ASSUME ExecutorAssumption, KInv, NEW t \in Tools, AddTool(t)
  PROVE  KInv'
<1>1. /\ status[t] = "absent" /\ pc = "streaming"
      /\ UNCHANGED <<errored, aborted, discarded, pc>>
  BY DEF AddTool
<1>2. Onward /\ ~discarded
  BY <1>1 DEF Onward, KInv
<1>3. CASE kind[t] \in UnknownKinds
  <2>1. /\ status' = [status EXCEPT ![t] = "completed"]
        /\ outcome' = [outcome EXCEPT ![t] = <<"error">>]
    BY <1>3 DEF AddTool
  <2>2. /\ status' \in [Tools -> Statuses] /\ status'[t] = "completed"
        /\ "completed" \in Statuses /\ "error" \in Results
        /\ \A q \in Tools : q # t => status'[q] = status[q]
    BY <2>1 DEF KInv, Statuses, Results
  <2> QED BY <1>2, <2>1, <2>2, OneToolShaped
<1>4. CASE kind[t] \notin UnknownKinds
  <2> DEFINE st == [status EXCEPT ![t] = "queued"]
  <2> DEFINE u == Startable(st, 1)
  <2>1. /\ st \in [Tools -> Statuses] /\ st[t] = "queued"
        /\ \A q \in Tools : q # t => st[q] = status[q]
    BY DEF KInv, Statuses
  <2>2. \A q \in Tools : \/ st[q] = status[q]
                         \/ status[q] = "absent" /\ st[q] = "queued"
    BY <1>1, <2>1
  <2>3. CASE u = 0
    <3>1. status' = st /\ UNCHANGED outcome
      BY <1>4, <2>3 DEF AddTool
    <3>2. outcome[t] = << >> /\ outcome' = [outcome EXCEPT ![t] = << >>]
      BY <1>1, <3>1 DEF KInv, Shaped
    <3>3. "queued" \in Statuses
      BY DEF Statuses
    <3> HIDE DEF st
    <3> QED BY <1>2, <2>1, <2>2, <3>1, <3>2, <3>3, OneToolShaped
  <2>4. CASE u # 0
    <3>1. Execute(st, u)
      BY <1>4, <2>4 DEF AddTool
    <3>2. 1 \in 1..(N + 1)
      BY DEF ExecutorAssumption
    <3> HIDE DEF st
    <3>3. u \in Tools /\ st[u] = "queued"
      BY <2>1, <2>4, <3>2, StartableIsFirst
    <3> HIDE DEF u
    <3> QED BY <1>1, <1>2, <2>1, <2>2, <3>1, <3>3, ExecuteShapes
  <2> QED BY <2>3, <2>4
<1> QED BY <1>3, <1>4

\* A processQueue() loop goes on, the consumer's own or another.
LEMMA LoopShapes ==
  ASSUME ExecutorAssumption, KInv, NEW p \in 1..(N + 1), Startable(status, p) # 0,
         Execute(status, Startable(status, p)),
         UNCHANGED <<errored, aborted, discarded, pc>>
  PROVE  KInv'
<1> DEFINE u == Startable(status, p)
<1>1. status \in [Tools -> Statuses]
  BY DEF KInv
<1>2. u \in Tools /\ status[u] = "queued"
  BY <1>1, StartableIsFirst
<1>3. Execute(status, u) /\ (discarded => pc' = "dropped")
  BY DEF KInv
<1> HIDE DEF u
<1> QED BY <1>1, <1>2, <1>3, ExecuteShapes

\* What a cancellation adds to a result.
LEMMA AppendToOne ==
  ASSUME NEW S, NEW r \in S, NEW x \in S
  PROVE  Append(<<r>>, x) = <<r, x>>
<1> DEFINE a == Append(<<r>>, x)
<1> DEFINE b == <<r, x>>
<1>1. a \in Seq(S) /\ b \in Seq(S)
  OBVIOUS
<1>2. Len(a) = 2 /\ Len(b) = 2
  OBVIOUS
<1>3. \A i \in 1..2 : a[i] = b[i]
  <2>1. a[1] = b[1]
    OBVIOUS
  <2>2. a[2] = b[2]
    OBVIOUS
  <2>3. \A i \in 1..2 : i = 1 \/ i = 2
    OBVIOUS
  <2> HIDE DEF a, b
  <2> QED BY <2>1, <2>2, <2>3
<1> HIDE DEF a, b
<1>4. a = b
  BY <1>1, <1>2, <1>3, SeqEqual
<1> QED BY <1>4 DEF a, b

LEMMA UpdateShapes ==
  ASSUME KInv, NEW t \in Tools, Update(t)
  PROVE  KInv'
<1>1. Onward
  <2>1. discarded => pc = "dropped"
    BY DEF KInv
  <2>2. UNCHANGED <<aborted, discarded, pc>> /\ (errored => errored')
    <3>1. CASE CancelledByUpdate(t)
      BY <3>1 DEF CancelledByUpdate, consumerVars
    <3>2. CASE Progress(t)
      BY <3>2 DEF Progress, consumerVars
    <3>3. CASE Ends(t)
      BY <3>3 DEF Ends, consumerVars
    <3>4. ASSUME NEW res \in {"ok", "error"}, Result(t, res)
          PROVE  UNCHANGED <<aborted, discarded, pc>> /\ (errored => errored')
      BY <3>4 DEF Result, consumerVars
    <3> QED BY <3>1, <3>2, <3>3, <3>4 DEF Update
  <2> QED BY <2>1, <2>2 DEF Onward
<1>2. status[t] = "executing" /\ outcome[t] \in {<< >>, <<"ok">>, <<"error">>}
  BY DEF Update, CancelledByUpdate, Progress, Ends, Result, MayUpdate, KInv, Shaped
<1>3. {"executing", "completed"} \subseteq Statuses /\ {"ok", "error"} \subseteq Results
  BY DEF Statuses, Results
<1>4. CASE CancelledByUpdate(t)
  <2> DEFINE reason == AbortReason(t)
  <2> DEFINE results == Append(outcome[t], reason)
  <2>1. /\ outcome' = [outcome EXCEPT ![t] = results]
        /\ status' = [status EXCEPT ![t] = "completed"]
        /\ UNCHANGED <<errored, aborted, discarded>>
    BY <1>4 DEF CancelledByUpdate, Completes
  <2>2. reason \in Synthetic
    BY <1>4, AbortReasonType DEF CancelledByUpdate
  <2>3. outcome[t] # <<"error">>
    <3>1. SUFFICES ASSUME outcome[t] = <<"error">> PROVE FALSE
      OBVIOUS
    <3>2. 1 \in 1..Len(outcome[t]) /\ outcome[t][1] = "error"
      BY <3>1
    <3> QED BY <1>4, <3>2 DEF CancelledByUpdate, ThisToolErrored
  <2>4. /\ reason = "sibling" => errored'
        /\ reason = "user" => aborted' # "no"
        /\ reason = "fallback" => discarded'
    BY <2>1, ReasonIsTrue
  <2> HIDE DEF reason
  <2>5. results = <<reason>> \/ results = <<"ok", reason>>
    <3>1. CASE outcome[t] = << >>
      BY <3>1
    <3>2. CASE outcome[t] = <<"ok">>
      <4>1. "ok" \in Results /\ reason \in Results
        BY <2>2 DEF Results
      <4>2. Append(<<"ok">>, reason) = <<"ok", reason>>
        BY <4>1, AppendToOne
      <4> QED BY <3>2, <4>2, Zenon
    <3> QED BY <1>2, <2>3, <3>1, <3>2
  <2>6. reason \in Results /\ reason \in {"sibling", "user", "fallback"}
    BY <2>2 DEF Results, Synthetic
  <2>7. /\ status' \in [Tools -> Statuses] /\ status'[t] = "completed"
        /\ \A q \in Tools : q # t => status'[q] = status[q]
    BY <1>3, <2>1 DEF KInv
  <2> HIDE DEF results
  <2>8. \/ \E r \in Results : results = <<r>>
        \/ errored' /\ results = <<"ok", "sibling">>
        \/ aborted' # "no" /\ results = <<"ok", "user">>
        \/ discarded' /\ results = <<"ok", "fallback">>
    BY <2>4, <2>5, <2>6
  <2> QED BY <1>1, <1>3, <2>1, <2>7, <2>8, OneToolShaped
<1>5. CASE Progress(t)
  <2>1. UNCHANGED <<status, outcome>>
    BY <1>5 DEF Progress, execVars
  <2> QED BY <1>1, <2>1, ShapedStays DEF KInv
<1>6. CASE Ends(t)
  <2>1. UNCHANGED outcome /\ status' = [status EXCEPT ![t] = "completed"]
    BY <1>6 DEF Ends, Completes, KInv
  <2>2. status' \in [Tools -> Statuses]
    BY <1>3, <2>1 DEF KInv
  <2>3. \A q \in Tools : status'[q] = IF q = t THEN "completed" ELSE status[q]
    BY <2>1 DEF KInv
  <2> QED BY <1>1, <1>2, <2>1, <2>2, <2>3, ShapedStays
<1>7. ASSUME NEW res \in {"ok", "error"}, Result(t, res) PROVE KInv'
  <2>1. outcome' = [outcome EXCEPT ![t] = <<res>>] /\ UNCHANGED status
    BY <1>7 DEF Result
  <2>2. status' \in [Tools -> Statuses] /\ status'[t] = "executing"
    BY <1>2, <2>1 DEF KInv
  <2>3. <<res>> \in {<< >>, <<"ok">>, <<"error">>} /\ \E r \in Results : <<res>> = <<r>>
    BY <1>3, <1>7
  <2> QED BY <1>1, <1>3, <2>1, <2>2, <2>3, OneToolShaped
<1> QED BY <1>4, <1>5, <1>6, <1>7 DEF Update

\* The generator yields the next message.
LEMMA YieldShapes ==
  ASSUME ExecutorAssumption, KInv, NEW p \in 1..(N + 1), Yields(p) # {}, YieldNext(p),
         UNCHANGED <<outcome, errored, aborted, discarded>>, ~discarded \/ pc' = "dropped"
  PROVE  KInv'
<1> DEFINE t == Min(Yields(p))
<1>1. t \in Yields(p) /\ t \in Tools
  <2>1. IsFiniteSet(Tools) /\ Tools \subseteq Int
    BY FS_Interval DEF ExecutorAssumption, Tools
  <2>2. Yields(p) \in SUBSET Tools
    BY DEF Yields
  <2> QED BY <2>1, <2>2, MinIsLeast
<1>2. Onward
  BY DEF Onward
<1>3. CASE progress[t]
  <2>1. UNCHANGED status
    BY <1>3 DEF YieldNext
  <2> QED BY <1>2, <2>1, ShapedStays DEF KInv
<1>4. CASE ~progress[t]
  <2>1. status' = [status EXCEPT ![t] = "yielded"] /\ status[t] = "completed"
    BY <1>1, <1>4 DEF YieldNext, Yields
  <2> HIDE DEF t
  <2>2. status' \in [Tools -> Statuses]
    BY <1>1, <2>1 DEF KInv, Statuses
  <2>3. \A q \in Tools : status'[q] = IF q = t THEN "yielded" ELSE status[q]
    BY <2>1 DEF KInv
  <2> QED BY <1>2, <2>1, <2>2, <2>3, ShapedStays
<1> QED BY <1>3, <1>4

\* The third invariant holds: a tool that no cancellation met after its result
\* has one tool_result at most.
THEOREM ShapesInvariance == ExecutorAssumption => (Spec => []KInv)
<1> SUFFICES ASSUME ExecutorAssumption PROVE Spec => []KInv
  OBVIOUS
<1>1. Init => KInv
  <2>1. ASSUME Init PROVE outcome \in [Tools -> Seq(Results)] /\ status \in [Tools -> Statuses]
    BY <2>1, EmptySeq DEF Init, Statuses
  <2>2. ASSUME Init, NEW t \in Tools PROVE Shaped(t)
    BY <2>2 DEF Init, Shaped
  <2> QED BY <2>1, <2>2 DEF Init, KInv
<1>2. IInv /\ KInv /\ [Next]_vars => KInv'
  <2> SUFFICES ASSUME IInv, KInv, [Next]_vars PROVE KInv'
    OBVIOUS
  <2>1. own \in 1..(N + 1) /\ passes \subseteq 1..(N + 1) /\ 1 \in 1..(N + 1)
    BY DEF IInv, TypeOK, ExecutorAssumption
  <2>2. (discarded => pc = "dropped") /\ status \in [Tools -> Statuses]
    BY DEF KInv
  <2>3. ASSUME NEW t \in Tools, AddTool(t) PROVE KInv'
    BY <2>3, AddToolShapes
  <2>4. ASSUME NEW t \in Tools, Update(t) PROVE KInv'
    BY <2>4, UpdateShapes
  <2>5. ASSUME NEW p \in passes, PassStep(p) PROVE KInv'
    <3>1. UNCHANGED <<errored, aborted, discarded, pc>> /\ p \in 1..(N + 1)
      BY <2>1, <2>5 DEF PassStep, consumerVars
    <3>2. CASE Startable(status, p) = 0
      <4>1. UNCHANGED <<status, outcome>>
        BY <2>5, <3>2 DEF PassStep, execVars
      <4> QED BY <2>2, <3>1, <4>1, ShapedStays DEF Onward
    <3>3. CASE Startable(status, p) # 0
      <4>1. Execute(status, Startable(status, p))
        BY <2>5, <3>3 DEF PassStep
      <4> QED BY <3>1, <3>3, <4>1, LoopShapes
    <3> QED BY <3>2, <3>3
  <2>6. CASE OwnPass
    <3>1. CASE Startable(status, own) = 0
      <4>1. UNCHANGED <<status, outcome, errored, aborted, discarded>> /\ pc = "pass"
        BY <2>6, <3>1 DEF OwnPass, execVars
      <4> QED BY <2>2, <4>1, ShapedStays DEF Onward
    <3>2. CASE Startable(status, own) # 0
      <4>1. /\ Execute(status, Startable(status, own))
            /\ UNCHANGED <<errored, aborted, discarded, pc>>
        BY <2>6, <3>2 DEF OwnPass
      <4> QED BY <2>1, <3>2, <4>1, LoopShapes
    <3> QED BY <3>1, <3>2
  <2>7. CASE TakeCompleted
    BY <2>1, <2>2, <2>7, YieldShapes DEF TakeCompleted
  <2>8. CASE Collect
    BY <2>1, <2>2, <2>8, YieldShapes DEF Collect
  <2>9. CASE TakeNext
    <3>1. UNCHANGED <<outcome, errored, aborted, discarded>> /\ ~discarded
      BY <2>2, <2>9 DEF TakeNext
    <3>2. CASE Yields(own) # {}
      BY <2>1, <2>9, <3>1, <3>2, YieldShapes DEF TakeNext
    <3>3. CASE Yields(own) = {}
      <4>1. UNCHANGED status
        BY <2>9, <3>3 DEF TakeNext
      <4> QED BY <2>2, <3>1, <4>1, ShapedStays DEF Onward
    <3> QED BY <3>2, <3>3
  <2>10. CASE \/ \E reason \in {"interrupt", "other"} : Abort(reason)
              \/ Discard \/ StreamEnds \/ CheckUnfinished \/ CallerResumes
              \/ CollectEnds \/ WakesUp \/ Finish
    <3>1. UNCHANGED <<status, outcome>>
      BY <2>10 DEF Abort, Discard, StreamEnds, CheckUnfinished, CallerResumes,
                   CollectEnds, WakesUp, Finish, execVars
    <3>2. Onward
      BY <2>2, <2>10 DEF Onward, Abort, Discard, StreamEnds, CheckUnfinished,
                 CallerResumes, CollectEnds, WakesUp, Finish, consumerVars
    <3> QED BY <2>2, <3>1, <3>2, ShapedStays
  <2>11. CASE UNCHANGED vars
    <3>1. UNCHANGED <<status, outcome, errored, aborted, discarded, pc>>
      BY <2>11 DEF vars
    <3> QED BY <2>2, <3>1, ShapedStays DEF Onward
  <2> QED BY <2>3, <2>4, <2>5, <2>6, <2>7, <2>8, <2>9, <2>10, <2>11 DEF Next, ConsumerStep
<1> QED BY <1>1, <1>2, Invariance, PTL DEF Spec

\* Whatever was started, aborted, cancelled or answered in whatever order: when
\* getRemainingResults() returns, every tool was yielded once, with one tool_result,
\* or with a second, synthetic one if it was cancelled after its result.
THEOREM EveryToolAnswered == ExecutorAssumption => (Spec => []AllAnswered)
<1>1. IInv /\ JInv /\ KInv => AllAnswered
  <2>1. SUFFICES ASSUME IInv, JInv, KInv, pc = "done" PROVE
          /\ \A t \in Tools : status[t] # "absent" =>
               /\ status[t] = "yielded" /\ ~progress[t]
               /\ Cardinality({i \in 1..Len(emitted) : emitted[i] = t}) = 1
               /\ Len(outcome[t]) = 1 \/ CancelledAfterResult(t)
          /\ inProgress = {}
    BY DEF AllAnswered
  <2>2. ASSUME NEW t \in Tools, status[t] # "absent"
        PROVE  /\ status[t] = "yielded" /\ ~progress[t]
               /\ Cardinality({i \in 1..Len(emitted) : emitted[i] = t}) = 1
               /\ Len(outcome[t]) = 1 \/ CancelledAfterResult(t)
    <3>1. status[t] = "yielded" /\ outcome[t] # << >> /\ ~progress[t]
      BY <2>1, <2>2 DEF JInv, Answered
    <3>2. emitted \in Seq(Tools) /\ DOMAIN emitted = 1..Len(emitted)
      BY <2>1, LenProperties DEF IInv, TypeOK
    <3>3. t \in ToSet(emitted) /\ IsInjective(emitted)
      BY <2>1, <3>1 DEF JInv, Emission, InStatus
    <3>4. PICK i \in 1..Len(emitted) : emitted[i] = t
      BY <3>2, <3>3 DEF ToSet
    <3>5. {j \in 1..Len(emitted) : emitted[j] = t} = {i}
      BY <3>2, <3>3, <3>4 DEF IsInjective
    <3>6. Len(outcome[t]) = 1 \/ CancelledAfterResult(t)
      <4>1. ~discarded /\ Shaped(t)
        BY <2>1 DEF KInv
      <4>2. CASE \E r \in Results : outcome[t] = <<r>>
        BY <4>2
      <4>3. CASE ~ \E r \in Results : outcome[t] = <<r>>
        BY <3>1, <4>1, <4>3, Zenon DEF Shaped, CancelledAfterResult
      <4> QED BY <4>2, <4>3
    <3> QED BY <3>1, <3>5, <3>6, FS_Singleton
  <2>3. inProgress = {}
    BY <2>1 DEF JInv, Answered, IInv, TypeOK
  <2> QED BY <2>2, <2>3
<1> QED BY <1>1, Invariance, AnswersInvariance, ShapesInvariance, PTL

\* The results of a tool that runs alone are yielded before those of the existing
\* tools after it, except past the error of a tool that does not exist; context
\* modifiers apply in the order of the message.
THEOREM ExclusiveOrder == ExecutorAssumption => (Spec => []UnsafeInOrder)
<1>1. JInv => UnsafeInOrder
  BY DEF JInv, Emission
<1> QED BY <1>1, AnswersInvariance, PTL
===============================================================================
