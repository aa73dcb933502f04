-------------------------- MODULE ClaudeWakeProofs --------------------------
(***************************************************************************)
(* Proofs about ClaudeWake, for any number of attempts at a turn, every    *)
(* set of requests with any bounds and prices, and all limits: at most one *)
(* Claude process works, no charge disappears, and the charges together    *)
(* fit the budget.  All of it rests on PromptLaunch: an attempt that lost  *)
(* its lease finds out before the process it launches gets to work.        *)
(***************************************************************************)
EXTENDS ClaudeWake, SumTheorems

-----------------------------------------------------------------------------
(* The inductive invariant                                                 *)

\* Rows are records, whatever the amounts; threads and places have their types.
Shape ==
  /\ ops = [o \in Ops |-> [state |-> ops[o].state, reserved |-> ops[o].reserved,
                           cost |-> ops[o].cost, denied |-> ops[o].denied]]
  /\ charge = [o \in Ops |-> charge[o]]
  /\ \A o \in Ops : ops[o].state \in OpStates
  /\ pc \in [Attempt -> Pcs]
  /\ gate \in [Attempt -> Threads]
  /\ bridge \in [Attempt -> Threads]
  /\ launched \subseteq Attempt

\* Once a process works, the wake is past the state in which it may be begun,
\* and no attempt that is about to launch another one holds the lease.
OneProcess ==
  /\ \A a, b \in launched : a = b
  /\ launched # {} =>
       /\ ~Is(Wake, {"none", "planned"})
       /\ \A a \in Attempt : pc[a] \in {"start", "save", "launch", "check"} => lease # a
  /\ \A a \in Attempt : pc[a] = "watch" => a \in launched
  /\ \A a \in Attempt : pc[a] \in {"save", "launch", "check"} /\ lease = a => Is(Wake, Unresolved)

\* What a row says of its charge.  A wake that was settled may be reopened by
\* an attempt that stalled, so only other rows are free until completed.
RowOK(o) ==
  /\ Is(o, {"none", "planned", "failed"}) => ops[o].cost = 0 /\ charge[o] = 0
  /\ Is(o, {"completed"}) => ops[o].cost = charge[o]
  /\ o # Wake /\ ~Is(o, {"completed"}) => ops[o].cost = 0
  /\ o \in Read => /\ ops[o].reserved \in Nat
                   /\ ops[o].reserved = 0 => charge[o] = 0

\* Model calls are counted without a gap, so the next index is a new row.
Prefix ==
  \A m, n \in 1..MaxModel :
    n < m /\ ~Is(<<"model", m>>, {"none"}) => ~Is(<<"model", n>>, {"none"})

GateOK(a) ==
  /\ gate[a].at \in {"rest", "send", "reply", "account"}
  /\ gate[a].at # "rest" =>
       /\ a \in launched
       /\ gate[a].op \in Model
       /\ Is(gate[a].op, IF gate[a].at = "send" THEN {"planned"} ELSE Unresolved)

BridgeOK(a) ==
  /\ bridge[a].at \in {"rest", "look", "ask", "page"}
  /\ bridge[a].at # "rest" =>
       /\ a \in launched
       /\ bridge[a].op \in Read
       /\ Is(bridge[a].op, IF bridge[a].at = "page" THEN Unresolved \cup {"planned"}
                           ELSE {"planned", "failed"})

IInv ==
  /\ PromptLaunch
  /\ Shape
  /\ OneProcess
  /\ \A o \in Ops : RowOK(o)
  /\ Prefix
  /\ \A a \in Attempt : GateOK(a) /\ BridgeOK(a)

-----------------------------------------------------------------------------
(* Rows                                                                    *)

LEMMA Kinds ==
  /\ Wake \in Ops /\ Model \subseteq Ops /\ Read \subseteq Ops
  /\ Wake \notin Model /\ Wake \notin Read /\ Model \cap Read = {}
  /\ Ops = {Wake} \cup Model \cup Read
<1>1. Wake[1] = "wake"
  BY DEF Wake
<1>2. \A o \in Model : o[1] = "model"
  BY DEF Model
<1>3. \A o \in Read : o[1] = "research"
  BY DEF Read
<1> QED
  BY <1>1, <1>2, <1>3 DEF Ops

LEMMA Rows ==
  ASSUME Shape, NEW o \in Ops
  PROVE  /\ ops[o] = [state |-> ops[o].state, reserved |-> ops[o].reserved,
                      cost |-> ops[o].cost, denied |-> ops[o].denied]
         /\ ops[o].state \in OpStates
BY DEF Shape

LEMMA SetStateRow ==
  ASSUME Shape, NEW o \in Ops, NEW state, SetState(o, state)
  PROVE  /\ ops' = [p \in Ops |-> ops'[p]]
         /\ \A p \in Ops \ {o} : ops'[p] = ops[p]
         /\ ops'[o] = [state |-> state, reserved |-> ops[o].reserved,
                       cost |-> ops[o].cost, denied |-> ops[o].denied]
BY DEF Shape, SetState

LEMMA BegunRow ==
  ASSUME Shape, NEW o \in Ops, NEW amount, Begun(o, amount)
  PROVE  /\ ops' = [p \in Ops |-> ops'[p]]
         /\ \A p \in Ops \ {o} : ops'[p] = ops[p]
         /\ ops'[o] = [state |-> "planned", reserved |-> amount, cost |-> 0, denied |-> FALSE]
BY DEF Shape, Begun, NoOp

LEMMA CompletedRow ==
  ASSUME Shape, NEW o \in Ops, NEW amount, Completed(o, amount)
  PROVE  /\ ops' = [p \in Ops |-> ops'[p]]
         /\ \A p \in Ops \ {o} : ops'[p] = ops[p]
         /\ \/ Is(o, {"completed"}) /\ ops'[o] = ops[o]
            \/ /\ ~Is(o, {"completed"})
               /\ ops'[o] = [state |-> "completed", reserved |-> ops[o].reserved,
                             cost |-> amount, denied |-> ops[o].denied]
BY DEF Shape, Completed, Is

\* What a step leaves in order that changes one row of the ledger at most.
LEMMA OneRow ==
  ASSUME IInv, NEW o \in Ops,
         ops' = [p \in Ops |-> ops'[p]],
         charge' = [p \in Ops |-> charge'[p]],
         \A p \in Ops \ {o} : ops'[p] = ops[p] /\ charge'[p] = charge[p],
         ops'[o] = [state |-> ops'[o].state, reserved |-> ops'[o].reserved,
                    cost |-> ops'[o].cost, denied |-> ops'[o].denied],
         ops'[o].state \in OpStates \ {"none"},
         o \in Model => ~Is(o, {"none"}) \/ Prefix',
         RowOK(o)'
  PROVE  /\ ops' = [p \in Ops |-> [state |-> ops'[p].state, reserved |-> ops'[p].reserved,
                                   cost |-> ops'[p].cost, denied |-> ops'[p].denied]]
         /\ \A p \in Ops : ops'[p].state \in OpStates
         /\ \A p \in Ops : RowOK(p)'
         /\ Prefix'
<1>1. \A p \in Ops : ops'[p] = [state |-> ops'[p].state, reserved |-> ops'[p].reserved,
                                cost |-> ops'[p].cost, denied |-> ops'[p].denied]
  BY DEF IInv, Shape
<1>2. ops' = [p \in Ops |-> [state |-> ops'[p].state, reserved |-> ops'[p].reserved,
                             cost |-> ops'[p].cost, denied |-> ops'[p].denied]]
  BY <1>1
<1>3. \A p \in Ops : ops'[p].state \in OpStates
  BY DEF IInv, Shape
<1>4. \A p \in Ops : RowOK(p)'
  BY DEF IInv, RowOK, Is
<1>5. ASSUME o \in Model => ~Is(o, {"none"}) PROVE Prefix'
  <2>1. \A n \in 1..MaxModel : <<"model", n>> \in Ops /\ <<"model", n>> \in Model
    BY Kinds DEF Model
  <2>2. \A p \in Ops : Is(p, {"none"})' => Is(p, {"none"})
    BY DEF Is
  <2>3. \A p \in Model : Is(p, {"none"}) => Is(p, {"none"})'
    BY <1>5, Kinds DEF Is
  <2>4. \A n \in 1..MaxModel : Is(<<"model", n>>, {"none"})' <=> Is(<<"model", n>>, {"none"})
    BY <2>1, <2>2, <2>3 DEF Is
  <2> QED
    BY <2>4 DEF IInv, Prefix
<1> QED
  BY <1>2, <1>3, <1>4, <1>5

LEMMA Raised ==
  ASSUME Shape, NEW a \in Attempt, NEW failure, Raise(a, failure)
  PROVE  /\ pc' \in [Attempt -> Pcs]
         /\ pc'[a] \in {"over", "end", "mark"}
         /\ \A b \in Attempt \ {a} : pc'[b] = pc[b]
BY DEF Shape, Raise, Goto, Pcs

LEMMA Went ==
  ASSUME Shape, NEW a \in Attempt, NEW place \in Pcs, Goto(a, place)
  PROVE  /\ pc' \in [Attempt -> Pcs]
         /\ pc'[a] = place
         /\ \A b \in Attempt \ {a} : pc'[b] = pc[b]
BY DEF Shape, Goto

LEMMA LimitIsLease ==
  ASSUME NEW a \in Attempt
  PROVE  /\ Limit(a) \in {"", "lost", "stop"}
         /\ Limit(a) = "" => lease = a
BY DEF Limit, Leased

LEMMA Finished == Finish => lease' \in {lease, 0}
BY DEF Finish
-----------------------------------------------------------------------------
(* Parts of the invariant that a step leaves alone                         *)

LEMMA ThreadsFrame ==
  ASSUME IInv, gate' = gate, bridge' = bridge, launched \subseteq launched',
         \A o \in Model \cup Read : ops'[o] = ops[o]
  PROVE  \A a \in Attempt : GateOK(a)' /\ BridgeOK(a)'
BY DEF IInv, GateOK, BridgeOK, Is

LEMMA LedgerFrame ==
  ASSUME IInv, ops' = ops, charge' = charge
  PROVE  /\ \A o \in Ops : RowOK(o)'
         /\ Prefix'
BY DEF IInv, RowOK, Prefix, Is

\* A supervisor's step that changes no row.
LEMMA QuietStep ==
  ASSUME IInv, ops' = ops, charge' = charge, gate' = gate, bridge' = bridge,
         launched' = launched, pc' \in [Attempt -> Pcs], OneProcess'
  PROVE  IInv'
<1>1. Shape'
  BY DEF IInv, Shape
<1>2. \A a \in Attempt : GateOK(a)' /\ BridgeOK(a)'
  BY ThreadsFrame
<1> QED
  BY <1>1, <1>2, LedgerFrame DEF IInv

\* One that changes the wake's row and charge only.
LEMMA WakeStep ==
  ASSUME IInv, gate' = gate, bridge' = bridge,
         launched \subseteq launched', launched' \subseteq Attempt,
         ops' = [p \in Ops |-> ops'[p]],
         charge' = [p \in Ops |-> charge'[p]],
         \A p \in Ops \ {Wake} : ops'[p] = ops[p] /\ charge'[p] = charge[p],
         ops'[Wake] = [state |-> ops'[Wake].state, reserved |-> ops'[Wake].reserved,
                       cost |-> ops'[Wake].cost, denied |-> ops'[Wake].denied],
         ops'[Wake].state \in OpStates \ {"none"},
         RowOK(Wake)', pc' \in [Attempt -> Pcs], OneProcess'
  PROVE  IInv'
<1>1. /\ ops' = [p \in Ops |-> [state |-> ops'[p].state, reserved |-> ops'[p].reserved,
                                cost |-> ops'[p].cost, denied |-> ops'[p].denied]]
      /\ \A p \in Ops : ops'[p].state \in OpStates
      /\ \A p \in Ops : RowOK(p)'
      /\ Prefix'
  BY OneRow, Kinds
<1>2. Shape'
  BY <1>1 DEF IInv, Shape
<1>3. \A a \in Attempt : GateOK(a)' /\ BridgeOK(a)'
  BY ThreadsFrame, Kinds
<1> QED
  BY <1>1, <1>2, <1>3 DEF IInv

-----------------------------------------------------------------------------
(* The supervisor                                                          *)

LEMMA ClaimPreserves ==
  ASSUME IInv, NEW a \in Attempt, Claim(a)
  PROVE  IInv'
<1>1. CASE Finish /\ Goto(a, "over") /\ ops' = ops /\ charge' = charge
  <2>1. /\ pc' \in [Attempt -> Pcs] /\ pc'[a] = "over"
        /\ \A b \in Attempt \ {a} : pc'[b] = pc[b]
    BY <1>1, Went DEF IInv, Pcs
  <2>2. OneProcess'
    BY <1>1, <2>1, Finished DEF IInv, OneProcess, Claim, Is, Attempt
  <2> QED
    BY <1>1, <2>1, <2>2, QuietStep DEF Claim
<1>2. CASE /\ ops' = [o \in Ops |-> IF o \in Repeatable /\ Is(o, Unresolved)
                                     THEN [ops[o] EXCEPT !.state = "planned"] ELSE ops[o]]
           /\ lease' = a /\ Goto(a, "open") /\ charge' = charge
  <2>1. /\ pc' \in [Attempt -> Pcs] /\ pc'[a] = "open"
        /\ \A b \in Attempt \ {a} : pc'[b] = pc[b]
    BY <1>2, Went DEF IInv, Pcs
  <2>2. ASSUME NEW o \in Ops
        PROVE  /\ ops'[o] = [state |-> ops'[o].state, reserved |-> ops'[o].reserved,
                             cost |-> ops'[o].cost, denied |-> ops'[o].denied]
               /\ \/ ops'[o] = ops[o]
                  \/ /\ o \in Read /\ ops[o].reserved = 0 /\ ops[o].state \in Unresolved
                     /\ ops'[o].state = "planned" /\ ops'[o].reserved = 0
                     /\ ops'[o].cost = ops[o].cost
    <3>1. ops[o] = [state |-> ops[o].state, reserved |-> ops[o].reserved,
                    cost |-> ops[o].cost, denied |-> ops[o].denied]
      BY Rows DEF IInv
    <3>2. CASE o \in Repeatable /\ Is(o, Unresolved)
      <4>1. ops'[o] = [state |-> "planned", reserved |-> ops[o].reserved,
                       cost |-> ops[o].cost, denied |-> ops[o].denied]
        BY <1>2, <3>1, <3>2
      <4> QED
        BY <3>2, <4>1 DEF Repeatable, Is
    <3>3. CASE ~(o \in Repeatable /\ Is(o, Unresolved))
      <4>1. ops'[o] = ops[o]
        BY <1>2, <3>3
      <4> QED
        BY <3>1, <4>1
    <3> QED
      BY <3>2, <3>3
  <2>3. /\ gate' = gate /\ bridge' = bridge /\ launched' = launched
    BY DEF Claim
  <2>4. Shape'
    <3>1. \A o \in Ops : /\ ops'[o] = [state |-> ops'[o].state, reserved |-> ops'[o].reserved,
                                       cost |-> ops'[o].cost, denied |-> ops'[o].denied]
                         /\ ops'[o].state \in OpStates
      BY <2>2, Rows DEF IInv, OpStates
    <3>2. ops' = [o \in Ops |-> ops'[o]]
      BY <1>2
    <3> QED
      BY <1>2, <2>1, <2>3, <3>1, <3>2 DEF IInv, Shape
  <2>5. ops'[Wake] = ops[Wake]
    BY <2>2, Kinds
  <2>6. OneProcess'
    BY <1>2, <2>1, <2>3, <2>5 DEF IInv, OneProcess, Is, Claim
  <2>7. ASSUME NEW o \in Ops PROVE RowOK(o)'
    <3>1. RowOK(o) /\ charge'[o] = charge[o]
      BY <1>2 DEF IInv
    <3>2. CASE ops'[o] = ops[o]
      BY <3>1, <3>2 DEF RowOK, Is
    <3>3. CASE ops'[o] # ops[o]
      <4>1. /\ o \in Read /\ o # Wake /\ ops[o].reserved = 0 /\ ops[o].state \in Unresolved
            /\ ops'[o].state = "planned" /\ ops'[o].reserved = 0 /\ ops'[o].cost = ops[o].cost
        BY <2>2, <3>3, Kinds
      <4>2. ops[o].cost = 0 /\ charge[o] = 0
        BY <3>1, <4>1 DEF RowOK, Is, Unresolved
      <4> QED
        BY <3>1, <4>1, <4>2 DEF RowOK, Is
    <3> QED
      BY <3>2, <3>3
  <2>8. Prefix'
    <3>1. \A o \in Ops : Is(o, {"none"})' <=> Is(o, {"none"})
      BY <2>2 DEF Is, Unresolved
    <3>2. \A n \in 1..MaxModel : <<"model", n>> \in Ops
      BY Kinds DEF Model
    <3> QED
      BY <3>1, <3>2 DEF IInv, Prefix
  <2>9. ASSUME NEW b \in Attempt PROVE GateOK(b)' /\ BridgeOK(b)'
    <3>1. GateOK(b)'
      BY <2>2, <2>3, Kinds DEF IInv, GateOK, Is
    <3>2. BridgeOK(b)'
      BY <2>2, <2>3, Kinds DEF IInv, BridgeOK, Is, Unresolved
    <3> QED
      BY <3>1, <3>2
  <2> QED
    BY <2>4, <2>6, <2>7, <2>8, <2>9 DEF IInv
<1> QED
  BY <1>1, <1>2 DEF Claim, ledger

LEMMA OpenPreserves ==
  ASSUME IInv, NEW a \in Attempt, Open(a)
  PROVE  IInv'
<1>1. /\ charge' = charge /\ gate' = gate /\ bridge' = bridge /\ launched' = launched
      /\ lease' = lease /\ pc[a] = "open"
  BY DEF Open, row
<1>2. CASE /\ ops' = ops
           /\ \/ \E failure : Raise(a, failure)
              \/ Goto(a, "start") /\ Is(Wake, {"planned"})
  <2>1. /\ pc' \in [Attempt -> Pcs]
        /\ \A b \in Attempt \ {a} : pc'[b] = pc[b]
        /\ \/ pc'[a] \in {"over", "end", "mark"}
           \/ pc'[a] = "start" /\ Is(Wake, {"planned"})
    BY <1>2, Raised, Went DEF IInv, Pcs
  <2>2. OneProcess'
    BY <1>1, <1>2, <2>1 DEF IInv, OneProcess, Is
  <2> QED
    BY <1>1, <1>2, <2>1, <2>2, QuietStep
<1>3. CASE /\ Begun(Wake, WakeReserve) /\ Goto(a, "start")
           /\ Is(Wake, {"none"}) /\ Limit(a) = ""
  <2>1. /\ pc' \in [Attempt -> Pcs] /\ pc'[a] = "start"
        /\ \A b \in Attempt \ {a} : pc'[b] = pc[b]
    BY <1>3, Went DEF IInv, Pcs
  <2>2. /\ ops' = [p \in Ops |-> ops'[p]]
        /\ \A p \in Ops \ {Wake} : ops'[p] = ops[p]
        /\ ops'[Wake] = [state |-> "planned", reserved |-> WakeReserve, cost |-> 0, denied |-> FALSE]
    BY <1>3, BegunRow, Kinds DEF IInv
  <2>3. launched = {}
    BY <1>3 DEF IInv, OneProcess, Is
  <2>4. lease = a
    BY <1>3, LimitIsLease
  <2>5. OneProcess'
    BY <1>1, <2>1, <2>3, <2>4 DEF IInv, OneProcess
  <2>6. RowOK(Wake)'
    <3>1. charge'[Wake] = 0
      BY <1>1, <1>3, Kinds DEF IInv, RowOK, Is
    <3>2. ops'[Wake].state = "planned" /\ ops'[Wake].cost = 0 /\ Wake \notin Read
      BY <2>2, Kinds
    <3> QED
      BY <3>1, <3>2 DEF RowOK, Is
  <2>7. charge' = [p \in Ops |-> charge'[p]] /\ launched' \subseteq Attempt
    BY <1>1 DEF IInv, Shape
  <2> QED
    BY <1>1, <2>1, <2>2, <2>5, <2>6, <2>7, WakeStep DEF OpStates
<1> QED
  BY <1>2, <1>3 DEF Open

\* Steps that move the supervisor, the lease and the brief only.
LEMMA SupervisorMoves ==
  ASSUME IInv, NEW a \in Attempt,
         ops' = ops, charge' = charge, gate' = gate, bridge' = bridge, launched' = launched,
         lease' \in {lease, 0},
         \/ \E failure : Raise(a, failure)
         \/ \E place \in {"settle", "commit", "end", "over"} : Goto(a, place)
         \/ pc[a] = "save" /\ Goto(a, "launch")
         \/ pc[a] = "launch" /\ Goto(a, "check")
  PROVE  IInv'
<1>1. /\ pc' \in [Attempt -> Pcs]
      /\ \A b \in Attempt \ {a} : pc'[b] = pc[b]
      /\ \/ pc'[a] \in {"over", "end", "mark", "settle", "commit"}
         \/ pc[a] = "save" /\ pc'[a] = "launch"
         \/ pc[a] = "launch" /\ pc'[a] = "check"
  BY Raised, Went DEF IInv, Pcs
<1>2. OneProcess'
  BY <1>1 DEF IInv, OneProcess, Is, Attempt
<1> QED
  BY <1>1, <1>2, QuietStep

LEMMA StartPreserves ==
  ASSUME IInv, NEW a \in Attempt, Start(a)
  PROVE  IInv'
<1>1. /\ charge' = charge /\ gate' = gate /\ bridge' = bridge /\ launched' = launched
      /\ lease' = lease /\ pc[a] = "start" /\ SetState(Wake, "started") /\ Goto(a, "save")
  BY DEF Start, row
<1>2. /\ ops' = [p \in Ops |-> ops'[p]]
      /\ \A p \in Ops \ {Wake} : ops'[p] = ops[p]
      /\ ops'[Wake] = [state |-> "started", reserved |-> ops[Wake].reserved,
                       cost |-> ops[Wake].cost, denied |-> ops[Wake].denied]
  BY <1>1, SetStateRow, Kinds DEF IInv
<1>3. /\ pc' \in [Attempt -> Pcs] /\ pc'[a] = "save"
      /\ \A b \in Attempt \ {a} : pc'[b] = pc[b]
  BY <1>1, Went DEF IInv, Pcs
<1>4. ops'[Wake].state = "started"
  BY <1>2
<1>5. RowOK(Wake)'
  BY <1>4, Kinds DEF RowOK, Is
<1>6. OneProcess'
  BY <1>1, <1>3, <1>4 DEF IInv, OneProcess, Is, Unresolved
<1>7. charge' = [p \in Ops |-> charge'[p]] /\ launched' \subseteq Attempt
  BY <1>1 DEF IInv, Shape
<1> QED
  BY <1>1, <1>2, <1>3, <1>4, <1>5, <1>6, <1>7, WakeStep DEF OpStates, Unresolved

\* The process is left to run only by the owner of the lease, which opened the
\* wake after every other attempt had lost it.
LEMMA CheckPreserves ==
  ASSUME IInv, NEW a \in Attempt, Check(a)
  PROVE  IInv'
<1>1. /\ ops' = ops /\ gate' = gate /\ bridge' = bridge /\ lease' = lease /\ pc[a] = "check"
  BY DEF Check, row
<1>2. CASE FirstCheck(a) # ""
  BY <1>1, <1>2, SupervisorMoves DEF Check
<1>3. CASE FirstCheck(a) = ""
  <2>1. /\ Goto(a, "watch") /\ launched' = launched \cup {a}
        /\ \/ charge' = charge
           \/ \E c : charge' = [charge EXCEPT ![Wake] = c]
    BY <1>3 DEF Check, Works, IInv
  <2>2. lease = a
    BY <1>3, LimitIsLease DEF FirstCheck
  <2>3. launched = {} /\ Is(Wake, Unresolved)
    BY <1>1, <2>2 DEF IInv, OneProcess
  <2>4. /\ pc' \in [Attempt -> Pcs] /\ pc'[a] = "watch"
        /\ \A b \in Attempt \ {a} : pc'[b] = pc[b]
    BY <2>1, Went DEF IInv, Pcs
  <2>5. OneProcess'
    BY <1>1, <2>1, <2>2, <2>3, <2>4 DEF IInv, OneProcess, Is, Unresolved
  <2>6. RowOK(Wake)'
    BY <1>1, <2>3, Kinds DEF RowOK, Is, Unresolved
  <2>7. /\ charge' = [p \in Ops |-> charge'[p]]
        /\ \A p \in Ops \ {Wake} : charge'[p] = charge[p]
    BY <2>1 DEF IInv, Shape
  <2>8. /\ ops' = [p \in Ops |-> ops'[p]]
        /\ ops'[Wake] = [state |-> ops'[Wake].state, reserved |-> ops'[Wake].reserved,
                         cost |-> ops'[Wake].cost, denied |-> ops'[Wake].denied]
        /\ ops'[Wake].state \in OpStates \ {"none"}
    BY <1>1, <2>3, Rows, Kinds DEF IInv, Shape, Is, Unresolved
  <2> QED
    BY <1>1, <2>1, <2>4, <2>5, <2>6, <2>7, <2>8, WakeStep DEF IInv, Shape
<1> QED
  BY <1>2, <1>3

LEMMA SettlePreserves ==
  ASSUME IInv, NEW a \in Attempt, Settle(a)
  PROVE  IInv'
<1>1. /\ charge' = charge /\ gate' = gate /\ bridge' = bridge /\ launched' = launched
      /\ lease' = lease /\ pc[a] = "settle"
      /\ (\E failure : Raise(a, failure)) \/ Goto(a, "commit")
  BY DEF Settle, row
<1>2. CASE ops' = ops
  BY <1>1, <1>2, SupervisorMoves
<1>3. CASE Leased(a) /\ Completed(Wake, charge[Wake])
  <2>1. /\ ops' = [p \in Ops |-> ops'[p]]
        /\ \A p \in Ops \ {Wake} : ops'[p] = ops[p]
        /\ \/ Is(Wake, {"completed"}) /\ ops'[Wake] = ops[Wake]
           \/ ops'[Wake] = [state |-> "completed", reserved |-> ops[Wake].reserved,
                            cost |-> charge[Wake], denied |-> ops[Wake].denied]
    BY <1>3, CompletedRow, Kinds DEF IInv
  <2>2. /\ pc' \in [Attempt -> Pcs] /\ pc'[a] \in {"over", "end", "mark", "commit"}
        /\ \A b \in Attempt \ {a} : pc'[b] = pc[b]
    BY <1>1, Raised, Went DEF IInv, Pcs
  <2>3. ops'[Wake].state = "completed" /\ ops'[Wake].cost = charge[Wake]
    <3>1. CASE Is(Wake, {"completed"}) /\ ops'[Wake] = ops[Wake]
      BY <3>1, Kinds DEF IInv, RowOK, Is
    <3> QED
      BY <2>1, <3>1
  <2>4. RowOK(Wake)'
    BY <1>1, <2>3, Kinds DEF RowOK, Is
  <2>5. OneProcess'
    <3>1. lease = a
      BY <1>3 DEF Leased
    <3> QED
      BY <1>1, <2>2, <2>3, <3>1 DEF IInv, OneProcess, Is
  <2>6. charge' = [p \in Ops |-> charge'[p]] /\ launched' \subseteq Attempt
    BY <1>1 DEF IInv, Shape
  <2>7. ops'[Wake] = [state |-> ops'[Wake].state, reserved |-> ops'[Wake].reserved,
                      cost |-> ops'[Wake].cost, denied |-> ops'[Wake].denied]
    <3>1. CASE ops'[Wake] = ops[Wake]
      BY <3>1, Rows, Kinds DEF IInv
    <3> QED
      BY <2>1, <3>1
  <2> QED
    BY <1>1, <2>1, <2>2, <2>3, <2>4, <2>5, <2>6, <2>7, WakeStep DEF OpStates
<1> QED
  BY <1>2, <1>3 DEF Settle

LEMMA MarkPreserves ==
  ASSUME IInv, NEW a \in Attempt, Mark(a)
  PROVE  IInv'
<1>1. /\ charge' = charge /\ gate' = gate /\ bridge' = bridge /\ launched' = launched
      /\ lease' = lease /\ pc[a] = "mark" /\ Goto(a, "end")
      /\ ops' = [o \in Ops |-> IF Is(o, {"started"}) THEN [ops[o] EXCEPT !.state = "unknown"]
                                ELSE ops[o]]
  BY DEF Mark, row
<1>2. ASSUME NEW o \in Ops
      PROVE  /\ ops'[o] = [state |-> ops'[o].state, reserved |-> ops'[o].reserved,
                           cost |-> ops'[o].cost, denied |-> ops'[o].denied]
             /\ \/ ops'[o] = ops[o]
                \/ /\ ops[o].state = "started" /\ ops'[o].state = "unknown"
                   /\ ops'[o].reserved = ops[o].reserved /\ ops'[o].cost = ops[o].cost
  <2>1. ops[o] = [state |-> ops[o].state, reserved |-> ops[o].reserved,
                  cost |-> ops[o].cost, denied |-> ops[o].denied]
    BY Rows DEF IInv
  <2>2. CASE Is(o, {"started"})
    <3>1. ops'[o] = [state |-> "unknown", reserved |-> ops[o].reserved,
                     cost |-> ops[o].cost, denied |-> ops[o].denied]
      BY <1>1, <2>1, <2>2
    <3> QED
      BY <2>2, <3>1 DEF Is
  <2>3. CASE ~Is(o, {"started"})
    <3>1. ops'[o] = ops[o]
      BY <1>1, <2>3
    <3> QED
      BY <2>1, <3>1
  <2> QED
    BY <2>2, <2>3
<1>3. /\ pc' \in [Attempt -> Pcs] /\ pc'[a] = "end"
      /\ \A b \in Attempt \ {a} : pc'[b] = pc[b]
  BY <1>1, Went DEF IInv, Pcs
<1>4. Shape'
  <2>1. \A o \in Ops : ops'[o].state \in OpStates
    BY <1>2 DEF IInv, Shape, OpStates, Unresolved
  <2> QED
    BY <1>1, <1>2, <1>3, <2>1 DEF IInv, Shape
<1>5. OneProcess'
  <2>1. \/ ops'[Wake].state = ops[Wake].state
        \/ ops[Wake].state = "started" /\ ops'[Wake].state = "unknown"
    BY <1>2, Kinds
  <2> QED
    BY <1>1, <1>3, <2>1 DEF IInv, OneProcess, Is, Unresolved
<1>6. ASSUME NEW o \in Ops PROVE RowOK(o)'
  <2>1. RowOK(o) /\ charge'[o] = charge[o]
    BY <1>1 DEF IInv
  <2> QED
    BY <1>2, <2>1 DEF RowOK, Is
<1>7. Prefix'
  <2>1. \A o \in Ops : Is(o, {"none"})' <=> Is(o, {"none"})
    BY <1>2 DEF Is
  <2>2. \A n \in 1..MaxModel : <<"model", n>> \in Ops
    BY Kinds DEF Model
  <2> QED
    BY <2>1, <2>2 DEF IInv, Prefix
<1>8. ASSUME NEW b \in Attempt PROVE GateOK(b)' /\ BridgeOK(b)'
  <2>1. \A o \in Model \cup Read :
          /\ ops[o].state = "planned" => ops'[o].state = "planned"
          /\ ops[o].state = "failed" => ops'[o].state = "failed"
          /\ ops[o].state \in Unresolved => ops'[o].state \in Unresolved
    BY <1>2, Kinds DEF Unresolved
  <2>2. GateOK(b)'
    BY <1>1, <2>1 DEF IInv, GateOK, Is
  <2>3. BridgeOK(b)'
    BY <1>1, <2>1 DEF IInv, BridgeOK, Is
  <2> QED
    BY <2>2, <2>3
<1> QED
  BY <1>4, <1>5, <1>6, <1>7, <1>8 DEF IInv

LEMMA SupervisorPreserves ==
  ASSUME IInv, NEW a \in Attempt, Supervisor(a)
  PROVE  IInv'
<1>1. CASE NotPrepared(a) \/ Save(a) \/ Supervise(a) \/ Exit(a)
  BY <1>1, SupervisorMoves DEF NotPrepared, Save, Supervise, Exit, row, ledger
<1>3. CASE Launch(a)
  <2>1. /\ ops' = ops /\ charge' = charge /\ gate' = gate /\ bridge' = bridge
        /\ launched' = launched /\ lease' = lease
        /\ Raise(a, "error") \/ (pc[a] = "launch" /\ Goto(a, "check"))
    BY <1>3 DEF IInv, Launch, row
  <2> QED
    BY <2>1, SupervisorMoves
<1>2. CASE Commit(a) \/ End(a)
  BY <1>2, SupervisorMoves, Finished DEF Commit, End, ledger
<1> QED
  BY <1>1, <1>2, <1>3, ClaimPreserves, OpenPreserves, StartPreserves, CheckPreserves,
     SettlePreserves, MarkPreserves DEF Supervisor

-----------------------------------------------------------------------------
(* The gateway                                                             *)

\* Calls up to the k-th are k rows.
LEMMA CallsUpTo ==
  ASSUME NEW k \in Nat
  PROVE  /\ IsFiniteSet({<<"model", n>> : n \in 1..k})
         /\ Cardinality({<<"model", n>> : n \in 1..k}) = k
<1> DEFINE calls == {<<"model", n>> : n \in 1..k}
           f == [n \in 1..k |-> <<"model", n>>]
<1>1. f \in Bijection(1..k, calls)
  BY DEF Bijection, Injection, Surjection, IsInjective
<1>2. IsFiniteSet(1..k) /\ Cardinality(1..k) = k
  BY FS_Interval
<1> QED
  BY <1>1, <1>2, FS_Bijection DEF ExistsBijection

\* The number of calls counted so far is the index of the last one.
LEMMA NextIsNew ==
  ASSUME IInv, NEW used, used = Cardinality({o \in Model : ~Is(o, {"none"})}), used < MaxModel
  PROVE  /\ used \in Nat
         /\ \A n \in 1..MaxModel : ~Is(<<"model", n>>, {"none"}) <=> n <= used
<1> DEFINE made == {o \in Model : ~Is(o, {"none"})}
           calls(k) == {<<"model", n>> : n \in 1..k}
<1>1. MaxModel \in Nat
  BY LimitsAssumption
<1>2. Model = calls(MaxModel) /\ made \subseteq calls(MaxModel)
  BY DEF Model
<1>3. IsFiniteSet(made) /\ used \in Nat
  BY <1>1, <1>2, CallsUpTo, FS_Subset, FS_CardinalityType
<1>4. ASSUME NEW n \in 1..MaxModel, ~Is(<<"model", n>>, {"none"}) PROVE n <= used
  <2>1. ASSUME NEW m \in 1..n PROVE ~Is(<<"model", m>>, {"none"})
    <3>1. m \in 1..MaxModel /\ (m = n \/ m < n)
      BY <1>1
    <3> QED
      BY <3>1, <1>4 DEF IInv, Prefix
  <2>2. calls(n) \subseteq made
    BY <2>1, <1>1 DEF Model
  <2>3. n \in Nat
    BY <1>1
  <2>4. Cardinality(calls(n)) = n
    BY <2>3, CallsUpTo
  <2> QED
    BY <2>2, <2>3, <2>4, <1>3, FS_Subset
<1>5. ASSUME NEW n \in 1..MaxModel, n <= used, Is(<<"model", n>>, {"none"}) PROVE FALSE
  <2>1. \A m \in 1..MaxModel : ~Is(<<"model", m>>, {"none"}) => m \in 1..(n - 1)
    BY <1>5, <1>1 DEF IInv, Prefix
  <2>2. made \subseteq calls(n - 1)
    BY <2>1 DEF Model
  <2>3. IsFiniteSet(calls(n - 1)) /\ Cardinality(calls(n - 1)) = n - 1
    BY CallsUpTo
  <2>4. used <= n - 1
    BY <2>2, <2>3, FS_Subset
  <2> QED
    BY <2>4, <1>3, <1>5
<1> QED
  BY <1>3, <1>4, <1>5

LEMMA GateMoves ==
  ASSUME Shape, NEW a \in Attempt, NEW o \in Ops,
         NEW place \in {"rest", "send", "reply", "account"}, GateTo(a, place, o)
  PROVE  /\ gate' \in [Attempt -> Threads]
         /\ gate'[a].at = place /\ gate'[a].op = o
         /\ \A b \in Attempt \ {a} : gate'[b] = gate[b]
<1>1. gate[a] \in Threads
  BY DEF Shape
<1>2. /\ gate' \in [Attempt -> Threads]
      /\ gate'[a] = [at |-> place, op |-> o, failure |-> gate[a].failure]
  BY <1>1 DEF Shape, GateTo, Threads
<1> QED
  BY <1>2 DEF Shape, GateTo

LEMMA GateStops ==
  ASSUME Shape, NEW a \in Attempt, NEW failure \in Failures,
         GateFails(a, failure) \/ gate' = [gate EXCEPT ![a] = Rest]
  PROVE  /\ gate' \in [Attempt -> Threads]
         /\ gate'[a].at = "rest"
         /\ \A b \in Attempt \ {a} : gate'[b] = gate[b]
<1>1. "" \in Failures
  BY DEF Failures
<1>2. CASE GateFails(a, failure)
  <2>1. gate'[a] = [Rest EXCEPT !.failure = failure]
    BY <1>2 DEF GateFails, Shape
  <2>2. gate'[a] = [at |-> "rest", op |-> Wake, failure |-> failure]
    BY <2>1 DEF Rest
  <2>3. gate'[a] \in Threads
    BY <2>2, Kinds DEF Threads
  <2>4. /\ gate' = [b \in Attempt |-> gate'[b]]
        /\ \A b \in Attempt \ {a} : gate'[b] = gate[b]
    BY <1>2 DEF GateFails, Shape
  <2> QED
    BY <2>2, <2>3, <2>4 DEF Shape
<1>3. CASE gate' = [gate EXCEPT ![a] = Rest]
  <2>1. Rest \in Threads /\ Rest.at = "rest"
    BY <1>1, Kinds DEF Threads, Rest
  <2> QED
    BY <1>3, <2>1 DEF Shape
<1> QED
  BY <1>2, <1>3

\* One process works, so no other gateway is at work on a call.
LEMMA GateFrame ==
  ASSUME IInv, NEW a \in launched, launched' = launched, GateOK(a)',
         \A b \in Attempt \ {a} : gate'[b] = gate[b]
  PROVE  \A b \in Attempt : GateOK(b)'
<1>1. \A b \in Attempt \ {a} : gate[b].at = "rest"
  BY DEF IInv, GateOK, OneProcess
<1> QED
  BY <1>1 DEF GateOK

LEMMA GateQuiet ==
  ASSUME IInv, NEW a \in Attempt, a \in launched, ops' = ops, charge' = charge,
         pc' = pc, lease' = lease, launched' = launched, bridge' = bridge,
         gate' \in [Attempt -> Threads], GateOK(a)',
         \A b \in Attempt \ {a} : gate'[b] = gate[b]
  PROVE  IInv'
<1>1. Shape' /\ OneProcess'
  BY DEF IInv, Shape, OneProcess, Is
<1>2. \A b \in Attempt : BridgeOK(b)'
  BY DEF IInv, BridgeOK, Is
<1> QED
  BY <1>1, <1>2, GateFrame, LedgerFrame DEF IInv

LEMMA GateStep ==
  ASSUME IInv, NEW a \in Attempt, a \in launched, NEW x \in Model,
         ops' = [p \in Ops |-> ops'[p]],
         charge' = [p \in Ops |-> charge'[p]],
         \A p \in Ops \ {x} : ops'[p] = ops[p] /\ charge'[p] = charge[p],
         ops'[x] = [state |-> ops'[x].state, reserved |-> ops'[x].reserved,
                    cost |-> ops'[x].cost, denied |-> ops'[x].denied],
         ops'[x].state \in OpStates \ {"none"},
         ~Is(x, {"none"}) \/ Prefix', RowOK(x)',
         pc' = pc, lease' = lease, launched' = launched, bridge' = bridge,
         gate' \in [Attempt -> Threads], GateOK(a)',
         \A b \in Attempt \ {a} : gate'[b] = gate[b]
  PROVE  IInv'
<1>1. x \in Ops
  BY Kinds
<1>2. /\ ops' = [p \in Ops |-> [state |-> ops'[p].state, reserved |-> ops'[p].reserved,
                                cost |-> ops'[p].cost, denied |-> ops'[p].denied]]
      /\ \A p \in Ops : ops'[p].state \in OpStates
      /\ \A p \in Ops : RowOK(p)'
      /\ Prefix'
  BY <1>1, OneRow
<1>3. Shape'
  BY <1>2 DEF IInv, Shape
<1>4. OneProcess'
  <2>1. ops'[Wake] = ops[Wake]
    BY Kinds
  <2> QED
    BY <2>1 DEF IInv, OneProcess, Is
<1>5. \A b \in Attempt : BridgeOK(b)'
  <2>1. \A o \in Read : ops'[o] = ops[o]
    BY Kinds
  <2> QED
    BY <2>1 DEF IInv, BridgeOK, Is
<1> QED
  BY <1>2, <1>3, <1>4, <1>5, GateFrame DEF IInv

LEMMA AdmitPreserves ==
  ASSUME IInv, NEW a \in Attempt, Admit(a)
  PROVE  IInv'
<1> DEFINE used == Cardinality({o \in Model : ~Is(o, {"none"})})
           next == <<"model", used + 1>>
<1>1. /\ charge' = charge /\ pc' = pc /\ lease' = lease /\ bridge' = bridge
      /\ launched' = launched
  BY DEF Admit, row
<1>2. a \in launched
  BY DEF Admit, GateOpen, Running, IInv, OneProcess
<1>3. CASE ops' = ops /\ \E failure \in Failures : GateFails(a, failure)
  <2>1. /\ gate' \in [Attempt -> Threads] /\ gate'[a].at = "rest"
        /\ \A b \in Attempt \ {a} : gate'[b] = gate[b]
    BY <1>3, GateStops DEF IInv
  <2> QED
    BY <1>1, <1>2, <1>3, <2>1, GateQuiet DEF GateOK
<1>4. CASE /\ used < MaxModel
           /\ \E price \in Price : Begun(next, price)
           /\ GateTo(a, "send", next)
  <2>2. /\ used \in Nat
        /\ \A n \in 1..MaxModel : ~Is(<<"model", n>>, {"none"}) <=> n <= used
    BY <1>4, NextIsNew
  <2> HIDE DEF used
  <2>0. used + 1 \in 1..MaxModel
    BY <1>4, <2>2, LimitsAssumption
  <2>1. PICK k \in 1..MaxModel, o \in Model, price \in Price :
          k = used + 1 /\ o = <<"model", k>> /\ o \in Ops /\ Begun(o, price) /\ GateTo(a, "send", o)
    BY <1>4, <2>0, Kinds DEF Model
  <2>3. k \in Nat /\ \A n \in 1..MaxModel : ~Is(<<"model", n>>, {"none"}) <=> n < k
    BY <2>1, <2>2
  <2>4. Is(o, {"none"})
    BY <2>1, <2>3
  <2> HIDE DEF next
  <2>5. /\ ops' = [p \in Ops |-> ops'[p]]
        /\ \A p \in Ops \ {o} : ops'[p] = ops[p]
        /\ ops'[o] = [state |-> "planned", reserved |-> price, cost |-> 0, denied |-> FALSE]
    BY <2>1, BegunRow DEF IInv
  <2>6. /\ gate' \in [Attempt -> Threads] /\ gate'[a].at = "send" /\ gate'[a].op = o
        /\ \A b \in Attempt \ {a} : gate'[b] = gate[b]
    BY <2>1, GateMoves DEF IInv
  <2>7. ops'[o].state = "planned" /\ ops'[o].cost = 0
    BY <2>5
  <2>8. RowOK(o)'
    <3>1. charge'[o] = 0
      BY <1>1, <2>1, <2>4 DEF IInv, RowOK, Is
    <3> QED
      BY <2>1, <2>7, <3>1, Kinds DEF RowOK, Is
  <2>9. GateOK(a)'
    BY <1>1, <1>2, <2>1, <2>6, <2>7 DEF GateOK, Is
  <2>10. Prefix'
    <3>1. ASSUME NEW n \in 1..MaxModel
          PROVE  ~Is(<<"model", n>>, {"none"})' <=> n <= k
      <4>1. <<"model", n>> \in Ops
        BY Kinds DEF Model
      <4>2. CASE n = k
        BY <4>2, <2>1, <2>7 DEF Is
      <4>3. CASE n # k
        <5>1. <<"model", n>> # o
          BY <4>3, <2>1
        <5>2. ops'[<<"model", n>>] = ops[<<"model", n>>]
          BY <4>1, <5>1, <2>5
        <5>3. ~Is(<<"model", n>>, {"none"}) <=> n < k
          BY <2>3
        <5>4. n \in Int /\ (n < k <=> n <= k)
          BY <4>3, <2>3
        <5> QED
          BY <5>2, <5>3, <5>4 DEF Is
      <4> QED
        BY <4>2, <4>3
    <3>2. \A m, n \in 1..MaxModel : n < m /\ m <= k => n <= k
      BY <2>3
    <3> QED
      BY <3>1, <3>2 DEF Prefix
  <2>11. charge' = [p \in Ops |-> charge'[p]]
    BY <1>1 DEF IInv, Shape
  <2>12. /\ ops'[o] = [state |-> ops'[o].state, reserved |-> ops'[o].reserved,
                      cost |-> ops'[o].cost, denied |-> ops'[o].denied]
         /\ ops'[o].state \in OpStates \ {"none"}
    BY <2>5, <2>7 DEF OpStates
  <2> QED
    BY <1>1, <1>2, <2>1, <2>5, <2>6, <2>7, <2>8, <2>9, <2>10, <2>11, <2>12, GateStep
<1> QED
  <2>1. {"error", "stop", "lost"} \subseteq Failures
    BY DEF Failures
  <2>2. Limit(a) \in {"", "lost", "stop"}
    BY LimitIsLease
  <2> QED
    BY <1>3, <1>4, <2>1, <2>2 DEF Admit

\* What the call of a busy gateway is.
LEMMA GateCall ==
  ASSUME IInv, NEW a \in Attempt, gate[a].at # "rest"
  PROVE  /\ a \in launched
         /\ gate[a].op \in Model /\ gate[a].op \in Ops /\ gate[a].op # Wake
         /\ gate[a].op \notin Read
         /\ ~Is(gate[a].op, {"none", "completed"})
         /\ gate[a].at # "send" => Is(gate[a].op, Unresolved)
         /\ ops[gate[a].op].cost = 0
<1>1. a \in launched /\ gate[a].op \in Model
  BY DEF IInv, GateOK
<1>2. gate[a].op \in Ops /\ gate[a].op # Wake /\ gate[a].op \notin Read
  BY <1>1, Kinds
<1>3. /\ ~Is(gate[a].op, {"none", "completed"})
      /\ gate[a].at # "send" => Is(gate[a].op, Unresolved)
  BY DEF IInv, GateOK, Is, Unresolved
<1>4. ops[gate[a].op].cost = 0
  BY <1>2, <1>3 DEF IInv, RowOK, Is
<1> QED
  BY <1>1, <1>2, <1>3, <1>4

LEMMA SendModelPreserves ==
  ASSUME IInv, NEW a \in Attempt, SendModel(a)
  PROVE  IInv'
<1>1. /\ pc' = pc /\ lease' = lease /\ bridge' = bridge /\ launched' = launched
      /\ gate[a].at = "send" /\ SetState(gate[a].op, "started") /\ GateTo(a, "reply", gate[a].op)
      /\ \E c : charge' = [charge EXCEPT ![gate[a].op] = c]
  BY DEF SendModel, row, GateAt, Sent
<1>2. PICK o \in Model :
        /\ o = gate[a].op /\ a \in launched /\ o \in Ops /\ o # Wake /\ o \notin Read
        /\ ~Is(o, {"none"}) /\ ops[o].cost = 0
  BY <1>1, GateCall DEF Is
<1>3. /\ ops' = [p \in Ops |-> ops'[p]]
      /\ \A p \in Ops \ {o} : ops'[p] = ops[p]
      /\ ops'[o] = [state |-> "started", reserved |-> ops[o].reserved,
                    cost |-> ops[o].cost, denied |-> ops[o].denied]
  BY <1>1, <1>2, SetStateRow DEF IInv
<1>4. /\ charge' = [p \in Ops |-> charge'[p]]
      /\ \A p \in Ops \ {o} : charge'[p] = charge[p]
  BY <1>1, <1>2 DEF IInv, Shape
<1>5. ops'[o].state = "started" /\ ops'[o].cost = 0
  BY <1>2, <1>3
<1>6. RowOK(o)'
  BY <1>2, <1>5 DEF RowOK, Is
<1>7. /\ gate' \in [Attempt -> Threads] /\ gate'[a].at = "reply" /\ gate'[a].op = o
      /\ \A b \in Attempt \ {a} : gate'[b] = gate[b]
  BY <1>1, <1>2, GateMoves DEF IInv
<1>8. GateOK(a)'
  BY <1>1, <1>2, <1>5, <1>7 DEF GateOK, Is, Unresolved
<1> QED
  BY <1>1, <1>2, <1>3, <1>4, <1>5, <1>6, <1>7, <1>8, GateStep DEF OpStates, Unresolved

LEMMA AnsweredPreserves ==
  ASSUME IInv, NEW a \in Attempt, Answered(a)
  PROVE  IInv'
<1>1. /\ ops' = ops /\ charge' = charge /\ pc' = pc /\ lease' = lease /\ bridge' = bridge
      /\ launched' = launched /\ gate[a].at = "reply" /\ GateTo(a, "account", gate[a].op)
  BY DEF Answered, row, ledger, GateAt
<1>2. a \in launched /\ gate[a].op \in Model /\ gate[a].op \in Ops /\ Is(gate[a].op, Unresolved)
  BY <1>1, GateCall
<1>3. /\ gate' \in [Attempt -> Threads] /\ gate'[a].at = "account" /\ gate'[a].op = gate[a].op
      /\ \A b \in Attempt \ {a} : gate'[b] = gate[b]
  BY <1>1, <1>2, GateMoves DEF IInv
<1>4. GateOK(a)'
  BY <1>1, <1>2, <1>3 DEF GateOK, Is
<1> QED
  BY <1>1, <1>2, <1>3, <1>4, GateQuiet

LEMMA NotAnsweredPreserves ==
  ASSUME IInv, NEW a \in Attempt, NotAnswered(a)
  PROVE  IInv'
<1>1. /\ pc' = pc /\ lease' = lease /\ bridge' = bridge /\ launched' = launched
      /\ charge' = charge /\ gate[a].at = "reply" /\ GateFails(a, "error")
      /\ SetState(gate[a].op, "unknown") \/ (charge[gate[a].op] = 0 /\ SetState(gate[a].op, "failed"))
  BY DEF NotAnswered, row, GateAt, NoAnswer
<1>2. PICK o \in Model :
        /\ o = gate[a].op /\ a \in launched /\ o \in Ops /\ o # Wake /\ o \notin Read
        /\ ~Is(o, {"none"}) /\ ops[o].cost = 0
  BY <1>1, GateCall DEF Is
<1>3. PICK state \in {"unknown", "failed"} :
        SetState(o, state) /\ (state = "failed" => charge[o] = 0)
  BY <1>1, <1>2
<1>4. /\ ops' = [p \in Ops |-> ops'[p]]
      /\ \A p \in Ops \ {o} : ops'[p] = ops[p]
      /\ ops'[o] = [state |-> state, reserved |-> ops[o].reserved,
                    cost |-> ops[o].cost, denied |-> ops[o].denied]
  BY <1>2, <1>3, SetStateRow DEF IInv
<1>5. /\ ops'[o].state = state /\ ops'[o].cost = 0
      /\ ops'[o] = [state |-> ops'[o].state, reserved |-> ops'[o].reserved,
                    cost |-> ops'[o].cost, denied |-> ops'[o].denied]
  BY <1>2, <1>4
<1>6. RowOK(o)'
  BY <1>1, <1>2, <1>3, <1>5 DEF RowOK, Is
<1>7. /\ gate' \in [Attempt -> Threads] /\ gate'[a].at = "rest"
      /\ \A b \in Attempt \ {a} : gate'[b] = gate[b]
  <2>1. "error" \in Failures
    BY DEF Failures
  <2> QED
    BY <1>1, <2>1, GateStops DEF IInv
<1>8. GateOK(a)' /\ charge' = [p \in Ops |-> charge'[p]]
  BY <1>1, <1>7 DEF GateOK, IInv, Shape
<1>9. ops'[o].state \in OpStates \ {"none"}
  BY <1>3, <1>5 DEF OpStates, Unresolved
<1> QED
  BY <1>1, <1>2, <1>4, <1>5, <1>6, <1>7, <1>8, <1>9, GateStep

LEMMA AccountPreserves ==
  ASSUME IInv, NEW a \in Attempt, Account(a)
  PROVE  IInv'
<1>1. /\ pc' = pc /\ lease' = lease /\ bridge' = bridge /\ launched' = launched
      /\ charge' = charge /\ gate[a].at = "account"
      /\ Completed(gate[a].op, charge[gate[a].op]) \/ ops' = ops
      /\ \/ \E failure \in {"stop", "error", "lost"} : GateFails(a, failure)
         \/ gate' = [gate EXCEPT ![a] = Rest]
  BY DEF Account, row, GateAt
<1>2. PICK o \in Model :
        /\ o = gate[a].op /\ a \in launched /\ o \in Ops /\ o # Wake /\ o \notin Read
        /\ ~Is(o, {"none", "completed"}) /\ ops[o].cost = 0
  BY <1>1, GateCall
<1>3. /\ gate' \in [Attempt -> Threads] /\ gate'[a].at = "rest"
      /\ \A b \in Attempt \ {a} : gate'[b] = gate[b]
  <2>1. {"stop", "error", "lost"} \subseteq Failures
    BY DEF Failures
  <2> QED
    BY <1>1, <2>1, GateStops DEF IInv
<1>4. GateOK(a)' /\ charge' = [p \in Ops |-> charge'[p]]
  BY <1>1, <1>3 DEF GateOK, IInv, Shape
<1>5. CASE ops' = ops
  BY <1>1, <1>2, <1>3, <1>4, <1>5, GateQuiet
<1>6. CASE Completed(o, charge[o])
  <2>1. /\ ops' = [p \in Ops |-> ops'[p]]
        /\ \A p \in Ops \ {o} : ops'[p] = ops[p]
        /\ ops'[o] = [state |-> "completed", reserved |-> ops[o].reserved,
                      cost |-> charge[o], denied |-> ops[o].denied]
    BY <1>2, <1>6, CompletedRow DEF IInv, Is
  <2>2. /\ ops'[o].state = "completed" /\ ops'[o].cost = charge[o]
        /\ ops'[o] = [state |-> ops'[o].state, reserved |-> ops'[o].reserved,
                      cost |-> ops'[o].cost, denied |-> ops'[o].denied]
    BY <2>1
  <2>3. RowOK(o)' /\ ~Is(o, {"none"})
    BY <1>1, <1>2, <2>2 DEF RowOK, Is
  <2> QED
    BY <1>1, <1>2, <1>3, <1>4, <2>1, <2>2, <2>3, GateStep DEF OpStates
<1> QED
  BY <1>1, <1>2, <1>5, <1>6

LEMMA GatewayPreserves ==
  ASSUME IInv, NEW a \in Attempt, Gateway(a)
  PROVE  IInv'
BY AdmitPreserves, SendModelPreserves, AnsweredPreserves, NotAnsweredPreserves,
   AccountPreserves DEF Gateway

-----------------------------------------------------------------------------
(* The bridge                                                              *)

LEMMA BridgeMoves ==
  ASSUME Shape, NEW a \in Attempt, NEW o \in Ops,
         NEW place \in {"rest", "look", "ask", "page"}, BridgeTo(a, place, o)
  PROVE  /\ bridge' \in [Attempt -> Threads]
         /\ bridge'[a].at = place /\ bridge'[a].op = o
         /\ \A b \in Attempt \ {a} : bridge'[b] = bridge[b]
<1>1. bridge[a] \in Threads
  BY DEF Shape
<1>2. /\ bridge' \in [Attempt -> Threads]
      /\ bridge'[a] = [at |-> place, op |-> o, failure |-> bridge[a].failure]
  BY <1>1 DEF Shape, BridgeTo, Threads
<1> QED
  BY <1>2 DEF Shape, BridgeTo

LEMMA BridgeStops ==
  ASSUME Shape, NEW a \in Attempt,
         Resting(a) \/ \E failure \in Failures : BridgeFails(a, failure)
  PROVE  /\ bridge' \in [Attempt -> Threads]
         /\ bridge'[a].at = "rest"
         /\ \A b \in Attempt \ {a} : bridge'[b] = bridge[b]
<1>1. CASE Resting(a)
  BY <1>1, BridgeMoves, Kinds DEF Resting, BridgeTo
<1>2. CASE \E failure \in Failures : BridgeFails(a, failure)
  <2>1. PICK failure \in Failures : bridge'[a] = [Rest EXCEPT !.failure = failure]
    BY <1>2 DEF BridgeFails, Shape
  <2>2. bridge'[a] = [at |-> "rest", op |-> Wake, failure |-> failure]
    BY <2>1 DEF Rest
  <2>3. bridge'[a] \in Threads
    BY <2>2, Kinds DEF Threads
  <2>4. /\ bridge' = [b \in Attempt |-> bridge'[b]]
        /\ \A b \in Attempt \ {a} : bridge'[b] = bridge[b]
    BY <1>2 DEF BridgeFails, Shape
  <2> QED
    BY <2>2, <2>3, <2>4 DEF Shape
<1> QED
  BY <1>1, <1>2

LEMMA BridgeFrame ==
  ASSUME IInv, NEW a \in launched, launched' = launched, BridgeOK(a)',
         \A b \in Attempt \ {a} : bridge'[b] = bridge[b]
  PROVE  \A b \in Attempt : BridgeOK(b)'
<1>1. \A b \in Attempt \ {a} : bridge[b].at = "rest"
  BY DEF IInv, BridgeOK, OneProcess
<1> QED
  BY <1>1 DEF BridgeOK

LEMMA BridgeQuiet ==
  ASSUME IInv, NEW a \in Attempt, a \in launched, ops' = ops, charge' = charge,
         pc' = pc, lease' = lease, launched' = launched, gate' = gate,
         bridge' \in [Attempt -> Threads], BridgeOK(a)',
         \A b \in Attempt \ {a} : bridge'[b] = bridge[b]
  PROVE  IInv'
<1>1. Shape' /\ OneProcess'
  BY DEF IInv, Shape, OneProcess, Is
<1>2. \A b \in Attempt : GateOK(b)'
  BY DEF IInv, GateOK, Is
<1> QED
  BY <1>1, <1>2, BridgeFrame, LedgerFrame DEF IInv

LEMMA BridgeStep ==
  ASSUME IInv, NEW a \in Attempt, a \in launched, NEW x \in Read,
         ops' = [p \in Ops |-> ops'[p]],
         charge' = [p \in Ops |-> charge'[p]],
         \A p \in Ops \ {x} : ops'[p] = ops[p] /\ charge'[p] = charge[p],
         ops'[x] = [state |-> ops'[x].state, reserved |-> ops'[x].reserved,
                    cost |-> ops'[x].cost, denied |-> ops'[x].denied],
         ops'[x].state \in OpStates \ {"none"}, RowOK(x)',
         pc' = pc, lease' = lease, launched' = launched, gate' = gate,
         bridge' \in [Attempt -> Threads], BridgeOK(a)',
         \A b \in Attempt \ {a} : bridge'[b] = bridge[b]
  PROVE  IInv'
<1>1. x \in Ops /\ x \notin Model
  BY Kinds
<1>2. /\ ops' = [p \in Ops |-> [state |-> ops'[p].state, reserved |-> ops'[p].reserved,
                                cost |-> ops'[p].cost, denied |-> ops'[p].denied]]
      /\ \A p \in Ops : ops'[p].state \in OpStates
      /\ \A p \in Ops : RowOK(p)'
      /\ Prefix'
  BY <1>1, OneRow
<1>3. Shape'
  BY <1>2 DEF IInv, Shape
<1>4. OneProcess'
  <2>1. ops'[Wake] = ops[Wake]
    BY Kinds
  <2> QED
    BY <2>1 DEF IInv, OneProcess, Is
<1>5. \A b \in Attempt : GateOK(b)'
  <2>1. \A o \in Model : ops'[o] = ops[o]
    BY Kinds
  <2> QED
    BY <2>1 DEF IInv, GateOK, Is
<1> QED
  BY <1>2, <1>3, <1>4, <1>5, BridgeFrame DEF IInv

LEMMA FailureNames ==
  /\ {"error", "stop", "lost", ""} = Failures
  /\ \A a \in Attempt : Limit(a) \in Failures
BY LimitIsLease DEF Failures

\* A row that is added has no charge yet.
LEMMA ResearchPreserves ==
  ASSUME IInv, NEW a \in Attempt, NEW o \in Read, Research(a, o)
  PROVE  IInv'
<1>1. /\ charge' = charge /\ pc' = pc /\ lease' = lease /\ gate' = gate
      /\ launched' = launched /\ o \in Ops /\ o # Wake
  BY Kinds DEF Research, row
<1>2. a \in launched
  BY DEF Research, Running, IInv, OneProcess
<1>3. CASE ops' = ops /\ \E failure \in Failures : BridgeFails(a, failure)
  <2>1. /\ bridge' \in [Attempt -> Threads] /\ bridge'[a].at = "rest"
        /\ \A b \in Attempt \ {a} : bridge'[b] = bridge[b]
    BY <1>3, BridgeStops DEF IInv
  <2> QED
    BY <1>1, <1>2, <1>3, <2>1, BridgeQuiet DEF BridgeOK
<1>4. CASE ops' = ops /\ Is(o, {"planned", "failed"}) /\ BridgeTo(a, "look", o)
  <2>1. /\ bridge' \in [Attempt -> Threads] /\ bridge'[a].at = "look" /\ bridge'[a].op = o
        /\ \A b \in Attempt \ {a} : bridge'[b] = bridge[b]
    BY <1>1, <1>4, BridgeMoves DEF IInv
  <2>2. BridgeOK(a)'
    BY <1>1, <1>2, <1>4, <2>1 DEF BridgeOK, Is
  <2> QED
    BY <1>1, <1>2, <1>4, <2>1, <2>2, BridgeQuiet
<1>5. CASE Is(o, {"none"}) /\ Begun(o, Bound[o[2]]) /\ BridgeTo(a, "look", o)
  <2>1. Bound[o[2]] \in Nat
    BY BoundAssumption DEF Read
  <2>2. /\ ops' = [p \in Ops |-> ops'[p]]
        /\ \A p \in Ops \ {o} : ops'[p] = ops[p]
        /\ ops'[o] = [state |-> "planned", reserved |-> Bound[o[2]], cost |-> 0, denied |-> FALSE]
    BY <1>1, <1>5, BegunRow DEF IInv
  <2>3. /\ ops'[o].state = "planned" /\ ops'[o].cost = 0 /\ ops'[o].reserved \in Nat
        /\ ops'[o] = [state |-> ops'[o].state, reserved |-> ops'[o].reserved,
                      cost |-> ops'[o].cost, denied |-> ops'[o].denied]
    BY <2>1, <2>2
  <2>4. charge'[o] = 0
    BY <1>1, <1>5 DEF IInv, RowOK, Is
  <2>5. RowOK(o)'
    BY <2>3, <2>4 DEF RowOK, Is
  <2>6. /\ bridge' \in [Attempt -> Threads] /\ bridge'[a].at = "look" /\ bridge'[a].op = o
        /\ \A b \in Attempt \ {a} : bridge'[b] = bridge[b]
    BY <1>1, <1>5, BridgeMoves DEF IInv
  <2>7. BridgeOK(a)' /\ charge' = [p \in Ops |-> charge'[p]]
    BY <1>1, <1>2, <2>3, <2>6 DEF BridgeOK, Is, IInv, Shape
  <2>8. ops'[o].state \in OpStates \ {"none"}
    BY <2>3 DEF OpStates
  <2> QED
    BY <1>1, <1>2, <2>2, <2>3, <2>5, <2>6, <2>7, <2>8, BridgeStep
<1> QED
  BY <1>3, <1>4, <1>5, FailureNames DEF Research, BeginRead

\* What the call of a busy bridge is.
LEMMA BridgeCall ==
  ASSUME IInv, NEW a \in Attempt, bridge[a].at # "rest"
  PROVE  \E o \in Read :
           /\ o = bridge[a].op /\ a \in launched /\ o \in Ops /\ o # Wake
           /\ ~Is(o, {"none", "completed"}) /\ ops[o].cost = 0
           /\ ops[o].reserved \in Nat
           /\ ops[o].reserved = 0 => charge[o] = 0
           /\ bridge[a].at # "page" => Is(o, {"planned", "failed"}) /\ charge[o] = 0
<1>1. PICK o \in Read :
        /\ o = bridge[a].op /\ a \in launched
        /\ Is(o, IF bridge[a].at = "page" THEN Unresolved \cup {"planned"}
                 ELSE {"planned", "failed"})
  BY DEF IInv, BridgeOK
<1>2. o \in Ops /\ o # Wake
  BY Kinds
<1>3. /\ ~Is(o, {"none", "completed"})
      /\ bridge[a].at # "page" => Is(o, {"planned", "failed"})
  BY <1>1 DEF Is, Unresolved
<1>4. RowOK(o)
  BY <1>2 DEF IInv
<1> QED
  BY <1>1, <1>2, <1>3, <1>4 DEF RowOK, Is

LEMMA ThrottledPreserves ==
  ASSUME IInv, NEW a \in Attempt, Throttled(a)
  PROVE  IInv'
<1>1. /\ charge' = charge /\ pc' = pc /\ lease' = lease /\ gate' = gate
      /\ launched' = launched /\ bridge[a].at = "look"
      /\ Resting(a) \/ BridgeFails(a, "lost")
      /\ \/ ops' = ops
         \/ ops' = [ops EXCEPT ![bridge[a].op].state = "completed", ![bridge[a].op].denied = TRUE]
  BY DEF Throttled, row, BridgeAt
<1>2. PICK o \in Read :
        /\ o = bridge[a].op /\ a \in launched /\ o \in Ops /\ o # Wake
        /\ ops[o].cost = 0 /\ ops[o].reserved \in Nat /\ charge[o] = 0
  BY <1>1, BridgeCall
<1>3. /\ bridge' \in [Attempt -> Threads] /\ bridge'[a].at = "rest"
      /\ \A b \in Attempt \ {a} : bridge'[b] = bridge[b]
  BY <1>1, BridgeStops, FailureNames DEF IInv
<1>4. BridgeOK(a)' /\ charge' = [p \in Ops |-> charge'[p]]
  BY <1>1, <1>3 DEF BridgeOK, IInv, Shape
<1>5. CASE ops' = ops
  BY <1>1, <1>2, <1>3, <1>4, <1>5, BridgeQuiet
<1>6. CASE ops' = [ops EXCEPT ![o].state = "completed", ![o].denied = TRUE]
  <2>1. ops[o] = [state |-> ops[o].state, reserved |-> ops[o].reserved,
                  cost |-> ops[o].cost, denied |-> ops[o].denied]
    BY <1>2, Rows DEF IInv
  <2>2. /\ ops' = [p \in Ops |-> ops'[p]]
        /\ \A p \in Ops \ {o} : ops'[p] = ops[p]
        /\ ops'[o] = [state |-> "completed", reserved |-> ops[o].reserved,
                      cost |-> ops[o].cost, denied |-> TRUE]
    BY <1>2, <1>6, <2>1 DEF IInv, Shape
  <2>3. /\ ops'[o].state = "completed" /\ ops'[o].cost = 0
        /\ ops'[o].reserved = ops[o].reserved
        /\ ops'[o] = [state |-> ops'[o].state, reserved |-> ops'[o].reserved,
                      cost |-> ops'[o].cost, denied |-> ops'[o].denied]
    BY <1>2, <2>2
  <2>4. RowOK(o)'
    BY <1>1, <1>2, <2>3 DEF RowOK, Is
  <2> QED
    BY <1>1, <1>2, <1>3, <1>4, <2>2, <2>3, <2>4, BridgeStep DEF OpStates
<1> QED
  BY <1>1, <1>2, <1>5, <1>6

LEMMA RecheckPreserves ==
  ASSUME IInv, NEW a \in Attempt, Recheck(a)
  PROVE  IInv'
<1>1. /\ ops' = ops /\ charge' = charge /\ pc' = pc /\ lease' = lease /\ gate' = gate
      /\ launched' = launched /\ bridge[a].at = "look"
      /\ BridgeFails(a, Limit(a)) \/ BridgeTo(a, "ask", bridge[a].op)
  BY DEF Recheck, row, ledger, BridgeAt
<1>2. PICK o \in Read :
        o = bridge[a].op /\ a \in launched /\ o \in Ops /\ Is(o, {"planned", "failed"})
  BY <1>1, BridgeCall
<1>3. CASE BridgeFails(a, Limit(a))
  <2>1. /\ bridge' \in [Attempt -> Threads] /\ bridge'[a].at = "rest"
        /\ \A b \in Attempt \ {a} : bridge'[b] = bridge[b]
    BY <1>3, BridgeStops, FailureNames DEF IInv
  <2> QED
    BY <1>1, <1>2, <2>1, BridgeQuiet DEF BridgeOK
<1>4. CASE BridgeTo(a, "ask", o)
  <2>1. /\ bridge' \in [Attempt -> Threads] /\ bridge'[a].at = "ask" /\ bridge'[a].op = o
        /\ \A b \in Attempt \ {a} : bridge'[b] = bridge[b]
    BY <1>2, <1>4, BridgeMoves DEF IInv
  <2>2. BridgeOK(a)'
    BY <1>1, <1>2, <2>1 DEF BridgeOK, Is
  <2> QED
    BY <1>1, <1>2, <2>1, <2>2, BridgeQuiet
<1> QED
  BY <1>1, <1>2, <1>3, <1>4

\* A source without a bound is free: nothing is charged beyond what is reserved.
LEMMA AskPreserves ==
  ASSUME IInv, NEW a \in Attempt, Ask(a)
  PROVE  IInv'
<1>1. /\ pc' = pc /\ lease' = lease /\ gate' = gate /\ launched' = launched
      /\ bridge[a].at = "ask" /\ Sent(bridge[a].op) /\ BridgeTo(a, "page", bridge[a].op)
  BY DEF Ask, row, BridgeAt
<1>2. PICK o \in Read :
        /\ o = bridge[a].op /\ a \in launched /\ o \in Ops /\ o # Wake
        /\ ops[o].cost = 0 /\ ops[o].reserved \in Nat
  BY <1>1, BridgeCall
<1>3. PICK c \in Charges(o) : charge' = [charge EXCEPT ![o] = c]
  BY <1>1, <1>2 DEF Sent
<1>4. ops[o].reserved = 0 => c = 0
  BY <1>3 DEF Charges
<1>5. /\ ops' = [p \in Ops |-> ops'[p]]
      /\ \A p \in Ops \ {o} : ops'[p] = ops[p]
      /\ ops'[o] = [state |-> "started", reserved |-> ops[o].reserved,
                    cost |-> ops[o].cost, denied |-> ops[o].denied]
  BY <1>1, <1>2, SetStateRow DEF IInv, Sent
<1>6. /\ ops'[o].state = "started" /\ ops'[o].cost = 0
      /\ ops'[o].reserved = ops[o].reserved
      /\ ops'[o] = [state |-> ops'[o].state, reserved |-> ops'[o].reserved,
                    cost |-> ops'[o].cost, denied |-> ops'[o].denied]
  BY <1>2, <1>5
<1>7. /\ charge' = [p \in Ops |-> charge'[p]]
      /\ charge'[o] = c
      /\ \A p \in Ops \ {o} : charge'[p] = charge[p]
  BY <1>2, <1>3 DEF IInv, Shape
<1>8. RowOK(o)'
  BY <1>2, <1>4, <1>6, <1>7 DEF RowOK, Is
<1>9. /\ bridge' \in [Attempt -> Threads] /\ bridge'[a].at = "page" /\ bridge'[a].op = o
      /\ \A b \in Attempt \ {a} : bridge'[b] = bridge[b]
  BY <1>1, <1>2, BridgeMoves DEF IInv
<1>10. BridgeOK(a)'
  BY <1>1, <1>2, <1>6, <1>9 DEF BridgeOK, Is, Unresolved
<1>11. ops'[o].state \in OpStates \ {"none"}
  BY <1>6 DEF OpStates, Unresolved
<1> QED
  BY <1>1, <1>2, <1>5, <1>6, <1>7, <1>8, <1>9, <1>10, <1>11, BridgeStep

LEMMA NoPagePreserves ==
  ASSUME IInv, NEW a \in Attempt, NoPage(a)
  PROVE  IInv'
<1>1. /\ charge' = charge /\ pc' = pc /\ lease' = lease /\ gate' = gate
      /\ launched' = launched /\ bridge[a].at = "page"
      /\ Resting(a) \/ BridgeFails(a, "error")
      /\ \/ ops' = ops
         \/ SetState(bridge[a].op, IF ops[bridge[a].op].reserved > 0 THEN "unknown" ELSE "failed")
  BY DEF NoPage, row, BridgeAt
<1>2. PICK o \in Read :
        /\ o = bridge[a].op /\ a \in launched /\ o \in Ops /\ o # Wake
        /\ ops[o].cost = 0 /\ ops[o].reserved \in Nat
        /\ ops[o].reserved = 0 => charge[o] = 0
  BY <1>1, BridgeCall
<1>3. /\ bridge' \in [Attempt -> Threads] /\ bridge'[a].at = "rest"
      /\ \A b \in Attempt \ {a} : bridge'[b] = bridge[b]
  BY <1>1, BridgeStops, FailureNames DEF IInv
<1>4. BridgeOK(a)' /\ charge' = [p \in Ops |-> charge'[p]]
  BY <1>1, <1>3 DEF BridgeOK, IInv, Shape
<1>5. CASE ops' = ops
  BY <1>1, <1>2, <1>3, <1>4, <1>5, BridgeQuiet
<1>6. CASE SetState(o, IF ops[o].reserved > 0 THEN "unknown" ELSE "failed")
  <2>1. PICK state \in {"unknown", "failed"} :
          SetState(o, state) /\ (state = "failed" => charge[o] = 0)
    BY <1>2, <1>6
  <2>2. /\ ops' = [p \in Ops |-> ops'[p]]
        /\ \A p \in Ops \ {o} : ops'[p] = ops[p]
        /\ ops'[o] = [state |-> state, reserved |-> ops[o].reserved,
                      cost |-> ops[o].cost, denied |-> ops[o].denied]
    BY <1>2, <2>1, SetStateRow DEF IInv
  <2>3. /\ ops'[o].state = state /\ ops'[o].cost = 0 /\ ops'[o].reserved = ops[o].reserved
        /\ ops'[o] = [state |-> ops'[o].state, reserved |-> ops'[o].reserved,
                      cost |-> ops'[o].cost, denied |-> ops'[o].denied]
    BY <1>2, <2>2
  <2>4. RowOK(o)'
    BY <1>1, <1>2, <2>1, <2>3 DEF RowOK, Is
  <2>5. ops'[o].state \in OpStates \ {"none"}
    BY <2>1, <2>3 DEF OpStates, Unresolved
  <2> QED
    BY <1>1, <1>2, <1>3, <1>4, <2>2, <2>3, <2>4, <2>5, BridgeStep
<1> QED
  BY <1>1, <1>2, <1>5, <1>6

LEMMA StorePreserves ==
  ASSUME IInv, NEW a \in Attempt, Store(a)
  PROVE  IInv'
<1>1. /\ charge' = charge /\ pc' = pc /\ lease' = lease /\ gate' = gate
      /\ launched' = launched /\ bridge[a].at # "rest"
      /\ Resting(a) \/ \E failure \in {"stop", "lost"} : BridgeFails(a, failure)
      /\ ops' = ops \/ Completed(bridge[a].op, charge[bridge[a].op])
  BY DEF Store, row, BridgeAt
<1>2. PICK o \in Read :
        /\ o = bridge[a].op /\ a \in launched /\ o \in Ops /\ o # Wake
        /\ ~Is(o, {"none", "completed"}) /\ ops[o].reserved \in Nat
        /\ ops[o].reserved = 0 => charge[o] = 0
  BY <1>1, BridgeCall
<1>3. /\ bridge' \in [Attempt -> Threads] /\ bridge'[a].at = "rest"
      /\ \A b \in Attempt \ {a} : bridge'[b] = bridge[b]
  BY <1>1, BridgeStops, FailureNames DEF IInv
<1>4. BridgeOK(a)' /\ charge' = [p \in Ops |-> charge'[p]]
  BY <1>1, <1>3 DEF BridgeOK, IInv, Shape
<1>5. CASE ops' = ops
  BY <1>1, <1>2, <1>3, <1>4, <1>5, BridgeQuiet
<1>6. CASE Completed(o, charge[o])
  <2>1. /\ ops' = [p \in Ops |-> ops'[p]]
        /\ \A p \in Ops \ {o} : ops'[p] = ops[p]
        /\ ops'[o] = [state |-> "completed", reserved |-> ops[o].reserved,
                      cost |-> charge[o], denied |-> ops[o].denied]
    BY <1>2, <1>6, CompletedRow DEF IInv, Is
  <2>2. /\ ops'[o].state = "completed" /\ ops'[o].cost = charge[o]
        /\ ops'[o].reserved = ops[o].reserved
        /\ ops'[o] = [state |-> ops'[o].state, reserved |-> ops'[o].reserved,
                      cost |-> ops'[o].cost, denied |-> ops'[o].denied]
    BY <2>1
  <2>3. RowOK(o)'
    BY <1>1, <1>2, <2>2 DEF RowOK, Is
  <2> QED
    BY <1>1, <1>2, <1>3, <1>4, <2>1, <2>2, <2>3, BridgeStep DEF OpStates
<1> QED
  BY <1>1, <1>2, <1>5, <1>6

LEMMA AgentToolsPreserve ==
  ASSUME IInv, NEW a \in Attempt, AgentTools(a)
  PROVE  IInv'
<1>1. CASE Submit(a)
  <2>1. /\ ops' = ops /\ charge' = charge /\ gate' = gate /\ bridge' = bridge
        /\ launched' = launched /\ pc' = pc /\ lease' = lease
    BY <1>1 DEF Submit, ledger
  <2>2. OneProcess' /\ pc' \in [Attempt -> Pcs]
    BY <2>1 DEF IInv, OneProcess, Is, Shape
  <2> QED
    BY <2>1, <2>2, QuietStep
<1> QED
  BY <1>1, ResearchPreserves, ThrottledPreserves, RecheckPreserves, AskPreserves,
     NoPagePreserves, StorePreserves DEF AgentTools

-----------------------------------------------------------------------------
(* Theorems                                                                *)

LEMMA InitInv == PromptLaunch /\ Init => IInv
<1> SUFFICES ASSUME PromptLaunch, Init PROVE IInv
  OBVIOUS
<1>1. \A o \in Ops : /\ ops[o] = [state |-> "none", reserved |-> 0, cost |-> 0, denied |-> FALSE]
                     /\ charge[o] = 0
  BY DEF Init, NoOp
<1>2. \A o \in Ops : /\ ops[o].state = "none" /\ ops[o].reserved = 0 /\ ops[o].cost = 0
                     /\ ops[o] = [state |-> ops[o].state, reserved |-> ops[o].reserved,
                                  cost |-> ops[o].cost, denied |-> ops[o].denied]
  BY <1>1
<1>3. Rest \in Threads /\ Rest.at = "rest"
  BY Kinds DEF Rest, Threads, Failures
<1>4. Shape
  <2>1. ops = [o \in Ops |-> ops[o]] /\ charge = [o \in Ops |-> charge[o]]
    BY DEF Init
  <2>2. \A o \in Ops : ops[o].state \in OpStates
    BY <1>2 DEF OpStates
  <2>3. pc \in [Attempt -> Pcs] /\ launched \subseteq Attempt
    BY DEF Init, Pcs
  <2>4. gate \in [Attempt -> Threads] /\ bridge \in [Attempt -> Threads]
    BY <1>3 DEF Init
  <2>5. ops = [o \in Ops |-> [state |-> ops[o].state, reserved |-> ops[o].reserved,
                              cost |-> ops[o].cost, denied |-> ops[o].denied]]
    BY <1>2, <2>1
  <2> QED
    BY <2>1, <2>2, <2>3, <2>4, <2>5 DEF Shape
<1>5. OneProcess
  BY DEF Init, OneProcess
<1>6. \A o \in Ops : RowOK(o)
  BY <1>1, <1>2 DEF RowOK, Is
<1>7. Prefix
  <2>1. \A n \in 1..MaxModel : <<"model", n>> \in Ops
    BY Kinds DEF Model
  <2> QED
    BY <1>2, <2>1 DEF Prefix, Is
<1>8. \A a \in Attempt : GateOK(a) /\ BridgeOK(a)
  BY <1>3 DEF Init, GateOK, BridgeOK
<1> QED
  BY <1>4, <1>5, <1>6, <1>7, <1>8 DEF IInv

LEMMA StepInv == IInv /\ [Next]_vars => IInv'
<1> SUFFICES ASSUME IInv, [Next]_vars PROVE IInv'
  OBVIOUS
<1>1. CASE UNCHANGED vars \/ Expire \/ Cancel \/ Deadline \/ Reconcile
  <2>1. /\ ops' = ops /\ charge' = charge /\ gate' = gate /\ bridge' = bridge
        /\ launched' = launched /\ pc' = pc /\ lease' \in {lease, 0}
    BY <1>1, Finished DEF vars, Expire, Cancel, Deadline, Reconcile, row, ledger
  <2>2. OneProcess' /\ pc' \in [Attempt -> Pcs]
    BY <2>1 DEF IInv, OneProcess, Is, Shape, Attempt
  <2> QED
    BY <2>1, <2>2, QuietStep
<1>2. CASE \E a \in Attempt : Supervisor(a) \/ Gateway(a) \/ AgentTools(a)
  BY <1>2, SupervisorPreserves, GatewayPreserves, AgentToolsPreserve
<1> QED
  BY <1>1, <1>2 DEF Next

\* The ledger of a turn under Claude Code keeps IInv, whatever the order of the
\* supervisors', gateways' and bridges' steps, the stalls and the deaths.
THEOREM Invariance == PromptLaunch => (Spec => []IInv)
<1> SUFFICES ASSUME PromptLaunch PROVE Spec => []IInv
  OBVIOUS
<1>1. Init => IInv
  BY InitInv
<1>2. IInv /\ [Next]_vars => IInv'
  BY StepInv
<1> QED
  BY <1>1, <1>2, PTL DEF Spec

\* However many attempts are made at a turn, and wherever each of them stalls
\* or dies but between a launch and the first look at the process, at most one
\* of their Claude processes works.
THEOREM WakeIsNotRepeated == PromptLaunch => (Spec => []WakeOnce)
<1> SUFFICES ASSUME PromptLaunch PROVE Spec => []WakeOnce
  OBVIOUS
<1>1. IInv => WakeOnce
  <2> SUFFICES ASSUME IInv PROVE WakeOnce
    OBVIOUS
  <2>1. CASE launched = {}
    BY <2>1, FS_EmptySet DEF WakeOnce
  <2>2. CASE launched # {}
    <3>1. PICK a \in launched : launched = {a}
      BY <2>2 DEF IInv, OneProcess
    <3> QED
      BY <3>1, FS_Singleton DEF WakeOnce
  <2> QED
    BY <2>1, <2>2
<1> QED
  BY <1>1, Invariance, PTL

\* No charge of any provider disappears: once its call is neither started nor
\* unknown, the ledger has recorded exactly what was charged.
THEOREM ChargesStayVisible == PromptLaunch => (Spec => []ChargesVisible)
<1> SUFFICES ASSUME PromptLaunch PROVE Spec => []ChargesVisible
  OBVIOUS
<1>1. IInv => ChargesVisible
  <2> SUFFICES ASSUME IInv, NEW o \in Ops
               PROVE  ops[o].cost = charge[o] \/ Is(o, Unresolved)
    BY DEF ChargesVisible
  <2>1. RowOK(o) /\ ops[o].state \in OpStates
    BY DEF IInv, Shape
  <2> QED
    BY <2>1 DEF RowOK, Is, OpStates
<1> QED
  BY <1>1, Invariance, PTL

-----------------------------------------------------------------------------
(* Amounts                                                                 *)

\* What is set aside for a call: its reservation while it may still charge
\* that much, then what it charged of it.  The wake's, which a stalled attempt
\* may open again, is never given back.
BookedAt(o, r, c) ==
  IF o = Wake THEN r.reserved
  ELSE IF r.state \in {"none", "failed"} THEN 0
  ELSE IF r.state = "completed" /\ c <= r.reserved THEN c ELSE r.reserved

RecordedAt(r) == IF r.state = "completed" THEN r.cost ELSE 0

Booked   == SumFunctionOnSet([o \in Ops |-> BookedAt(o, ops[o], charge[o])], Ops)
Recorded == SumFunctionOnSet([o \in Ops |-> RecordedAt(ops[o])], Ops)

\* A read that may be sent again is one that failed for free.
RowAmounts(o) ==
  /\ ops[o].reserved \in Nat /\ ops[o].cost \in Nat /\ charge[o] \in Nat
  /\ ops[o].denied \in BOOLEAN
  /\ Is(o, {"none"}) => ops[o].reserved = 0
  /\ o \in Read /\ Is(o, {"failed"}) => ops[o].reserved = 0

\* While a process works its wake is held, so whatever else is begun leaves
\* room for it.
WakeHeld ==
  /\ ~Is(Wake, {"failed"})
  /\ \A a \in Attempt : pc[a] \in {"watch", "settle"} => a \in launched /\ Is(Wake, Unresolved)

Amounts ==
  /\ costUsed \in Nat
  /\ \A o \in Ops : RowAmounts(o)
  /\ WakeHeld
  /\ Booked <= MaxCost
  /\ Recorded <= costUsed

LEMMA OpsFinite == IsFiniteSet(Ops)
<1>1. IsFiniteSet(Model)
  BY CallsUpTo, LimitsAssumption DEF Model
<1>2. IsFiniteSet(Read)
  <2> DEFINE f == [r \in Request |-> <<"research", r>>]
  <2>1. f \in Surjection(Request, Read)
    BY DEF Surjection, Read
  <2> QED
    BY <2>1, RequestAssumption, FS_Surjection
<1>3. IsFiniteSet({Wake})
  BY FS_Singleton
<1> QED
  BY <1>1, <1>2, <1>3, FS_Union DEF Ops

LEMMA AmountTypes ==
  ASSUME NEW o, NEW r, NEW c \in Nat, r.reserved \in Nat, r.cost \in Nat
  PROVE  BookedAt(o, r, c) \in Nat /\ RecordedAt(r) \in Nat
BY DEF BookedAt, RecordedAt

\* Rows that set nothing more aside and record nothing more.
LEMMA SumsGoDown ==
  ASSUME \A o \in Ops : RowAmounts(o) /\ RowAmounts(o)',
         \A o \in Ops : /\ BookedAt(o, ops'[o], charge'[o]) <= BookedAt(o, ops[o], charge[o])
                        /\ RecordedAt(ops'[o]) <= RecordedAt(ops[o])
  PROVE  Booked' <= Booked /\ Recorded' <= Recorded
<1> DEFINE b0 == [o \in Ops |-> BookedAt(o, ops[o], charge[o])]
           b1 == [o \in Ops |-> BookedAt(o, ops'[o], charge'[o])]
           r0 == [o \in Ops |-> RecordedAt(ops[o])]
           r1 == [o \in Ops |-> RecordedAt(ops'[o])]
<1>1. \A o \in Ops : /\ b0[o] \in Int /\ b1[o] \in Int /\ b1[o] <= b0[o]
                     /\ r0[o] \in Int /\ r1[o] \in Int /\ r1[o] <= r0[o]
  BY AmountTypes DEF RowAmounts
<1>2. /\ Booked = SumFunctionOnSet(b0, Ops) /\ Booked' = SumFunctionOnSet(b1, Ops)
      /\ Recorded = SumFunctionOnSet(r0, Ops) /\ Recorded' = SumFunctionOnSet(r1, Ops)
  BY DEF Booked, Recorded
<1> HIDE DEF b0, b1, r0, r1
<1> QED
  BY <1>1, <1>2, OpsFinite, SumMonotone

\* One row that changes changes the sums by as much.
LEMMA SumsOfOneRow ==
  ASSUME \A o \in Ops : RowAmounts(o), NEW x \in Ops, RowAmounts(x)',
         \A o \in Ops \ {x} : ops'[o] = ops[o] /\ charge'[o] = charge[o]
  PROVE  /\ Booked \in Int /\ Recorded \in Int
         /\ Booked' = Booked - BookedAt(x, ops[x], charge[x]) + BookedAt(x, ops'[x], charge'[x])
         /\ Recorded' = Recorded - RecordedAt(ops[x]) + RecordedAt(ops'[x])
<1> DEFINE b0 == [o \in Ops |-> BookedAt(o, ops[o], charge[o])]
           b1 == [o \in Ops |-> BookedAt(o, ops'[o], charge'[o])]
           r0 == [o \in Ops |-> RecordedAt(ops[o])]
           r1 == [o \in Ops |-> RecordedAt(ops'[o])]
<1>1. \A o \in Ops \ {x} : b1[o] = b0[o] /\ r1[o] = r0[o]
  OBVIOUS
<1>2. \A o \in Ops : b0[o] \in Int /\ r0[o] \in Int
  BY AmountTypes DEF RowAmounts
<1>3. b1[x] \in Int /\ r1[x] \in Int
  BY AmountTypes DEF RowAmounts
<1>4. \A o \in Ops : b1[o] \in Int /\ r1[o] \in Int
  <2> HIDE DEF b0, b1, r0, r1
  <2> QED
    BY <1>1, <1>2, <1>3
<1>5. /\ b0[x] = BookedAt(x, ops[x], charge[x]) /\ b1[x] = BookedAt(x, ops'[x], charge'[x])
      /\ r0[x] = RecordedAt(ops[x]) /\ r1[x] = RecordedAt(ops'[x])
  OBVIOUS
<1>6. /\ Booked = SumFunctionOnSet(b0, Ops) /\ Booked' = SumFunctionOnSet(b1, Ops)
      /\ Recorded = SumFunctionOnSet(r0, Ops) /\ Recorded' = SumFunctionOnSet(r1, Ops)
  BY DEF Booked, Recorded
<1> HIDE DEF b0, b1, r0, r1
<1>7. Booked \in Int /\ Recorded \in Int
  BY <1>2, <1>6, OpsFinite, SumInt
<1>8. /\ SumFunctionOnSet(b1, Ops) = SumFunctionOnSet(b0, Ops) - b0[x] + b1[x]
      /\ SumFunctionOnSet(r1, Ops) = SumFunctionOnSet(r0, Ops) - r0[x] + r1[x]
  BY <1>1, <1>2, <1>4, OpsFinite, SumUpdate
<1> QED
  BY <1>5, <1>6, <1>7, <1>8

\* A supervisor's or a thread's step that changes no row.
LEMMA QuietAmounts ==
  ASSUME Amounts, ops' = ops, charge' = charge, costUsed' = costUsed,
         launched \subseteq launched',
         \A a \in Attempt : pc'[a] \in {"watch", "settle"} =>
           pc[a] \in {"watch", "settle"} \/ (a \in launched' /\ Is(Wake, Unresolved))
  PROVE  Amounts'
<1>1. \A o \in Ops : RowAmounts(o)'
  BY DEF Amounts, RowAmounts, Is
<1>2. WakeHeld'
  BY DEF Amounts, WakeHeld, Is
<1> QED
  BY <1>1, <1>2 DEF Amounts, Booked, Recorded

\* One that changes a row, within what was set aside for it or free.
LEMMA RowStep ==
  ASSUME Amounts, NEW x \in Ops, RowAmounts(x)', costUsed' \in Nat, WakeHeld',
         \A o \in Ops \ {x} : ops'[o] = ops[o] /\ charge'[o] = charge[o],
         \/ BookedAt(x, ops'[x], charge'[x]) <= BookedAt(x, ops[x], charge[x])
         \/ Booked + BookedAt(x, ops'[x], charge'[x]) <= MaxCost,
         RecordedAt(ops'[x]) - RecordedAt(ops[x]) <= costUsed' - costUsed
  PROVE  Amounts'
<1>1. \A o \in Ops : RowAmounts(o)'
  BY DEF Amounts, RowAmounts, Is
<1>2. /\ Booked \in Int /\ Recorded \in Int
      /\ Booked' = Booked - BookedAt(x, ops[x], charge[x]) + BookedAt(x, ops'[x], charge'[x])
      /\ Recorded' = Recorded - RecordedAt(ops[x]) + RecordedAt(ops'[x])
  BY SumsOfOneRow DEF Amounts
<1>3. /\ BookedAt(x, ops[x], charge[x]) \in Nat /\ BookedAt(x, ops'[x], charge'[x]) \in Nat
      /\ RecordedAt(ops[x]) \in Nat /\ RecordedAt(ops'[x]) \in Nat
      /\ costUsed \in Nat /\ MaxCost \in Nat
  BY AmountTypes, LimitsAssumption DEF Amounts, RowAmounts
<1>4. Booked' <= MaxCost /\ Recorded' <= costUsed'
  BY <1>2, <1>3 DEF Amounts
<1> QED
  BY <1>1, <1>4 DEF Amounts

\* A thread works on a call and no attempt moves.
LEMMA ThreadHeld ==
  ASSUME Amounts, ops'[Wake] = ops[Wake], pc' = pc, launched' = launched
  PROVE  WakeHeld'
BY DEF Amounts, WakeHeld, Is

\* What fits beside what is used and held fits beside what is set aside,
\* unless the wake is completed, and then nothing is begun.
LEMMA Fitting ==
  ASSUME IInv, Amounts, ~Is(Wake, {"completed"}), NEW amount \in Nat, Fits(amount)
  PROVE  Booked + amount <= MaxCost
<1> DEFINE held == {o \in Ops : ~Is(o, {"none", "completed", "failed"})}
           res == [o \in Ops |-> ops[o].reserved]
           h == [o \in Ops |-> IF o \in held THEN res[o] ELSE 0]
           r == [o \in Ops |-> RecordedAt(ops[o])]
           s == [o \in Ops |-> r[o] + h[o]]
           b == [o \in Ops |-> BookedAt(o, ops[o], charge[o])]
<1>1. ASSUME NEW o \in Ops
      PROVE  /\ r[o] \in Int /\ h[o] \in Int /\ res[o] \in Int
             /\ b[o] \in Int /\ s[o] \in Int /\ s[o] = r[o] + h[o] /\ b[o] <= s[o]
  <2>1. RowAmounts(o) /\ RowOK(o) /\ ops[o].state \in OpStates
    BY DEF IInv, Shape, Amounts
  <2>2. BookedAt(o, ops[o], charge[o]) \in Nat /\ RecordedAt(ops[o]) \in Nat
    BY <2>1, AmountTypes DEF RowAmounts
  <2>3. BookedAt(o, ops[o], charge[o])
          <= RecordedAt(ops[o]) + (IF o \in held THEN ops[o].reserved ELSE 0)
    <3>1. CASE Is(o, {"completed"})
      <4>1. o # Wake /\ ops[o].cost = charge[o]
        BY <2>1, <3>1 DEF RowOK
      <4> QED
        BY <2>1, <3>1, <4>1 DEF BookedAt, RecordedAt, RowAmounts, Is
    <3>2. CASE Is(o, {"none", "failed"})
      <4>1. o = Wake => ops[o].reserved = 0
        BY <2>1, <3>2 DEF Amounts, WakeHeld, RowAmounts, Is
      <4> QED
        BY <2>1, <3>2, <4>1 DEF BookedAt, RecordedAt, RowAmounts, Is
    <3>3. CASE o \in held
      BY <2>1, <2>2, <3>3 DEF BookedAt, RowAmounts, Is
    <3> QED
      BY <3>1, <3>2, <3>3 DEF Is
  <2> QED
    BY <2>1, <2>2, <2>3 DEF RowAmounts
<1>2. /\ Held = SumFunctionOnSet(res, held)
      /\ Recorded = SumFunctionOnSet(r, Ops) /\ Booked = SumFunctionOnSet(b, Ops)
  BY DEF Held, Recorded, Booked
<1>3. held \in SUBSET Ops
  OBVIOUS
<1>4. Held = SumFunctionOnSet(h, Ops)
  <2> HIDE DEF held, res
  <2> QED
    BY <1>1, <1>2, <1>3, OpsFinite, SumPart
<1> HIDE DEF held, res, h, r, s, b
<1>5. SumFunctionOnSet(s, Ops) = Recorded + Held
  BY <1>1, <1>2, <1>4, OpsFinite, SumPlus
<1>6. Booked <= SumFunctionOnSet(s, Ops)
  BY <1>1, <1>2, OpsFinite, SumMonotone
<1>7. Recorded \in Int /\ Held \in Int /\ Booked \in Int
  BY <1>1, <1>2, <1>4, OpsFinite, SumInt
<1> QED
  BY <1>5, <1>6, <1>7, LimitsAssumption DEF Fits, Amounts

\* A row that is begun.
LEMMA BegunAmounts ==
  ASSUME IInv, Amounts, NEW x \in Ops, NEW amount \in Nat, Is(x, {"none"}), Fits(amount),
         Begun(x, amount), charge' = charge, costUsed' = costUsed, WakeHeld',
         ~Is(Wake, {"completed"})
  PROVE  Amounts'
<1>1. /\ \A p \in Ops \ {x} : ops'[p] = ops[p]
      /\ ops'[x] = [state |-> "planned", reserved |-> amount, cost |-> 0, denied |-> FALSE]
  BY BegunRow DEF IInv
<1>2. /\ ops'[x].state = "planned" /\ ops'[x].reserved = amount /\ ops'[x].cost = 0
      /\ ops'[x].denied = FALSE
  BY <1>1
<1>3. RowAmounts(x)'
  BY <1>2 DEF Amounts, RowAmounts, Is
<1>4. BookedAt(x, ops'[x], charge'[x]) = amount /\ RecordedAt(ops'[x]) = 0
  BY <1>2 DEF BookedAt, RecordedAt
<1>5. RecordedAt(ops[x]) = 0
  BY DEF RecordedAt, Is
<1>6. Booked + amount <= MaxCost
  BY Fitting
<1> QED
  BY <1>1, <1>3, <1>4, <1>5, <1>6, RowStep DEF Amounts

\* A call that is completed at what was charged for it.
LEMMA CompletedAmounts ==
  ASSUME IInv, Amounts, NEW x \in Ops, ~Is(x, {"none", "completed"}), Completed(x, charge[x]),
         charge' = charge, WakeHeld', Is(x, {"failed"}) => charge[x] = 0
  PROVE  Amounts'
<1>1. /\ \A p \in Ops \ {x} : ops'[p] = ops[p]
      /\ ops'[x] = [state |-> "completed", reserved |-> ops[x].reserved,
                    cost |-> charge[x], denied |-> ops[x].denied]
  BY CompletedRow DEF IInv, Is
<1>2. /\ ops'[x].state = "completed" /\ ops'[x].reserved = ops[x].reserved
      /\ ops'[x].cost = charge[x] /\ ops'[x].denied = ops[x].denied
  BY <1>1
<1>3. RowAmounts(x) /\ costUsed \in Nat /\ charge'[x] = charge[x]
  BY DEF Amounts
<1>4. costUsed' = costUsed + charge[x]
  BY DEF Completed, Is
<1>5. RowAmounts(x)'
  BY <1>2, <1>3 DEF RowAmounts, Is
<1>6. BookedAt(x, ops'[x], charge'[x]) <= BookedAt(x, ops[x], charge[x])
  BY <1>2, <1>3 DEF BookedAt, RowAmounts, Is
<1>7. RecordedAt(ops'[x]) = charge[x] /\ RecordedAt(ops[x]) = 0
  BY <1>2 DEF RecordedAt, Is
<1> QED
  BY <1>1, <1>3, <1>4, <1>5, <1>6, <1>7, RowStep DEF RowAmounts

\* A call whose state changes otherwise.
LEMMA StateAmounts ==
  ASSUME IInv, Amounts, NEW x \in Ops, NEW state, state \notin {"none", "completed"},
         SetState(x, state), costUsed' = costUsed, WakeHeld',
         charge'[x] \in Nat, \A o \in Ops \ {x} : charge'[o] = charge[o],
         x = Wake \/ ~Is(x, {"none", "completed"}),
         x \in Read /\ Is(x, {"failed"}) => ops[x].reserved = 0,
         x \in Model => ~Is(x, {"failed"}),
         x \in Read /\ state = "failed" => ops[x].reserved = 0
  PROVE  Amounts'
<1>1. /\ \A p \in Ops \ {x} : ops'[p] = ops[p]
      /\ ops'[x] = [state |-> state, reserved |-> ops[x].reserved,
                    cost |-> ops[x].cost, denied |-> ops[x].denied]
  BY SetStateRow DEF IInv
<1>2. /\ ops'[x].state = state /\ ops'[x].reserved = ops[x].reserved
      /\ ops'[x].cost = ops[x].cost /\ ops'[x].denied = ops[x].denied
  BY <1>1
<1>3. RowAmounts(x) /\ costUsed \in Nat
  BY DEF Amounts
<1>4. RowAmounts(x)'
  BY <1>2, <1>3 DEF RowAmounts, Is
<1>5. BookedAt(x, ops'[x], charge'[x]) <= BookedAt(x, ops[x], charge[x])
  BY <1>2, <1>3, Kinds DEF BookedAt, RowAmounts, Is
<1>6. RecordedAt(ops'[x]) = 0 /\ RecordedAt(ops[x]) \in Nat
  BY <1>2, <1>3 DEF RecordedAt, RowAmounts
<1> QED
  BY <1>1, <1>3, <1>4, <1>5, <1>6, RowStep

-----------------------------------------------------------------------------
(* What the steps do to the amounts                                        *)

\* A finite set of naturals has a greatest element.
LEMMA GreatestIn ==
  ASSUME NEW S \in SUBSET Nat, IsFiniteSet(S), S # {}
  PROVE  Max(S) \in S
<1> DEFINE Bad == {T \in SUBSET S : T # {} /\ ~ \E m \in T : \A n \in T : m >= n}
<1>1. Bad = {}
  <2> SUFFICES ASSUME Bad # {} PROVE FALSE
    OBVIOUS
  <2>1. PICK T \in Bad : \A U \in SUBSET T : U # T => U \notin Bad
    <3>1. Bad \subseteq SUBSET S
      OBVIOUS
    <3> HIDE DEF Bad
    <3> QED
      BY <3>1, SmallestSet
  <2>2. PICK x \in T : x \in Nat
    OBVIOUS
  <2>3. CASE T \ {x} = {}
    BY <2>2, <2>3
  <2>4. CASE T \ {x} # {}
    <3>1. PICK m \in T \ {x} : \A n \in T \ {x} : m >= n
      BY <2>1, <2>2, <2>4
    <3>2. m \in Nat /\ \A n \in T : n \in Nat
      OBVIOUS
    <3>3. CASE m >= x
      BY <3>1, <3>2, <3>3
    <3>4. CASE ~(m >= x)
      BY <2>2, <3>1, <3>2, <3>4
    <3> QED
      BY <3>3, <3>4
  <2> QED
    BY <2>3, <2>4
<1>2. \E m \in S : \A n \in S : m >= n
  BY <1>1
<1> QED
  BY <1>2 DEF Max

LEMMA HoldType == ResearchHold \in Nat
<1> DEFINE bounds == {Bound[r] : r \in Request}
           f == [r \in Request |-> Bound[r]]
<1>1. f \in Surjection(Request, bounds)
  BY DEF Surjection
<1>2. IsFiniteSet(bounds)
  BY <1>1, RequestAssumption, FS_Surjection
<1>3. IsFiniteSet({0} \cup bounds) /\ {0} \cup bounds \in SUBSET Nat
  BY <1>2, FS_AddElement, FS_Singleton, FS_Union, BoundAssumption
<1>4. Max({0} \cup bounds) \in Nat
  BY <1>3, GreatestIn
<1> QED
  BY <1>4, LimitsAssumption DEF ResearchHold

LEMMA RaisedFrom ==
  ASSUME IInv, NEW a \in Attempt, \E failure : Raise(a, failure)
  PROVE  \A b \in Attempt : pc'[b] \in {"watch", "settle"} => b # a /\ pc[b] \in {"watch", "settle"}
BY Raised DEF IInv

LEMMA ClaimAmounts ==
  ASSUME IInv, Amounts, NEW a \in Attempt, Claim(a)
  PROVE  Amounts'
<1>1. /\ charge' = charge /\ costUsed' = costUsed /\ launched' = launched
  BY DEF Claim, ledger
<1>2. ASSUME NEW b \in Attempt, pc'[b] \in {"watch", "settle"} PROVE pc[b] \in {"watch", "settle"}
  BY <1>2 DEF Claim, Goto, IInv, Shape
<1>3. CASE ops' = ops
  BY <1>1, <1>2, <1>3, QuietAmounts
<1>4. CASE ops' = [o \in Ops |-> IF o \in Repeatable /\ Is(o, Unresolved)
                                 THEN [ops[o] EXCEPT !.state = "planned"] ELSE ops[o]]
  <2>1. ASSUME NEW o \in Ops
        PROVE  \/ ops'[o] = ops[o]
               \/ /\ o \in Read /\ o # Wake /\ ops[o].state \in Unresolved
                  /\ ops'[o].state = "planned" /\ ops'[o].reserved = ops[o].reserved
                  /\ ops'[o].cost = ops[o].cost /\ ops'[o].denied = ops[o].denied
    <3>1. ops[o] = [state |-> ops[o].state, reserved |-> ops[o].reserved,
                    cost |-> ops[o].cost, denied |-> ops[o].denied]
      BY Rows DEF IInv
    <3>2. CASE o \in Repeatable /\ Is(o, Unresolved)
      <4>1. ops'[o] = [state |-> "planned", reserved |-> ops[o].reserved,
                       cost |-> ops[o].cost, denied |-> ops[o].denied]
        BY <1>4, <3>1, <3>2
      <4> QED
        BY <3>2, <4>1, Kinds DEF Repeatable, Is
    <3>3. CASE ~(o \in Repeatable /\ Is(o, Unresolved))
      BY <1>4, <3>3
    <3> QED
      BY <3>2, <3>3
  <2>2. \A o \in Ops : RowAmounts(o) /\ RowAmounts(o)'
    BY <1>1, <2>1 DEF Amounts, RowAmounts, Is
  <2>3. \A o \in Ops : /\ BookedAt(o, ops'[o], charge'[o]) <= BookedAt(o, ops[o], charge[o])
                       /\ RecordedAt(ops'[o]) <= RecordedAt(ops[o])
    BY <1>1, <2>1, <2>2 DEF BookedAt, RecordedAt, RowAmounts, Unresolved
  <2>4. ops'[Wake] = ops[Wake]
    BY <2>1, Kinds
  <2>5. WakeHeld'
    BY <1>1, <1>2, <2>4 DEF Amounts, WakeHeld, Is
  <2>6. Booked \in Int /\ Recorded \in Int /\ Booked' \in Int /\ Recorded' \in Int
    <3>1. \A o \in Ops : /\ BookedAt(o, ops[o], charge[o]) \in Int
                         /\ BookedAt(o, ops'[o], charge'[o]) \in Int
                         /\ RecordedAt(ops[o]) \in Int /\ RecordedAt(ops'[o]) \in Int
      BY <2>2, AmountTypes DEF RowAmounts
    <3> QED
      BY <3>1, OpsFinite, SumInt DEF Booked, Recorded
  <2> QED
    BY <1>1, <2>2, <2>3, <2>5, <2>6, SumsGoDown, LimitsAssumption DEF Amounts
<1> QED
  BY <1>3, <1>4 DEF Claim, ledger

LEMMA OpenAmounts ==
  ASSUME IInv, Amounts, NEW a \in Attempt, Open(a)
  PROVE  Amounts'
<1>1. /\ charge' = charge /\ costUsed' = costUsed /\ launched' = launched /\ pc[a] = "open"
  BY DEF Open
<1>2. ASSUME NEW b \in Attempt, pc'[b] \in {"watch", "settle"} PROVE pc[b] \in {"watch", "settle"}
  <2>1. CASE Goto(a, "start")
    BY <1>2, <2>1 DEF Goto, IInv, Shape
  <2>2. CASE \E failure : Raise(a, failure)
    BY <1>2, <2>2, RaisedFrom
  <2> QED
    BY <2>1, <2>2 DEF Open
<1>3. CASE ops' = ops
  BY <1>1, <1>2, <1>3, QuietAmounts
<1>4. CASE ModelBudget > 0 /\ Is(Wake, {"none"}) /\ Fits(WakeReserve) /\ Begun(Wake, WakeReserve)
  <2>1. WakeReserve \in Nat
    BY <1>4, HoldType, LimitsAssumption DEF WakeReserve, ModelBudget, Amounts
  <2>2. \A b \in Attempt : pc[b] \notin {"watch", "settle"}
    BY <1>4 DEF Amounts, WakeHeld, Is, Unresolved
  <2>3. WakeHeld'
    <3>1. ops'[Wake].state = "planned"
      BY <1>4, Kinds DEF Begun, NoOp, IInv, Shape
    <3> QED
      BY <1>2, <2>2, <3>1 DEF WakeHeld, Is
  <2>4. ~Is(Wake, {"completed"})
    BY <1>4 DEF Is
  <2> HIDE DEF WakeReserve
  <2> QED
    BY <1>1, <1>4, <2>1, <2>3, <2>4, Kinds, BegunAmounts
<1> QED
  BY <1>3, <1>4 DEF Open

LEMMA CheckAmounts ==
  ASSUME IInv, Amounts, NEW a \in Attempt, Check(a)
  PROVE  Amounts'
<1>1. ops' = ops /\ costUsed' = costUsed /\ pc[a] = "check"
  BY DEF Check
<1>2. CASE charge' = charge /\ launched' = launched /\ \E failure : Raise(a, failure)
  BY <1>1, <1>2, RaisedFrom, QuietAmounts
<1>3. CASE /\ FirstCheck(a) = "" /\ Goto(a, "watch") /\ launched' = launched \cup {a}
           /\ \/ charge' = charge
              \/ \E c \in Charges(Wake) : charge' = [charge EXCEPT ![Wake] = @ + c]
  <2>1. Is(Wake, Unresolved)
    BY <1>1, <1>3, LimitIsLease DEF FirstCheck, IInv, OneProcess
  <2>2. WakeHeld'
    BY <1>1, <1>3, <2>1 DEF Goto, IInv, Shape, Amounts, WakeHeld, Is, Unresolved
  <2>3. RowAmounts(Wake) /\ Wake \in Ops
    BY Kinds DEF Amounts
  <2>4. /\ charge'[Wake] \in Nat
        /\ \A o \in Ops \ {Wake} : charge'[o] = charge[o]
    <3>1. CASE charge' = charge
      BY <2>3, <3>1 DEF RowAmounts
    <3>2. CASE \E c \in Charges(Wake) : charge' = [charge EXCEPT ![Wake] = @ + c]
      <4>1. PICK c \in Charges(Wake) : charge' = [charge EXCEPT ![Wake] = @ + c]
        BY <3>2
      <4>2. c \in Nat /\ charge[Wake] \in Nat /\ charge[Wake] + c \in Nat
        BY <2>3 DEF Charges, RowAmounts
      <4>3. charge = [o \in Ops |-> charge[o]]
        BY DEF IInv, Shape
      <4> QED
        BY <2>3, <4>1, <4>2, <4>3
    <3> QED
      BY <1>3, <3>1, <3>2
  <2>5. RowAmounts(Wake)'
    BY <1>1, <2>3, <2>4 DEF RowAmounts, Is
  <2>6. /\ BookedAt(Wake, ops'[Wake], charge'[Wake]) <= BookedAt(Wake, ops[Wake], charge[Wake])
        /\ RecordedAt(ops'[Wake]) - RecordedAt(ops[Wake]) <= costUsed' - costUsed
        /\ costUsed' \in Nat
    BY <1>1, <2>3 DEF BookedAt, RecordedAt, RowAmounts, Amounts
  <2> QED
    BY <1>1, <2>2, <2>3, <2>4, <2>5, <2>6, RowStep
<1> QED
  BY <1>2, <1>3 DEF Check, Works, IInv

LEMMA SettleAmounts ==
  ASSUME IInv, Amounts, NEW a \in Attempt, Settle(a)
  PROVE  Amounts'
<1>1. charge' = charge /\ launched' = launched /\ pc[a] = "settle"
  BY DEF Settle
<1>2. ASSUME NEW b \in Attempt, pc'[b] \in {"watch", "settle"}
      PROVE  b # a /\ pc[b] \in {"watch", "settle"}
  <2>1. CASE Goto(a, "commit")
    BY <1>2, <2>1 DEF Goto, IInv, Shape
  <2>2. CASE \E failure : Raise(a, failure)
    BY <1>2, <2>2, RaisedFrom
  <2> QED
    BY <2>1, <2>2 DEF Settle
<1>3. CASE ops' = ops /\ costUsed' = costUsed
  BY <1>1, <1>2, <1>3, QuietAmounts
<1>4. CASE Completed(Wake, charge[Wake])
  <2>1. a \in launched /\ Is(Wake, Unresolved)
    BY <1>1 DEF Amounts, WakeHeld
  <2>2. \A b \in Attempt : pc'[b] \notin {"watch", "settle"}
    BY <1>2, <2>1 DEF Amounts, WakeHeld, IInv, OneProcess
  <2>3. ops'[Wake].state = "completed"
    <3>1. ops'[Wake] = [state |-> "completed", reserved |-> ops[Wake].reserved,
                        cost |-> charge[Wake], denied |-> ops[Wake].denied]
      BY <1>4, <2>1, CompletedRow, Kinds DEF IInv, Is, Unresolved
    <3> QED
      BY <3>1
  <2>4. WakeHeld'
    BY <2>2, <2>3 DEF WakeHeld, Is
  <2> QED
    BY <1>1, <1>4, <2>1, <2>4, Kinds, CompletedAmounts DEF Is, Unresolved
<1> QED
  BY <1>3, <1>4 DEF Settle

LEMMA MarkAmounts ==
  ASSUME IInv, Amounts, NEW a \in Attempt, Mark(a)
  PROVE  Amounts'
<1>1. /\ charge' = charge /\ costUsed' = costUsed /\ launched' = launched
  BY DEF Mark
<1>2. ASSUME NEW b \in Attempt, pc'[b] \in {"watch", "settle"} PROVE pc[b] \in {"watch", "settle"}
  BY <1>2 DEF Mark, Goto, IInv, Shape
<1>3. ASSUME NEW o \in Ops
      PROVE  \/ ops'[o] = ops[o]
             \/ /\ ops[o].state = "started" /\ ops'[o].state = "unknown"
                /\ ops'[o].reserved = ops[o].reserved
                /\ ops'[o].cost = ops[o].cost /\ ops'[o].denied = ops[o].denied
  <2>1. ops[o] = [state |-> ops[o].state, reserved |-> ops[o].reserved,
                  cost |-> ops[o].cost, denied |-> ops[o].denied]
    BY Rows DEF IInv
  <2>2. CASE Is(o, {"started"})
    <3>1. ops'[o] = [state |-> "unknown", reserved |-> ops[o].reserved,
                     cost |-> ops[o].cost, denied |-> ops[o].denied]
      BY <2>1, <2>2 DEF Mark
    <3> QED
      BY <2>2, <3>1 DEF Is
  <2>3. CASE ~Is(o, {"started"})
    BY <2>3 DEF Mark
  <2> QED
    BY <2>2, <2>3
<1>4. \A o \in Ops : RowAmounts(o) /\ RowAmounts(o)'
  BY <1>1, <1>3 DEF Amounts, RowAmounts, Is
<1>5. \A o \in Ops : /\ BookedAt(o, ops'[o], charge'[o]) <= BookedAt(o, ops[o], charge[o])
                     /\ RecordedAt(ops'[o]) <= RecordedAt(ops[o])
  BY <1>1, <1>3, <1>4 DEF BookedAt, RecordedAt, RowAmounts
<1>6. WakeHeld'
  <2>1. /\ Is(Wake, Unresolved) => Is(Wake, Unresolved)'
        /\ ~Is(Wake, {"failed"})'
    BY <1>3, Kinds DEF Amounts, WakeHeld, Is, Unresolved
  <2> QED
    BY <1>1, <1>2, <2>1 DEF Amounts, WakeHeld
<1>7. Booked \in Int /\ Recorded \in Int /\ Booked' \in Int /\ Recorded' \in Int
  <2>1. \A o \in Ops : /\ BookedAt(o, ops[o], charge[o]) \in Int
                       /\ BookedAt(o, ops'[o], charge'[o]) \in Int
                       /\ RecordedAt(ops[o]) \in Int /\ RecordedAt(ops'[o]) \in Int
    BY <1>4, AmountTypes DEF RowAmounts
  <2> QED
    BY <2>1, OpsFinite, SumInt DEF Booked, Recorded
<1> QED
  BY <1>1, <1>4, <1>5, <1>6, <1>7, SumsGoDown, LimitsAssumption DEF Amounts

LEMMA SupervisorAmounts ==
  ASSUME IInv, Amounts, NEW a \in Attempt, Supervisor(a)
  PROVE  Amounts'
<1>1. CASE Start(a)
  <2>1. /\ SetState(Wake, "started") /\ charge' = charge /\ costUsed' = costUsed
        /\ launched' = launched /\ Goto(a, "save")
    BY <1>1 DEF Start
  <2>2. ops'[Wake].state = "started"
    <3>1. ops'[Wake] = [state |-> "started", reserved |-> ops[Wake].reserved,
                        cost |-> ops[Wake].cost, denied |-> ops[Wake].denied]
      BY <2>1, SetStateRow, Kinds DEF IInv
    <3> QED
      BY <3>1
  <2>3. WakeHeld'
    BY <2>1, <2>2 DEF Goto, IInv, Shape, Amounts, WakeHeld, Is, Unresolved
  <2>4. charge'[Wake] \in Nat
    BY <2>1, Kinds DEF Amounts, RowAmounts
  <2> QED
    BY <2>1, <2>3, <2>4, Kinds, StateAmounts
<1>2. CASE \/ NotPrepared(a) \/ Save(a) \/ Launch(a) \/ Supervise(a) \/ Exit(a)
           \/ Commit(a) \/ End(a)
  <2>1. /\ ops' = ops /\ charge' = charge /\ costUsed' = costUsed /\ launched' = launched
    BY <1>2 DEF IInv, NotPrepared, Save, Launch, Supervise, Exit, Commit, End, ledger
  <2>2. ASSUME NEW b \in Attempt, pc'[b] \in {"watch", "settle"}
        PROVE  pc[b] \in {"watch", "settle"}
    <3>1. CASE \E failure : Raise(a, failure)
      BY <2>2, <3>1, RaisedFrom
    <3>2. CASE \/ Goto(a, "launch") \/ Goto(a, "check") \/ Goto(a, "over")
               \/ (Goto(a, "settle") /\ pc[a] = "watch")
      BY <2>2, <3>2 DEF Goto, IInv, Shape
    <3> QED
      BY <1>2, <3>1, <3>2 DEF IInv, Running, NotPrepared, Save, Launch, Supervise, Exit, Commit, End
  <2> QED
    BY <2>1, <2>2, QuietAmounts
<1> QED
  BY <1>1, <1>2, ClaimAmounts, OpenAmounts, CheckAmounts, SettleAmounts, MarkAmounts
     DEF Supervisor

\* What is charged is what the reservation allows, or a unit more.
LEMMA SentAmounts ==
  ASSUME IInv, Amounts, NEW x \in Ops, Sent(x)
  PROVE  /\ charge'[x] \in Nat /\ \A o \in Ops \ {x} : charge'[o] = charge[o]
         /\ SetState(x, "started")
<1>1. ops[x].reserved \in Nat
  BY DEF Amounts, RowAmounts
<1> QED
  BY <1>1 DEF Sent, Charges, IInv, Shape

LEMMA OtherRow ==
  ASSUME IInv, NEW x \in Ops, x # Wake,
         (\E state : SetState(x, state)) \/ Completed(x, charge[x])
  PROVE  ops'[Wake] = ops[Wake]
<1>1. ASSUME NEW state, SetState(x, state) PROVE ops'[Wake] = ops[Wake]
  BY <1>1, SetStateRow, Kinds DEF IInv
<1>2. CASE Completed(x, charge[x])
  BY <1>2, CompletedRow, Kinds DEF IInv
<1> QED
  BY <1>1, <1>2

LEMMA GatewayAmounts ==
  ASSUME IInv, Amounts, NEW a \in Attempt, Gateway(a)
  PROVE  Amounts'
<1>1. pc' = pc /\ launched' = launched
  BY DEF Gateway, Admit, SendModel, Answered, NotAnswered, Account
<1>2. CASE ops' = ops /\ charge' = charge /\ costUsed' = costUsed
  BY <1>1, <1>2, QuietAmounts
<1>3. CASE Admit(a) /\ ops' # ops
  <2> DEFINE used == Cardinality({o \in Model : ~Is(o, {"none"})})
  <2>1. PICK price \in Price : /\ used < MaxModel /\ Fits(price)
                               /\ Begun(<<"model", used + 1>>, price)
                               /\ charge' = charge /\ costUsed' = costUsed /\ pc[a] = "watch"
    BY <1>3 DEF Admit, GateOpen, Running, IInv
  <2>2. /\ used \in Nat
        /\ \A n \in 1..MaxModel : ~Is(<<"model", n>>, {"none"}) <=> n <= used
    BY <2>1, NextIsNew
  <2> HIDE DEF used
  <2>3. used + 1 \in 1..MaxModel
    BY <2>1, <2>2, LimitsAssumption
  <2>4. PICK o \in Model : o = <<"model", used + 1>>
    BY <2>3 DEF Model
  <2>5. o \in Ops /\ o # Wake /\ Is(o, {"none"})
    BY <2>2, <2>3, <2>4, Kinds
  <2>6. price \in Nat
    BY BoundAssumption
  <2>7. ops'[Wake] = ops[Wake]
    BY <2>1, <2>4, <2>5, BegunRow, Kinds DEF IInv
  <2>8. WakeHeld'
    BY <1>1, <2>7, ThreadHeld
  <2>9. ~Is(Wake, {"completed"})
    BY <2>1 DEF Amounts, WakeHeld, Is, Unresolved
  <2> QED
    BY <2>1, <2>4, <2>5, <2>6, <2>8, <2>9, BegunAmounts
<1>4. CASE (SendModel(a) \/ NotAnswered(a) \/ Account(a)) /\ gate[a].at # "rest"
  <2>1. PICK o \in Model :
          /\ o = gate[a].op /\ o \in Ops /\ o # Wake /\ o \notin Read
          /\ ~Is(o, {"none", "completed", "failed"})
    BY <1>4, GateCall DEF IInv, GateOK, Is, Unresolved
  <2>2. CASE SendModel(a)
    <3>1. Sent(o) /\ costUsed' = costUsed
      BY <2>1, <2>2 DEF SendModel
    <3>2. /\ charge'[o] \in Nat /\ \A p \in Ops \ {o} : charge'[p] = charge[p]
          /\ SetState(o, "started")
      BY <2>1, <3>1, SentAmounts
    <3>3. WakeHeld'
      BY <1>1, <2>1, <3>2, OtherRow, ThreadHeld
    <3> QED
      BY <2>1, <3>1, <3>2, <3>3, StateAmounts DEF Is
  <2>3. CASE NotAnswered(a)
    <3>1. PICK state \in {"unknown", "failed"} :
            SetState(o, state) /\ costUsed' = costUsed /\ charge' = charge
      BY <2>1, <2>3 DEF NotAnswered, NoAnswer
    <3>2. charge'[o] \in Nat
      BY <2>1, <3>1 DEF Amounts, RowAmounts
    <3>3. WakeHeld'
      BY <1>1, <2>1, <3>1, OtherRow, ThreadHeld
    <3> QED
      BY <2>1, <3>1, <3>2, <3>3, StateAmounts DEF Is
  <2>4. CASE Account(a) /\ Completed(o, charge[o])
    <3>1. charge' = charge
      BY <2>4 DEF Account
    <3>2. ops'[Wake] = ops[Wake]
      BY <2>1, <2>4, OtherRow
    <3>3. WakeHeld'
      BY <1>1, <3>2, ThreadHeld
    <3> QED
      BY <2>1, <2>4, <3>1, <3>3, CompletedAmounts DEF Is
  <2>5. CASE Account(a) /\ ~Completed(o, charge[o])
    BY <1>2, <2>1, <2>5 DEF Account
  <2> QED
    BY <1>4, <2>2, <2>3, <2>4, <2>5
<1> QED
  BY <1>2, <1>3, <1>4 DEF Gateway, Admit, SendModel, NotAnswered, Account, Answered, GateAt, ledger

LEMMA AgentToolsAmounts ==
  ASSUME IInv, Amounts, NEW a \in Attempt, AgentTools(a)
  PROVE  Amounts'
<1>1. pc' = pc /\ launched' = launched
  BY DEF AgentTools, Research, Throttled, Recheck, Ask, NoPage, Store, Submit
<1>2. CASE ops' = ops /\ charge' = charge /\ costUsed' = costUsed
  BY <1>1, <1>2, QuietAmounts
<1>3. ASSUME NEW o \in Read, Research(a, o), ops' # ops PROVE Amounts'
  <2>1. /\ Is(o, {"none"}) /\ Fits(Bound[o[2]]) /\ Begun(o, Bound[o[2]])
        /\ charge' = charge /\ costUsed' = costUsed /\ pc[a] = "watch"
    BY <1>3 DEF Research, Running, BeginRead, IInv
  <2>2. o \in Ops /\ o # Wake /\ Bound[o[2]] \in Nat
    BY Kinds, BoundAssumption DEF Read
  <2>3. ops'[Wake] = ops[Wake]
    BY <2>1, <2>2, BegunRow, Kinds DEF IInv
  <2>4. WakeHeld'
    BY <1>1, <2>3, ThreadHeld
  <2>5. ~Is(Wake, {"completed"})
    BY <2>1 DEF Amounts, WakeHeld, Is, Unresolved
  <2> QED
    BY <2>1, <2>2, <2>4, <2>5, BegunAmounts
<1>4. CASE (Throttled(a) \/ Ask(a) \/ NoPage(a) \/ Store(a)) /\ bridge[a].at # "rest"
  <2>1. PICK o \in Read :
          /\ o = bridge[a].op /\ o \in Ops /\ o # Wake /\ o \notin Model
          /\ ~Is(o, {"none", "completed"}) /\ ops[o].cost = 0
          /\ ops[o].reserved = 0 => charge[o] = 0
          /\ bridge[a].at # "page" => Is(o, {"planned", "failed"}) /\ charge[o] = 0
    BY <1>4, BridgeCall, Kinds
  <2>2. RowAmounts(o) /\ (Is(o, {"failed"}) => ops[o].reserved = 0)
    BY <2>1 DEF Amounts, RowAmounts
  <2>3. CASE Throttled(a) /\ ops' # ops
    <3>1. /\ ops' = [ops EXCEPT ![o].state = "completed", ![o].denied = TRUE]
          /\ charge' = charge /\ costUsed' = costUsed /\ bridge[a].at = "look"
      BY <2>1, <2>3 DEF Throttled, BridgeAt
    <3>2. /\ \A p \in Ops \ {o} : ops'[p] = ops[p]
          /\ ops'[o].state = "completed" /\ ops'[o].reserved = ops[o].reserved
          /\ ops'[o].cost = ops[o].cost /\ ops'[o].denied = TRUE
      <4>1. ops[o] = [state |-> ops[o].state, reserved |-> ops[o].reserved,
                      cost |-> ops[o].cost, denied |-> ops[o].denied]
        BY <2>1, Rows DEF IInv
      <4>2. ops'[o] = [state |-> "completed", reserved |-> ops[o].reserved,
                       cost |-> ops[o].cost, denied |-> TRUE]
        BY <2>1, <3>1, <4>1 DEF IInv, Shape
      <4> QED
        BY <3>1, <4>2 DEF IInv, Shape
    <3>3. WakeHeld'
      BY <1>1, <2>1, <3>2, Kinds, ThreadHeld
    <3>4. RowAmounts(o)'
      BY <2>2, <3>1, <3>2 DEF RowAmounts, Is
    <3>5. /\ BookedAt(o, ops'[o], charge'[o]) <= BookedAt(o, ops[o], charge[o])
          /\ RecordedAt(ops'[o]) - RecordedAt(ops[o]) <= costUsed' - costUsed
          /\ costUsed' \in Nat
      <4>1. BookedAt(o, ops'[o], charge'[o]) = 0 /\ BookedAt(o, ops[o], charge[o]) \in Nat
        BY <2>1, <2>2, <3>1, <3>2, AmountTypes DEF BookedAt, RowAmounts
      <4>2. RecordedAt(ops'[o]) = 0 /\ RecordedAt(ops[o]) = 0
        BY <2>1, <3>2 DEF RecordedAt
      <4> QED
        BY <3>1, <4>1, <4>2 DEF Amounts
    <3> QED
      BY <2>1, <3>1, <3>2, <3>3, <3>4, <3>5, RowStep
  <2>4. CASE Ask(a)
    <3>1. Sent(o) /\ costUsed' = costUsed
      BY <2>1, <2>4 DEF Ask
    <3>2. /\ charge'[o] \in Nat /\ \A p \in Ops \ {o} : charge'[p] = charge[p]
          /\ SetState(o, "started")
      BY <2>1, <3>1, SentAmounts
    <3>3. WakeHeld'
      BY <1>1, <2>1, <3>2, OtherRow, ThreadHeld
    <3> QED
      BY <2>1, <2>2, <3>1, <3>2, <3>3, StateAmounts
  <2>5. CASE NoPage(a) /\ ops' # ops
    <3>1. PICK state \in {"unknown", "failed"} :
            /\ SetState(o, state) /\ costUsed' = costUsed /\ charge' = charge
            /\ state = "failed" => ~(ops[o].reserved > 0)
      BY <2>1, <2>5 DEF NoPage
    <3>2. charge'[o] \in Nat /\ (state = "failed" => ops[o].reserved = 0)
      BY <2>2, <3>1 DEF RowAmounts
    <3>3. WakeHeld'
      BY <1>1, <2>1, <3>1, OtherRow, ThreadHeld
    <3> QED
      BY <2>1, <2>2, <3>1, <3>2, <3>3, StateAmounts
  <2>6. CASE Store(a) /\ Completed(o, charge[o])
    <3>1. charge' = charge
      BY <2>6 DEF Store
    <3>2. ops'[Wake] = ops[Wake]
      BY <2>1, <2>6, OtherRow
    <3>3. WakeHeld'
      BY <1>1, <3>2, ThreadHeld
    <3> QED
      BY <2>1, <2>2, <2>6, <3>1, <3>3, CompletedAmounts
  <2>7. CASE Store(a) /\ ~Completed(o, charge[o])
    BY <1>2, <2>1, <2>7 DEF Store
  <2> QED
    BY <1>2, <1>4, <2>3, <2>4, <2>5, <2>6, <2>7 DEF Throttled, NoPage
<1> QED
  BY <1>2, <1>3, <1>4 DEF AgentTools, Research, Throttled, Recheck, Ask, NoPage, Store, Submit,
     BridgeAt, ledger

\* The costs of the completed calls, summed again.
LEMMA ReconcileAmounts ==
  ASSUME IInv, Amounts, Reconcile
  PROVE  Amounts'
<1> DEFINE done == {o \in Ops : Is(o, {"completed"})}
           c == [o \in Ops |-> ops[o].cost]
           r == [o \in Ops |-> IF o \in done THEN c[o] ELSE 0]
<1>1. /\ ops' = ops /\ charge' = charge /\ pc' = pc /\ launched' = launched
      /\ costUsed' = SumFunctionOnSet(c, done)
  BY DEF Reconcile
<1>2. \A o \in Ops : c[o] \in Int /\ r[o] \in Nat /\ r[o] = RecordedAt(ops[o])
  BY DEF Amounts, RowAmounts, RecordedAt, Is
<1>3. r = [o \in Ops |-> RecordedAt(ops[o])]
  BY <1>2
<1>4. SumFunctionOnSet(c, done) = SumFunctionOnSet(r, Ops)
  <2>1. done \in SUBSET Ops
    OBVIOUS
  <2> HIDE DEF done, c
  <2> QED
    BY <1>2, <2>1, OpsFinite, SumPart
<1> HIDE DEF done, c, r
<1>5. costUsed' = Recorded /\ costUsed' \in Nat
  BY <1>1, <1>2, <1>3, <1>4, OpsFinite, SumNat DEF Recorded
<1>6. \A o \in Ops : RowAmounts(o)'
  BY <1>1 DEF Amounts, RowAmounts, Is
<1>7. WakeHeld'
  BY <1>1 DEF Amounts, WakeHeld, Is
<1> QED
  BY <1>1, <1>5, <1>6, <1>7 DEF Amounts, Booked, Recorded

LEMMA StepAmounts == IInv /\ Amounts /\ [Next]_vars => Amounts'
<1> SUFFICES ASSUME IInv, Amounts, [Next]_vars PROVE Amounts'
  OBVIOUS
<1>1. CASE UNCHANGED vars \/ Expire \/ Cancel \/ Deadline
  <2>1. /\ ops' = ops /\ charge' = charge /\ costUsed' = costUsed
        /\ launched' = launched /\ pc' = pc
    BY <1>1 DEF vars, Expire, Cancel, Deadline, ledger
  <2> QED
    BY <2>1, QuietAmounts
<1> QED
  BY <1>1, SupervisorAmounts, GatewayAmounts, AgentToolsAmounts, ReconcileAmounts DEF Next

LEMMA InitAmounts == Init => Amounts
<1> SUFFICES ASSUME Init PROVE Amounts
  OBVIOUS
<1>1. \A o \in Ops : /\ ops[o] = [state |-> "none", reserved |-> 0, cost |-> 0, denied |-> FALSE]
                     /\ charge[o] = 0
  BY DEF Init, NoOp
<1>2. \A o \in Ops : RowAmounts(o) /\ ops[o].state = "none"
  <2>1. \A o \in Ops : /\ ops[o].state = "none" /\ ops[o].reserved = 0 /\ ops[o].cost = 0
                       /\ ops[o].denied = FALSE /\ charge[o] = 0
    BY <1>1
  <2>2. ASSUME NEW o \in Ops PROVE RowAmounts(o) /\ ops[o].state = "none"
    <3>1. /\ ops[o].state = "none" /\ ops[o].reserved = 0 /\ ops[o].cost = 0
          /\ ops[o].denied \in BOOLEAN /\ charge[o] = 0
      BY <2>1
    <3> QED
      BY <3>1 DEF RowAmounts, Is
  <2> QED
    BY <2>2
<1>3. WakeHeld
  BY <1>2, Kinds DEF Init, WakeHeld, Is
<1>4. \A o \in Ops : BookedAt(o, ops[o], charge[o]) = 0 /\ RecordedAt(ops[o]) = 0
  BY <1>1 DEF BookedAt, RecordedAt
<1>5. Booked = 0 /\ Recorded = 0
  <2> DEFINE b == [o \in Ops |-> BookedAt(o, ops[o], charge[o])]
             r == [o \in Ops |-> RecordedAt(ops[o])]
  <2>1. \A o \in Ops : b[o] \in {0} /\ r[o] \in {0}
    BY <1>4
  <2>2. 0 \in {0} /\ \A m, n \in {0} : m + n \in {0}
    OBVIOUS
  <2>3. Booked = SumFunctionOnSet(b, Ops) /\ Recorded = SumFunctionOnSet(r, Ops)
    BY DEF Booked, Recorded
  <2> HIDE DEF b, r
  <2>4. Booked \in {0} /\ Recorded \in {0}
    BY <2>1, <2>2, <2>3, OpsFinite, SumType
  <2> QED
    BY <2>4
<1> QED
  BY <1>2, <1>3, <1>5, LimitsAssumption DEF Init, Amounts

LEMMA AmountsInvariance == PromptLaunch => (Spec => []Amounts)
<1> SUFFICES ASSUME PromptLaunch PROVE Spec => []Amounts
  OBVIOUS
<1> QED
  BY InitAmounts, StepAmounts, Invariance, PTL DEF Spec

\* However the calls of a turn, their losses and its restarts interleave, what
\* the providers charged within their reservations fits the discovery's budget,
\* for every budget, all bounds and prices and any number of overruns.
THEOREM ChargesStayInBudget == PromptLaunch => (Spec => []ChargesFit)
<1> SUFFICES ASSUME PromptLaunch PROVE Spec => []ChargesFit
  OBVIOUS
<1>1. IInv /\ Amounts => ChargesFit
  <2> SUFFICES ASSUME IInv, Amounts PROVE ChargesFit
    OBVIOUS
  <2> DEFINE m == [o \in Ops |-> Min({charge[o], ops[o].reserved})]
             b == [o \in Ops |-> BookedAt(o, ops[o], charge[o])]
  <2>1. ASSUME NEW o \in Ops PROVE m[o] \in Int /\ b[o] \in Int /\ m[o] <= b[o]
    <3>1. RowAmounts(o) /\ RowOK(o)
      BY DEF IInv, Amounts
    <3>2. Min({charge[o], ops[o].reserved})
            = IF charge[o] <= ops[o].reserved THEN charge[o] ELSE ops[o].reserved
      BY <3>1 DEF Min, RowAmounts
    <3>3. BookedAt(o, ops[o], charge[o]) \in Nat
      BY <3>1, AmountTypes DEF RowAmounts
    <3>4. Is(o, {"none", "failed"}) => charge[o] = 0
      BY <3>1 DEF RowOK, Is
    <3> QED
      BY <3>1, <3>2, <3>3, <3>4 DEF BookedAt, RowAmounts, Is
  <2>2. Booked = SumFunctionOnSet(b, Ops)
    BY DEF Booked
  <2>3. ChargesFit <=> SumFunctionOnSet(m, Ops) <= MaxCost
    BY DEF ChargesFit
  <2> HIDE DEF m, b
  <2>4. SumFunctionOnSet(m, Ops) <= Booked /\ Booked \in Int /\ SumFunctionOnSet(m, Ops) \in Int
    BY <2>1, <2>2, OpsFinite, SumMonotone, SumInt
  <2> QED
    BY <2>3, <2>4, LimitsAssumption DEF Amounts
<1> QED
  BY <1>1, Invariance, AmountsInvariance, PTL

-----------------------------------------------------------------------------
(* Types                                                                   *)

Types ==
  /\ provider \in Providers
  /\ ended \in BOOLEAN /\ late \in BOOLEAN /\ live \in BOOLEAN /\ submitted \in BOOLEAN
  /\ task \in {"open", "working", "done", "failed"}
  /\ lease \in Attempt \cup {0}

LEMMA FinishTypes ==
  ASSUME Types, Finish
  PROVE  /\ ended' \in BOOLEAN /\ live' \in BOOLEAN
         /\ task' \in {"open", "working", "done", "failed"}
         /\ lease' \in Attempt \cup {0}
BY DEF Types, Finish

LEMMA StepTypes == Types /\ [Next]_vars => Types'
<1> SUFFICES ASSUME Types, [Next]_vars PROVE Types'
  OBVIOUS
<1>1. CASE UNCHANGED vars
  BY <1>1 DEF vars, Types
<1>2. ASSUME NEW a \in Attempt, Supervisor(a) PROVE Types'
  <2>1. CASE Claim(a) \/ Commit(a) \/ End(a)
    <3>1. CASE Finish
      BY <2>1, <3>1, FinishTypes DEF Types, Claim, Commit, End
    <3>2. CASE ~Finish
      BY <2>1, <3>2 DEF Types, Claim, Commit, End
    <3> QED
      BY <3>1, <3>2
  <2>2. CASE ~(Claim(a) \/ Commit(a) \/ End(a))
    BY <1>2, <2>2 DEF Types, Supervisor, Open, Start, NotPrepared, Save, Launch, Check, Supervise,
                      Exit, Settle, Mark, row
  <2> QED
    BY <2>1, <2>2
<1>3. ASSUME NEW a \in Attempt, Gateway(a) PROVE Types'
  BY <1>3 DEF Types, Gateway, Admit, SendModel, Answered, NotAnswered, Account, row
<1>4. ASSUME NEW a \in Attempt, AgentTools(a) PROVE Types'
  BY <1>4 DEF Types, AgentTools, Research, Throttled, Recheck, Ask, NoPage, Store, Submit, row
<1>5. CASE Expire \/ Deadline \/ Reconcile
  BY <1>5 DEF Types, Expire, Deadline, Reconcile, row
<1>6. CASE Cancel
  BY <1>6, FinishTypes DEF Types, Cancel
<1> QED
  BY <1>1, <1>2, <1>3, <1>4, <1>5, <1>6 DEF Next

\* Every row, thread and amount has its type, in all instances of the turn:
\* no amount becomes negative.
THEOREM TypeCorrect == PromptLaunch => (Spec => []TypeOK)
<1> SUFFICES ASSUME PromptLaunch PROVE Spec => []TypeOK
  OBVIOUS
<1>1. Init => Types
  BY DEF Init, Types
<1>2. Spec => []Types
  BY <1>1, StepTypes, PTL DEF Spec
<1>3. IInv /\ Amounts /\ Types => TypeOK
  <2> SUFFICES ASSUME IInv, Amounts, Types PROVE TypeOK
    OBVIOUS
  <2>1. \A o \in Ops : ops[o] \in [state : OpStates, reserved : Nat, cost : Nat, denied : BOOLEAN]
    <3> SUFFICES ASSUME NEW o \in Ops
                 PROVE  ops[o] \in [state : OpStates, reserved : Nat, cost : Nat, denied : BOOLEAN]
      OBVIOUS
    <3>1. ops[o] = [state |-> ops[o].state, reserved |-> ops[o].reserved,
                    cost |-> ops[o].cost, denied |-> ops[o].denied]
      BY Rows DEF IInv
    <3>2. /\ ops[o].state \in OpStates /\ ops[o].reserved \in Nat
          /\ ops[o].cost \in Nat /\ ops[o].denied \in BOOLEAN
      BY DEF IInv, Shape, Amounts, RowAmounts
    <3> QED
      BY <3>1, <3>2
  <2>2. ops = [o \in Ops |-> ops[o]]
    BY DEF IInv, Shape
  <2>3. ops \in [Ops -> [state : OpStates, reserved : Nat, cost : Nat, denied : BOOLEAN]]
    BY <2>1, <2>2
  <2>4. charge \in [Ops -> Nat]
    BY DEF IInv, Shape, Amounts, RowAmounts
  <2> QED
    BY <2>3, <2>4 DEF TypeOK, IInv, Shape, Amounts, Types
<1> QED
  BY <1>2, <1>3, Invariance, AmountsInvariance, PTL

=============================================================================
