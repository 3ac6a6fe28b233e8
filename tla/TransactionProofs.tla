-------------------------- MODULE TransactionProofs -------------------------
(***************************************************************************)
(* The transactions of DispatchTransactions, proved: no transactions wait  *)
(* for each other in a circle, what a transaction has written stays as it  *)
(* found it, and every commit is a commit of DispatchControl.              *)
(***************************************************************************)
EXTENDS DispatchTransactions, DispatchStepProofs

-----------------------------------------------------------------------------
(* Sequences taken one element at a time. *)

\* The first k elements of ws.
Done(ws, k) == [i \in 1..k |-> ws[i]]

\* The others.
Left(ws, k) == [i \in 1..(Len(ws) - k) |-> ws[i + k]]

\* Moving on by one element.
LEMMA MoveOn ==
  ASSUME NEW S, NEW ws \in Seq(S), NEW k \in 0..Len(ws), Left(ws, k) # <<>>
  PROVE  /\ k + 1 \in 1..Len(ws)
         /\ Head(Left(ws, k)) = ws[k + 1]
         /\ Tail(Left(ws, k)) = Left(ws, k + 1)
         /\ Append(Done(ws, k), Head(Left(ws, k))) = Done(ws, k + 1)
  <1>1. Len(ws) \in Nat /\ k \in Nat /\ k <= Len(ws)
    OBVIOUS
  <1>2. Left(ws, k) \in Seq(S) /\ Len(Left(ws, k)) = Len(ws) - k
    BY <1>1 DEF Left
  <1>3. Done(ws, k) \in Seq(S) /\ Len(Done(ws, k)) = k
    BY <1>1 DEF Done
  <1>4. k < Len(ws)
    BY <1>1, <1>2
  <1>5. Head(Left(ws, k)) = ws[k + 1]
    BY <1>1, <1>2, <1>4 DEF Left
  <1>6. Tail(Left(ws, k)) = Left(ws, k + 1)
    BY <1>1, <1>2, <1>4 DEF Left
  <1>7. Append(Done(ws, k), ws[k + 1]) = Done(ws, k + 1)
    BY <1>1, <1>3, <1>4 DEF Done
  <1> QED BY <1>1, <1>4, <1>5, <1>6, <1>7

\* Nothing done, nothing left.
LEMMA Ends ==
  ASSUME NEW S, NEW ws \in Seq(S)
  PROVE  /\ Done(ws, 0) = <<>> /\ Left(ws, 0) = ws
         /\ \A k \in 0..Len(ws) : Left(ws, k) = <<>> => k = Len(ws)
         /\ Done(ws, Len(ws)) = ws
  <1>1. Done(ws, 0) = <<>> /\ Left(ws, 0) = ws /\ Done(ws, Len(ws)) = ws
    BY DEF Done, Left
  <1>2. ASSUME NEW k \in 0..Len(ws), Left(ws, k) = <<>> PROVE k = Len(ws)
    <2>1. Len(Left(ws, k)) = Len(ws) - k
      BY DEF Left
    <2> QED BY <1>2, <2>1
  <1> QED BY <1>1, <1>2

-----------------------------------------------------------------------------
(* What a request writes. *)

\* The order in which every transaction writes: receipt, directive, gate.
Rank(id) ==
  CASE id \in ConfirmationIds -> 1
    [] id \in DirectiveIds -> 2
    [] id \in GateIds -> 3
    [] id \in ReservoirIds -> 4

\* The order is one of the tables.
LEMMA Ranks ==
  /\ \A id \in ConfirmationIds : Rank(id) = 1
  /\ \A id \in DirectiveIds : Rank(id) = 2
  /\ \A id \in GateIds : Rank(id) = 3
  /\ \A id \in ReservoirIds : Rank(id) = 4
  BY IdsAssumption DEF Rank

\* The parts of a written row.
LEMMA WriteParts ==
  /\ \A id, row : /\ Insertion(id, row).id = id /\ Insertion(id, row).kind = "insert"
                  /\ Insertion(id, row).row = row
                  /\ Insertion(id, row).before = None
                  /\ Insertion(id, row).after = row.status
  /\ \A id, exp, old, row :
       /\ Update(id, exp, old, row).id = id /\ Update(id, exp, old, row).kind = "update"
       /\ Update(id, exp, old, row).exp = exp
       /\ Update(id, exp, old, row).row = [row EXCEPT !.version = exp + 1]
       /\ Update(id, exp, old, row).before = old.status
       /\ Update(id, exp, old, row).after = row.status
  /\ \A id, old : /\ Deletion(id, old).id = id /\ Deletion(id, old).kind = "delete"
                  /\ Deletion(id, old).before = old.status
                  /\ Deletion(id, old).after = "deleted"
  BY DEF Insertion, Update, Deletion

\* What the gate's write is, if there is one.
LEMMA GateWriteOf ==
  ASSUME NEW q, NEW target
  PROVE  /\ ~MovesGate(q.gate, target) => GateWrite(q, target) = <<>>
         /\ MovesGate(q.gate, target) =>
              GateWrite(q, target) =
                <<Update(q.dir.gate, q.gate.version, q.gate,
                         [q.gate EXCEPT !.status = target])>>
  BY DEF GateWrite

\* Most requests write one row.
LEMMA SingleWrites ==
  ASSUME NEW q
  PROVE  /\ q.op = "CreateReservoir" => Writes(q) = <<Insertion(q.id, NewReservoir(q))>>
         /\ q.op = "CreateGate" => Writes(q) = <<Insertion(q.id, NewGate(q))>>
         /\ q.op = "CreateDirective" => Writes(q) = <<Insertion(q.id, NewDirective(q))>>
         /\ q.op = "CreateConfirmation" =>
              Writes(q) = <<Insertion(q.id, NewConfirmation(q))>>
         /\ q.op = "UpdateReservoir" =>
              Writes(q) = <<Update(q.id, q.exp, q.res,
                                   [q.res EXCEPT !.facility = q.plan.facility])>>
         /\ q.op = "UpdateGate" =>
              Writes(q) = <<Update(q.id, q.exp, q.gate,
                                   [q.gate EXCEPT !.facility = q.plan.facility])>>
         /\ q.op = "UpdateDirective" =>
              Writes(q) = <<Update(q.id, q.exp, q.dir,
                                   [q.dir EXCEPT !.facility = q.plan.facility,
                                                 !.gate = q.plan.link,
                                                 !.gateState = q.plan.gateState])>>
         /\ q.op = "UpdateConfirmation" =>
              Writes(q) = <<Update(q.id, q.exp, q.conf,
                                   [q.conf EXCEPT !.facility = q.plan.facility])>>
         /\ q.op = "TransitionReservoir" =>
              Writes(q) = <<Update(q.id, q.exp, q.res, [q.res EXCEPT !.status = q.to])>>
         /\ q.op = "TransitionGate" =>
              Writes(q) = <<Update(q.id, q.exp, q.gate, [q.gate EXCEPT !.status = q.to])>>
         /\ q.op = "TransitionConfirmation" /\ q.conf.status # "pending" =>
              Writes(q) = <<Update(q.id, q.exp, q.conf, [q.conf EXCEPT !.status = q.to])>>
         /\ q.op = "DeleteReservoir" => Writes(q) = <<Deletion(q.id, q.res)>>
         /\ q.op = "DeleteGate" => Writes(q) = <<Deletion(q.id, q.gate)>>
         /\ q.op = "DeleteDirective" => Writes(q) = <<Deletion(q.id, q.dir)>>
         /\ q.op = "DeleteConfirmation" => Writes(q) = <<Deletion(q.id, q.conf)>>
  BY DEF Writes

\* Some write the gate as well, and the outcome of a receipt a directive.
LEMMA GateWrites ==
  ASSUME NEW q
  PROVE  /\ q.op = "TransitionDirective" =>
              Writes(q) = <<Update(q.id, q.exp, q.dir, Transitioned(q))>>
                          \o GateWrite(q, GateTarget(q.dir, q.gate, q.to))
         /\ q.op = "TransitionConfirmation" /\ q.conf.status = "pending" =>
              Writes(q) = OutcomeWrites(q)
  BY DEF Writes

\* Rows written one table after the other.
Ordered(ws) ==
  /\ \E S : ws \in Seq(S)
  /\ Len(ws) \in 1..3
  /\ \A i \in 1..Len(ws) : ws[i].id \in EntityIds
  /\ \A i, j \in 1..Len(ws) : i < j => Rank(ws[i].id) < Rank(ws[j].id)

\* Such rows, element by element.
LEMMA OrderedIf ==
  ASSUME NEW S, NEW ws \in Seq(S), Len(ws) \in 1..3,
         \A i \in 1..Len(ws) : ws[i].id \in EntityIds,
         \A i, j \in 1..Len(ws) : i < j => Rank(ws[i].id) < Rank(ws[j].id)
  PROVE  Ordered(ws)
  BY DEF Ordered

\* One row,
LEMMA OrderedOne ==
  ASSUME NEW a, NEW ws, ws = <<a>>, a.id \in EntityIds
  PROVE  Ordered(ws)
  <1>1. ws \in Seq({a}) /\ Len(ws) = 1 /\ ws[1] = a
    OBVIOUS
  <1>2. \A i \in 1..Len(ws) : ws[i].id \in EntityIds
    BY <1>1
  <1>3. \A i, j \in 1..Len(ws) : i < j => Rank(ws[i].id) < Rank(ws[j].id)
    BY <1>1
  <1>4. Len(ws) \in 1..3
    BY <1>1
  <1> QED BY <1>1, <1>2, <1>3, <1>4, OrderedIf

\* two,
LEMMA OrderedTwo ==
  ASSUME NEW a, NEW b, NEW ws, ws = <<a, b>>,
         a.id \in EntityIds, b.id \in EntityIds, Rank(a.id) < Rank(b.id)
  PROVE  Ordered(ws)
  <1>1. ws \in Seq({a, b}) /\ Len(ws) = 2 /\ ws[1] = a /\ ws[2] = b
    OBVIOUS
  <1>2. \A i, j \in 1..2 : i < j => i = 1 /\ j = 2
    OBVIOUS
  <1>3. \A i \in 1..2 : i = 1 \/ i = 2
    OBVIOUS
  <1>4. \A i \in 1..Len(ws) : ws[i].id \in EntityIds
    BY <1>1, <1>3
  <1>5. \A i, j \in 1..Len(ws) : i < j => Rank(ws[i].id) < Rank(ws[j].id)
    BY <1>1, <1>2
  <1>6. Len(ws) \in 1..3
    BY <1>1
  <1> QED BY <1>1, <1>4, <1>5, <1>6, OrderedIf

\* or three of them.
LEMMA OrderedThree ==
  ASSUME NEW a, NEW b, NEW c, NEW ws, ws = <<a, b, c>>,
         a.id \in EntityIds, b.id \in EntityIds, c.id \in EntityIds,
         Rank(a.id) = 1, Rank(b.id) = 2, Rank(c.id) = 3
  PROVE  Ordered(ws)
  <1>1. ws \in Seq({a, b, c}) /\ Len(ws) = 3 /\ ws[1] = a /\ ws[2] = b /\ ws[3] = c
    OBVIOUS
  <1>2. \A i \in 1..3 : i = 1 \/ i = 2 \/ i = 3
    OBVIOUS
  <1>3. \A i \in 1..Len(ws) : ws[i].id \in EntityIds /\ Rank(ws[i].id) = i
    BY <1>1, <1>2
  <1>4. \A i, j \in 1..Len(ws) : i < j => Rank(ws[i].id) < Rank(ws[j].id)
    BY <1>3
  <1>5. Len(ws) \in 1..3
    BY <1>1
  <1> QED BY <1>1, <1>3, <1>4, <1>5, OrderedIf

\* Tuples put together.
LEMMA Joined ==
  ASSUME NEW a, NEW b, NEW c
  PROVE  /\ <<a>> \o <<>> = <<a>> /\ <<a>> \o <<b>> = <<a, b>>
         /\ <<a, b>> \o <<>> = <<a, b>> /\ <<a, b>> \o <<c>> = <<a, b, c>>
  <1>1. <<a>> \o <<>> = <<a>>
    OBVIOUS
  <1>2. <<a>> \o <<b>> = <<a, b>>
    <2>1. PICK s : s = <<a>> \o <<b>>
      OBVIOUS
    <2>2. <<a>> \in Seq({a, b}) /\ <<b>> \in Seq({a, b})
      OBVIOUS
    <2>3. s \in Seq({a, b}) /\ Len(s) = 2
      BY <2>1, <2>2
    <2>4. s[1] = a /\ s[2] = b
      BY <2>1, <2>2
    <2>5. PICK t : t = <<a, b>>
      OBVIOUS
    <2>6. t \in Seq({a, b}) /\ Len(t) = 2 /\ t[1] = a /\ t[2] = b
      BY <2>5
    <2>7. \A i \in 1..2 : i = 1 \/ i = 2
      OBVIOUS
    <2>8. \A i \in 1..2 : s[i] = t[i]
      BY <2>4, <2>6, <2>7
    <2>9. s = t
      BY <2>3, <2>6, <2>8
    <2> QED BY <2>1, <2>5, <2>9
  <1>3. <<a, b>> \o <<>> = <<a, b>>
    OBVIOUS
  <1>4. <<a, b>> \o <<c>> = <<a, b, c>>
    <2>1. PICK s : s = <<a, b>> \o <<c>>
      OBVIOUS
    <2>2. <<a, b>> \in Seq({a, b, c}) /\ <<c>> \in Seq({a, b, c})
      OBVIOUS
    <2>3. s \in Seq({a, b, c}) /\ Len(s) = 3
      BY <2>1, <2>2
    <2>4. s[1] = a /\ s[2] = b /\ s[3] = c
      BY <2>1, <2>2
    <2>5. PICK t : t = <<a, b, c>>
      OBVIOUS
    <2>6. t \in Seq({a, b, c}) /\ Len(t) = 3 /\ t[1] = a /\ t[2] = b /\ t[3] = c
      BY <2>5
    <2>7. \A i \in 1..3 : i = 1 \/ i = 2 \/ i = 3
      OBVIOUS
    <2>8. \A i \in 1..3 : s[i] = t[i]
      BY <2>4, <2>6, <2>7
    <2>9. s = t
      BY <2>3, <2>6, <2>8
    <2> QED BY <2>1, <2>5, <2>9
  <1> QED BY <1>1, <1>2, <1>3, <1>4

\* The rows of a directive's transition.
LEMMA TransitionWrites ==
  ASSUME NEW q \in Request, Valid(q), q.op = "TransitionDirective",
         NEW target, target = GateTarget(q.dir, q.gate, q.to),
         NEW first, first = Update(q.id, q.exp, q.dir, Transitioned(q)),
         NEW last, last = Update(q.dir.gate, q.gate.version, q.gate,
                                 [q.gate EXCEPT !.status = target])
  PROVE  /\ ~MovesGate(q.gate, target) => Writes(q) = <<first>>
         /\ MovesGate(q.gate, target) => Writes(q) = <<first, last>>
         /\ q.id \in DirectiveIds /\ q.dir \in PresentDirective /\ q.dir.gate \in GateIds
  <1>1. q.id \in DirectiveIds /\ q.dir.live
    BY DEF Valid, DirectiveValid
  <1>2. q.dir \in PresentDirective
    BY <1>1, LiveRows DEF Request
  <1>3. q.dir.gate \in GateIds
    BY <1>2 DEF PresentDirective
  <1>4. Writes(q) = <<first>> \o GateWrite(q, target)
    BY GateWrites
  <1>5. GateWrite(q, target) = IF MovesGate(q.gate, target) THEN <<last>> ELSE <<>>
    BY DEF GateWrite
  <1>6. CASE MovesGate(q.gate, target)
    BY <1>1, <1>2, <1>3, <1>4, <1>5, <1>6, Joined
  <1>7. CASE ~MovesGate(q.gate, target)
    BY <1>1, <1>2, <1>3, <1>4, <1>5, <1>7, Joined
  <1> QED BY <1>6, <1>7

\* The rows of a receipt's outcome.
LEMMA OutcomeWritesOf ==
  ASSUME NEW q \in Request, Valid(q), q.op = "TransitionConfirmation",
         q.conf.status = "pending", NEW target, target = GateOutcome(q.dir, q.to),
         NEW first, first = Update(q.id, q.exp, q.conf, [q.conf EXCEPT !.status = q.to]),
         NEW second, second = Update(q.conf.directive, q.dir.version, q.dir,
                                     [q.dir EXCEPT !.status = DirectiveOutcome(q.to)]),
         NEW last, last = Update(q.dir.gate, q.gate.version, q.gate,
                                 [q.gate EXCEPT !.status = target])
  PROVE  /\ ~MovesGate(q.gate, target) => Writes(q) = <<first, second>>
         /\ MovesGate(q.gate, target) => Writes(q) = <<first, second, last>>
         /\ q.id \in ConfirmationIds /\ q.conf \in PresentConfirmation
         /\ q.dir \in PresentDirective
         /\ q.conf.directive \in DirectiveIds /\ q.dir.gate \in GateIds
  <1>1. q.id \in ConfirmationIds /\ q.dir.live /\ q.conf.live
    BY DEF Valid, ConfirmationValid
  <1>2. q.dir \in PresentDirective /\ q.conf \in PresentConfirmation
    BY <1>1, LiveRows DEF Request
  <1>3. q.dir.gate \in GateIds /\ q.conf.directive \in DirectiveIds
    BY <1>2 DEF PresentDirective, PresentConfirmation
  <1>4. Writes(q) = <<first, second>> \o GateWrite(q, target)
    BY GateWrites DEF OutcomeWrites
  <1>5. GateWrite(q, target) = IF MovesGate(q.gate, target) THEN <<last>> ELSE <<>>
    BY DEF GateWrite
  <1>6. CASE MovesGate(q.gate, target)
    <2>1. <<first, second>> \o <<last>> = <<first, second, last>>
      BY Joined
    <2> QED BY <1>1, <1>2, <1>3, <1>4, <1>5, <1>6, <2>1
  <1>7. CASE ~MovesGate(q.gate, target)
    BY <1>1, <1>2, <1>3, <1>4, <1>5, <1>7, Joined
  <1> QED BY <1>6, <1>7

\* The statements there are.
Kinds == {"insert", "update", "delete"}

\* A request that writes only its own row.
SingleWrite(q) ==
  \/ q.op \in {"CreateReservoir", "UpdateReservoir", "TransitionReservoir",
               "DeleteReservoir", "CreateGate", "UpdateGate", "TransitionGate",
               "DeleteGate", "CreateDirective", "UpdateDirective", "DeleteDirective",
               "CreateConfirmation", "UpdateConfirmation", "DeleteConfirmation"}
  \/ q.op = "TransitionConfirmation" /\ q.conf.status # "pending"

\* Its own row.
LEMMA SingleWriteShape ==
  ASSUME NEW q \in Request, Valid(q), SingleWrite(q)
  PROVE  q.id \in EntityIds /\ \E w : Writes(q) = <<w>> /\ w.id = q.id /\ w.kind \in Kinds
  <1>1. q.id \in EntityIds
    BY DEF SingleWrite, Valid, ReservoirValid, GateValid, DirectiveValid,
           ConfirmationValid, EntityIds
  <1>2. CASE q.op \in {"CreateReservoir", "CreateGate", "CreateDirective",
                       "CreateConfirmation"}
    <2>1. \E row : Writes(q) = <<Insertion(q.id, row)>>
      BY <1>2, SingleWrites
    <2> QED BY <1>1, <2>1, WriteParts DEF Kinds
  <1>3. CASE q.op \in {"DeleteReservoir", "DeleteGate", "DeleteDirective",
                       "DeleteConfirmation"}
    <2>1. \E row : Writes(q) = <<Deletion(q.id, row)>>
      BY <1>3, SingleWrites
    <2> QED BY <1>1, <2>1, WriteParts DEF Kinds
  <1>4. CASE \/ q.op \in {"UpdateReservoir", "UpdateGate", "UpdateDirective",
                          "UpdateConfirmation", "TransitionReservoir", "TransitionGate"}
             \/ q.op = "TransitionConfirmation" /\ q.conf.status # "pending"
    <2>1. ASSUME NEW old, NEW row, Writes(q) = <<Update(q.id, q.exp, old, row)>>
          PROVE  \E w : Writes(q) = <<w>> /\ w.id = q.id /\ w.kind \in Kinds
      BY <2>1, WriteParts DEF Kinds
    <2>2. CASE q.op = "UpdateReservoir"
      <3>1. PICK row : row = [q.res EXCEPT !.facility = q.plan.facility]
        OBVIOUS
      <3>2. Writes(q) = <<Update(q.id, q.exp, q.res, row)>>
        BY <2>2, <3>1, SingleWrites
      <3> QED BY <1>1, <2>1, <3>2
    <2>3. CASE q.op = "UpdateGate"
      <3>1. PICK row : row = [q.gate EXCEPT !.facility = q.plan.facility]
        OBVIOUS
      <3>2. Writes(q) = <<Update(q.id, q.exp, q.gate, row)>>
        BY <2>3, <3>1, SingleWrites
      <3> QED BY <1>1, <2>1, <3>2
    <2>4. CASE q.op = "UpdateDirective"
      <3>1. PICK row : row = [q.dir EXCEPT !.facility = q.plan.facility, !.gate = q.plan.link,
                                       !.gateState = q.plan.gateState]
        OBVIOUS
      <3>2. Writes(q) = <<Update(q.id, q.exp, q.dir, row)>>
        BY <2>4, <3>1, SingleWrites
      <3> QED BY <1>1, <2>1, <3>2
    <2>5. CASE q.op = "UpdateConfirmation"
      <3>1. PICK row : row = [q.conf EXCEPT !.facility = q.plan.facility]
        OBVIOUS
      <3>2. Writes(q) = <<Update(q.id, q.exp, q.conf, row)>>
        BY <2>5, <3>1, SingleWrites
      <3> QED BY <1>1, <2>1, <3>2
    <2>6. CASE q.op = "TransitionReservoir"
      <3>1. PICK row : row = [q.res EXCEPT !.status = q.to]
        OBVIOUS
      <3>2. Writes(q) = <<Update(q.id, q.exp, q.res, row)>>
        BY <2>6, <3>1, SingleWrites
      <3> QED BY <1>1, <2>1, <3>2
    <2>7. CASE q.op = "TransitionGate"
      <3>1. PICK row : row = [q.gate EXCEPT !.status = q.to]
        OBVIOUS
      <3>2. Writes(q) = <<Update(q.id, q.exp, q.gate, row)>>
        BY <2>7, <3>1, SingleWrites
      <3> QED BY <1>1, <2>1, <3>2
    <2>8. CASE q.op = "TransitionConfirmation" /\ q.conf.status # "pending"
      <3>1. PICK row : row = [q.conf EXCEPT !.status = q.to]
        OBVIOUS
      <3>2. Writes(q) = <<Update(q.id, q.exp, q.conf, row)>>
        BY <2>8, <3>1, SingleWrites
      <3> QED BY <1>1, <2>1, <3>2
    <2> QED BY <1>4, <2>2, <2>3, <2>4, <2>5, <2>6, <2>7, <2>8
  <1> QED BY <1>2, <1>3, <1>4 DEF SingleWrite

\* A request writes its own row first, then those below it.
LEMMA WritesShape ==
  ASSUME NEW q \in Request, Valid(q), q.op # "idle"
  PROVE  /\ Ordered(Writes(q)) /\ Writes(q)[1].id = q.id
         /\ \A i \in 1..Len(Writes(q)) : Writes(q)[i].kind \in Kinds
  <1>1. q.op \in AllOperations
    BY DEF Request
  <1>2. PICK ws : ws = Writes(q)
    OBVIOUS
  <1>3. CASE SingleWrite(q)
    <2>1. PICK w : ws = <<w>> /\ w.id = q.id /\ q.id \in EntityIds /\ w.kind \in Kinds
      BY <1>2, <1>3, SingleWriteShape
    <2>2. Ordered(ws)
      BY <2>1, OrderedOne
    <2> QED BY <1>2, <2>1, <2>2
  <1>4. CASE q.op = "TransitionDirective"
    <2>1. PICK target : target = GateTarget(q.dir, q.gate, q.to)
      OBVIOUS
    <2>2. PICK a : a = Update(q.id, q.exp, q.dir, Transitioned(q))
      OBVIOUS
    <2>3. PICK b : b = Update(q.dir.gate, q.gate.version, q.gate,
                              [q.gate EXCEPT !.status = target])
      OBVIOUS
    <2>4. /\ ws = <<a>> \/ ws = <<a, b>>
          /\ q.id \in DirectiveIds /\ q.dir.gate \in GateIds
      BY <1>2, <1>4, <2>1, <2>2, <2>3, TransitionWrites
    <2>5. /\ a.id = q.id /\ b.id = q.dir.gate
          /\ a.kind \in Kinds /\ b.kind \in Kinds
      BY <2>2, <2>3, WriteParts DEF Kinds
    <2>6. Rank(a.id) = 2 /\ Rank(b.id) = 3
      BY <2>4, <2>5, Ranks
    <2>7. a.id \in EntityIds /\ b.id \in EntityIds
      BY <2>4, <2>5 DEF EntityIds
    <2>8. Rank(a.id) < Rank(b.id)
      BY <2>6
    <2>9. Ordered(ws)
      BY <2>4, <2>7, <2>8, OrderedOne, OrderedTwo
    <2>10. ws[1] = a /\ \A i \in 1..Len(ws) : ws[i] \in {a, b}
      BY <2>4
    <2> QED BY <1>2, <2>5, <2>9, <2>10
  <1>5. CASE q.op = "TransitionConfirmation" /\ q.conf.status = "pending"
    <2>1. PICK target : target = GateOutcome(q.dir, q.to)
      OBVIOUS
    <2>2. PICK a : a = Update(q.id, q.exp, q.conf, [q.conf EXCEPT !.status = q.to])
      OBVIOUS
    <2>3. PICK b : b = Update(q.conf.directive, q.dir.version, q.dir,
                              [q.dir EXCEPT !.status = DirectiveOutcome(q.to)])
      OBVIOUS
    <2>4. PICK c : c = Update(q.dir.gate, q.gate.version, q.gate,
                              [q.gate EXCEPT !.status = target])
      OBVIOUS
    <2>5. /\ ws = <<a, b>> \/ ws = <<a, b, c>>
          /\ q.id \in ConfirmationIds /\ q.conf.directive \in DirectiveIds
          /\ q.dir.gate \in GateIds
      BY <1>2, <1>5, <2>1, <2>2, <2>3, <2>4, OutcomeWritesOf
    <2>6. /\ a.id = q.id /\ b.id = q.conf.directive /\ c.id = q.dir.gate
          /\ a.kind \in Kinds /\ b.kind \in Kinds /\ c.kind \in Kinds
      BY <2>2, <2>3, <2>4, WriteParts DEF Kinds
    <2>7. Rank(a.id) = 1 /\ Rank(b.id) = 2 /\ Rank(c.id) = 3
      BY <2>5, <2>6, Ranks
    <2>8. a.id \in EntityIds /\ b.id \in EntityIds /\ c.id \in EntityIds
      BY <2>5, <2>6 DEF EntityIds
    <2>9. Rank(a.id) < Rank(b.id)
      BY <2>7
    <2>10. Ordered(ws)
      BY <2>5, <2>7, <2>8, <2>9, OrderedTwo, OrderedThree
    <2>11. ws[1] = a /\ \A i \in 1..Len(ws) : ws[i] \in {a, b, c}
      BY <2>5
    <2> QED BY <1>2, <2>6, <2>10, <2>11
  <1> QED BY <1>1, <1>3, <1>4, <1>5 DEF AllOperations, SingleWrite

-----------------------------------------------------------------------------
(* How far the transactions are. *)

\* The request's transaction has made the first k of its writes.
Going(r) ==
  IF req[r].op = "idle" THEN made[r] = <<>> /\ todo[r] = <<>>
  ELSE \E k \in 0..Len(Writes(req[r])) :
         made[r] = Done(Writes(req[r]), k) /\ todo[r] = Left(Writes(req[r]), k)

\* So have all.
Progress ==
  /\ DOMAIN made = Requests /\ DOMAIN todo = Requests
  /\ \A r \in Requests : Going(r)

\* One transaction moves.
LEMMA OthersGoing ==
  ASSUME Progress, NEW r \in Requests,
         DOMAIN made' = Requests, DOMAIN todo' = Requests,
         \A s \in Requests \ {r} : /\ made'[s] = made[s] /\ todo'[s] = todo[s]
                                   /\ req'[s] = req[s],
         Going(r)'
  PROVE  Progress'
  <1>1. ASSUME NEW s \in Requests \ {r} PROVE Going(s)'
    <2>1. made'[s] = made[s] /\ todo'[s] = todo[s] /\ req'[s] = req[s]
      OBVIOUS
    <2>2. Going(s)
      BY DEF Progress
    <2> QED BY <2>1, <2>2 DEF Going
  <1> QED BY <1>1 DEF Progress

\* What a request has written and what it writes next.
LEMMA GoingParts ==
  ASSUME Sound, Progress, NEW r \in Requests, req[r].op # "idle"
  PROVE  \E k \in 0..Len(Writes(req[r])) :
           /\ made[r] = Done(Writes(req[r]), k) /\ todo[r] = Left(Writes(req[r]), k)
           /\ DOMAIN made[r] = 1..k /\ \A i \in 1..k : made[r][i] = Writes(req[r])[i]
           /\ todo[r] # <<>> => /\ k + 1 \in 1..Len(Writes(req[r]))
                                /\ Head(todo[r]) = Writes(req[r])[k + 1]
           /\ todo[r] = <<>> => k = Len(Writes(req[r])) /\ made[r] = Writes(req[r])
  <1>1. PICK ws : ws = Writes(req[r])
    OBVIOUS
  <1>2. PICK k \in 0..Len(ws) : made[r] = Done(ws, k) /\ todo[r] = Left(ws, k)
    BY <1>1 DEF Progress, Going
  <1>3. Ordered(ws)
    BY <1>1, InFlightSound, WritesShape DEF Sound
  <1>4. PICK S : ws \in Seq(S)
    BY <1>3 DEF Ordered
  <1>5. DOMAIN made[r] = 1..k /\ \A i \in 1..k : made[r][i] = ws[i]
    BY <1>2 DEF Done
  <1>6. ASSUME todo[r] # <<>> PROVE k + 1 \in 1..Len(ws) /\ Head(todo[r]) = ws[k + 1]
    BY <1>2, <1>4, <1>6, MoveOn
  <1>7. ASSUME todo[r] = <<>> PROVE k = Len(ws) /\ made[r] = ws
    BY <1>2, <1>4, <1>7, Ends
  <1> QED BY <1>1, <1>2, <1>5, <1>6, <1>7

\* A request that has ended.
LEMMA EndGoing ==
  ASSUME Sound, Progress, NEW r \in Requests, Finish(r), End(r)
  PROVE  Progress'
  <1>1. DOMAIN made = Requests /\ DOMAIN todo = Requests /\ DOMAIN req = Requests
    BY DEF Progress, Sound, Typed, TypeOK
  <1>2. req'[r] = Idle /\ made'[r] = <<>> /\ todo'[r] = <<>>
    BY <1>1 DEF Finish, End
  <1>3. Going(r)'
    BY <1>2 DEF Going, Idle
  <1>4. DOMAIN made' = Requests /\ DOMAIN todo' = Requests
    BY <1>1 DEF End
  <1>5. \A s \in Requests \ {r} : /\ made'[s] = made[s] /\ todo'[s] = todo[s]
                                  /\ req'[s] = req[s]
    BY <1>1 DEF Finish, End
  <1> QED BY <1>3, <1>4, <1>5, OthersGoing

\* A statement that succeeds.
LEMMA ExecuteGoing ==
  ASSUME Sound, Progress, NEW r \in Requests, Execute(r)
  PROVE  Progress'
  <1>1. DOMAIN made = Requests /\ DOMAIN todo = Requests
    BY DEF Progress
  <1>2. /\ todo[r] # <<>> /\ req' = req
        /\ todo' = [todo EXCEPT ![r] = Tail(todo[r])]
        /\ made' = [made EXCEPT ![r] = Append(made[r], Head(todo[r]))]
    BY DEF Execute, vars
  <1>3. req[r].op # "idle"
    BY <1>2 DEF Progress, Going
  <1>4. PICK ws : ws = Writes(req[r])
    OBVIOUS
  <1>5. PICK k \in 0..Len(ws) : made[r] = Done(ws, k) /\ todo[r] = Left(ws, k)
    BY <1>3, <1>4 DEF Progress, Going
  <1>6. Ordered(ws)
    BY <1>3, <1>4, InFlightSound, WritesShape DEF Sound
  <1>7. PICK S : ws \in Seq(S)
    BY <1>6 DEF Ordered
  <1>8. /\ k + 1 \in 1..Len(ws)
        /\ Tail(todo[r]) = Left(ws, k + 1)
        /\ Append(made[r], Head(todo[r])) = Done(ws, k + 1)
    BY <1>2, <1>5, <1>7, MoveOn
  <1>9. made'[r] = Done(ws, k + 1) /\ todo'[r] = Left(ws, k + 1)
    BY <1>1, <1>2, <1>8
  <1>10. k + 1 \in 0..Len(ws)
    BY <1>8
  <1>11. Going(r)'
    BY <1>2, <1>4, <1>9, <1>10, <1>3 DEF Going
  <1>12. DOMAIN made' = Requests /\ DOMAIN todo' = Requests
    BY <1>1, <1>2
  <1>13. \A s \in Requests \ {r} : /\ made'[s] = made[s] /\ todo'[s] = todo[s]
                                   /\ req'[s] = req[s]
    BY <1>1, <1>2
  <1> QED BY <1>11, <1>12, <1>13, OthersGoing

\* A request that reads begins an operation.
LEMMA ReadBegins ==
  ASSUME NEW r \in Requests, Read(r)
  PROVE  \E G : Begin(r, G) /\ G.op # "idle"
  <1>1. req[r].op = "idle"
    BY DEF Read, InTransaction
  <1>2. ASSUME NEW F, Begin(r, F), F.op # "idle"
        PROVE  \E G : Begin(r, G) /\ G.op # "idle"
    BY <1>2
  <1>3. CASE ReservoirNext(r)
    <2>1. ASSUME NEW id, NEW f, BeginCreateReservoir(r, id, f)
          PROVE  \E G : Begin(r, G) /\ G.op # "idle"
      BY <1>2, <2>1 DEF BeginCreateReservoir, Idle
    <2>2. ASSUME NEW id, NEW f, NEW e, BeginUpdateReservoir(r, id, f, e)
          PROVE  \E G : Begin(r, G) /\ G.op # "idle"
      BY <1>2, <2>2 DEF BeginUpdateReservoir, Idle
    <2>3. ASSUME NEW id, NEW to, NEW e, BeginTransitionReservoir(r, id, to, e)
          PROVE  \E G : Begin(r, G) /\ G.op # "idle"
      BY <1>2, <2>3 DEF BeginTransitionReservoir, Idle
    <2>4. ASSUME NEW id, BeginDeleteReservoir(r, id)
          PROVE  \E G : Begin(r, G) /\ G.op # "idle"
      BY <1>2, <2>4 DEF BeginDeleteReservoir, Idle
    <2> QED BY <1>1, <1>3, <2>1, <2>2, <2>3, <2>4
      DEF ReservoirNext, CommitCreateReservoir, CommitUpdateReservoir,
          CommitTransitionReservoir, CommitDeleteReservoir, InFlight
  <1>4. CASE GateNext(r)
    <2>1. ASSUME NEW id, NEW res, NEW f, BeginCreateGate(r, id, res, f)
          PROVE  \E G : Begin(r, G) /\ G.op # "idle"
      BY <1>2, <2>1 DEF BeginCreateGate, Idle
    <2>2. ASSUME NEW id, NEW f, NEW e, BeginUpdateGate(r, id, f, e)
          PROVE  \E G : Begin(r, G) /\ G.op # "idle"
      BY <1>2, <2>2 DEF BeginUpdateGate, Idle
    <2>3. ASSUME NEW id, NEW to, NEW e, BeginTransitionGate(r, id, to, e)
          PROVE  \E G : Begin(r, G) /\ G.op # "idle"
      BY <1>2, <2>3 DEF BeginTransitionGate, Idle
    <2>4. ASSUME NEW id, BeginDeleteGate(r, id)
          PROVE  \E G : Begin(r, G) /\ G.op # "idle"
      BY <1>2, <2>4 DEF BeginDeleteGate, Idle
    <2> QED BY <1>1, <1>4, <2>1, <2>2, <2>3, <2>4
      DEF GateNext, CommitCreateGate, CommitUpdateGate, CommitTransitionGate,
          CommitDeleteGate, InFlight
  <1>5. CASE DirectiveNext(r)
    <2>1. ASSUME NEW id, NEW g, NEW f, NEW s, BeginCreateDirective(r, id, g, f, s)
          PROVE  \E G : Begin(r, G) /\ G.op # "idle"
      BY <1>2, <2>1 DEF BeginCreateDirective, Idle
    <2>2. ASSUME NEW id, NEW g, NEW f, NEW s, NEW e, BeginUpdateDirective(r, id, g, f, s, e)
          PROVE  \E G : Begin(r, G) /\ G.op # "idle"
      BY <1>2, <2>2 DEF BeginUpdateDirective, Idle
    <2>3. ASSUME NEW id, NEW to, NEW a, NEW role, NEW e,
                 BeginTransitionDirective(r, id, to, a, role, e)
          PROVE  \E G : Begin(r, G) /\ G.op # "idle"
      BY <1>2, <2>3 DEF BeginTransitionDirective, Idle
    <2>4. ASSUME NEW id, BeginDeleteDirective(r, id)
          PROVE  \E G : Begin(r, G) /\ G.op # "idle"
      BY <1>2, <2>4 DEF BeginDeleteDirective, Idle
    <2> QED BY <1>1, <1>5, <2>1, <2>2, <2>3, <2>4
      DEF DirectiveNext, CommitCreateDirective, CommitUpdateDirective,
          CommitTransitionDirective, CommitDeleteDirective, InFlight
  <1>6. CASE ConfirmationNext(r)
    <2>1. ASSUME NEW id, NEW d, BeginCreateConfirmation(r, id, d)
          PROVE  \E G : Begin(r, G) /\ G.op # "idle"
      BY <1>2, <2>1 DEF BeginCreateConfirmation, Idle
    <2>2. ASSUME NEW id, NEW e, BeginUpdateConfirmation(r, id, e)
          PROVE  \E G : Begin(r, G) /\ G.op # "idle"
      BY <1>2, <2>2 DEF BeginUpdateConfirmation, Idle
    <2>3. ASSUME NEW id, NEW to, NEW e, BeginOutcome(r, id, to, e)
          PROVE  \E G : Begin(r, G) /\ G.op # "idle"
      BY <1>2, <2>3 DEF BeginOutcome, Idle
    <2>4. ASSUME NEW id, NEW to, NEW e, BeginCancel(r, id, to, e)
          PROVE  \E G : Begin(r, G) /\ G.op # "idle"
      BY <1>2, <2>4 DEF BeginCancel, Idle
    <2>5. ASSUME NEW id, BeginDeleteConfirmation(r, id)
          PROVE  \E G : Begin(r, G) /\ G.op # "idle"
      BY <1>2, <2>5 DEF BeginDeleteConfirmation, Idle
    <2> QED BY <1>1, <1>6, <2>1, <2>2, <2>3, <2>4, <2>5
      DEF ConfirmationNext, CommitCreateConfirmation, CommitUpdateConfirmation,
          CommitOutcome, CommitCancel, CommitDeleteConfirmation, InFlight
  <1> QED BY <1>3, <1>4, <1>5, <1>6 DEF Read

\* A request that has read and checked.
LEMMA ReadGoing ==
  ASSUME Sound, Sound', Progress, NEW r \in Requests, Read(r)
  PROVE  Progress' /\ made[r] = <<>>
  <1>1. DOMAIN made = Requests /\ DOMAIN todo = Requests /\ DOMAIN req = Requests
    BY DEF Progress, Sound, Typed, TypeOK
  <1>2. PICK F : Begin(r, F) /\ F.op # "idle"
    BY ReadBegins
  <1>3. req' = [req EXCEPT ![r] = F] /\ req'[r] = F
    BY <1>1, <1>2 DEF Begin
  <1>4. made' = made /\ todo' = [todo EXCEPT ![r] = Writes(F)]
    BY <1>3 DEF Read
  <1>5. made[r] = <<>>
    BY DEF Read, InTransaction, Progress, Going
  <1>6. F \in Request /\ Valid(F)
    BY <1>3 DEF Sound, Typed, TypeOK, RequestsValid, Valid, ReservoirValid, GateValid,
                DirectiveValid, ConfirmationValid
  <1>7. PICK ws : ws = Writes(F)
    OBVIOUS
  <1>8. PICK S : ws \in Seq(S)
    BY <1>2, <1>6, <1>7, WritesShape DEF Ordered
  <1>9. made'[r] = Done(ws, 0) /\ todo'[r] = Left(ws, 0) /\ 0 \in 0..Len(ws)
    BY <1>1, <1>4, <1>5, <1>7, <1>8, Ends
  <1>10. Going(r)'
    BY <1>2, <1>3, <1>7, <1>9 DEF Going
  <1>11. DOMAIN made' = Requests /\ DOMAIN todo' = Requests
    BY <1>1, <1>4
  <1>12. \A s \in Requests \ {r} : /\ made'[s] = made[s] /\ todo'[s] = todo[s]
                                   /\ req'[s] = req[s]
    BY <1>1, <1>3, <1>4
  <1> QED BY <1>5, <1>10, <1>11, <1>12, OthersGoing

\* The process stops.
LEMMA StopGoing ==
  ASSUME Stop
  PROVE  Progress'
  BY DEF Stop, Crash, Progress, Going, Idle

-----------------------------------------------------------------------------
(* No circles. *)

\* The last table a transaction has written to.
Level(r) ==
  IF made[r] = <<>> THEN 0 ELSE Rank(made[r][Len(made[r])].id)

\* Rows written one table after the other, read as a rule.
LEMMA OrderedRanks ==
  ASSUME NEW ws, Ordered(ws)
  PROVE  /\ Len(ws) \in 1..3
         /\ \A i \in 1..Len(ws) : ws[i].id \in EntityIds /\ Rank(ws[i].id) \in 1..4
         /\ \A i, j \in 1..Len(ws) : i < j => Rank(ws[i].id) < Rank(ws[j].id)
  <1>1. \A id \in EntityIds : Rank(id) \in 1..4
    BY Ranks DEF EntityIds
  <1> QED BY <1>1 DEF Ordered

\* A lock tells the table of its row.
LEMMA SharedLock ==
  ASSUME NEW v, NEW w, v.id \in EntityIds, w.id \in EntityIds, Locks(v) \cap Locks(w) # {}
  PROVE  Rank(v.id) = Rank(w.id)
  <1>1. PICK l : l \in Locks(v) /\ l \in Locks(w)
    OBVIOUS
  <1>2. \A u : l \in Locks(u) =>
                \/ l = <<"row", u.id>>
                \/ u.id \in ConfirmationIds /\ l = <<"receipt of", u.row.directive>>
    BY DEF Locks
  <1>3. \A x, y : <<"row", x>> # <<"receipt of", y>>
    OBVIOUS
  <1>4. CASE l = <<"row", v.id>>
    <2>1. l = <<"row", w.id>>
      BY <1>1, <1>2, <1>4, <1>3
    <2> QED BY <1>4, <2>1
  <1>5. CASE v.id \in ConfirmationIds /\ l = <<"receipt of", v.row.directive>>
    <2>1. w.id \in ConfirmationIds
      BY <1>1, <1>2, <1>5, <1>3
    <2> QED BY <1>5, <2>1, Ranks
  <1> QED BY <1>1, <1>2, <1>4, <1>5

\* A request that waits has not yet reached the table that the other one has
\* already written.
LEMMA WaitersAreBehind ==
  ASSUME Sound, Progress, NEW r \in Requests, NEW other \in Requests, WaitsFor(r, other)
  PROVE  Level(r) < Level(other)
  <1>1. /\ todo[r] # <<>> /\ made[other] # <<>>
        /\ Locks(Head(todo[r])) \cap LocksHeldBy(other) # {}
    BY DEF WaitsFor
  <1>2. req[r].op # "idle" /\ req[other].op # "idle"
    BY <1>1 DEF Progress, Going
  <1>3. PICK ws : ws = Writes(req[r])
    OBVIOUS
  <1>4. PICK vs : vs = Writes(req[other])
    OBVIOUS
  <1>5. Ordered(ws) /\ Ordered(vs)
    BY <1>2, <1>3, <1>4, InFlightSound, WritesShape DEF Sound
  <1>6. PICK k \in 0..Len(ws) :
          /\ made[r] = Done(ws, k) /\ DOMAIN made[r] = 1..k
          /\ \A i \in 1..k : made[r][i] = ws[i]
          /\ k + 1 \in 1..Len(ws) /\ Head(todo[r]) = ws[k + 1]
    BY <1>1, <1>2, <1>3, GoingParts
  <1>7. PICK m \in 0..Len(vs) :
          /\ made[other] = Done(vs, m) /\ DOMAIN made[other] = 1..m
          /\ \A i \in 1..m : made[other][i] = vs[i]
    BY <1>2, <1>4, GoingParts
  <1>8. /\ Len(ws) \in 1..3 /\ Len(vs) \in 1..3
        /\ \A i \in 1..Len(ws) : ws[i].id \in EntityIds /\ Rank(ws[i].id) \in 1..4
        /\ \A i \in 1..Len(vs) : vs[i].id \in EntityIds /\ Rank(vs[i].id) \in 1..4
        /\ \A i, j \in 1..Len(ws) : i < j => Rank(ws[i].id) < Rank(ws[j].id)
        /\ \A i, j \in 1..Len(vs) : i < j => Rank(vs[i].id) < Rank(vs[j].id)
    BY <1>5, OrderedRanks
  <1>9. PICK i \in 1..m : Locks(ws[k + 1]) \cap Locks(vs[i]) # {}
    BY <1>1, <1>6, <1>7 DEF LocksHeldBy
  <1>10. i \in 1..Len(vs) /\ m \in 1..Len(vs)
    BY <1>7, <1>8, <1>9
  <1>11. Rank(ws[k + 1].id) = Rank(vs[i].id)
    BY <1>6, <1>8, <1>9, <1>10, SharedLock
  <1>12. Rank(vs[i].id) <= Rank(vs[m].id)
    <2>1. CASE i = m
      BY <2>1, <1>8, <1>10
    <2>2. CASE i < m
      BY <2>2, <1>8, <1>10
    <2> QED BY <1>9, <1>10, <2>1, <2>2
  <1>13. Level(other) = Rank(vs[m].id)
    <2>1. Len(made[other]) = m
      BY <1>7, <1>10 DEF Done
    <2> QED BY <1>1, <1>7, <1>10, <2>1 DEF Level
  <1>14. Level(r) < Rank(ws[k + 1].id)
    <2>1. CASE made[r] = <<>>
      BY <2>1, <1>6, <1>8 DEF Level
    <2>2. CASE made[r] # <<>>
      <3>1. k # 0
        BY <2>2, <1>6 DEF Done
      <3>2. k \in 1..Len(ws) /\ k < k + 1
        BY <3>1, <1>6, <1>8
      <3>3. Len(made[r]) = k
        BY <1>6, <1>8 DEF Done
      <3>4. Level(r) = Rank(ws[k].id)
        BY <2>2, <1>6, <3>2, <3>3 DEF Level
      <3> QED BY <1>6, <1>8, <3>2, <3>4
    <2> QED BY <2>1, <2>2
  <1>15. Rank(vs[m].id) \in 1..4 /\ Rank(vs[i].id) \in 1..4
    BY <1>8, <1>10
  <1>16. Level(r) \in 0..4
    <2>1. made[r] # <<>> => Len(made[r]) = k /\ k \in 1..Len(ws)
      BY <1>6, <1>8 DEF Done
    <2> QED BY <2>1, <1>6, <1>8 DEF Level
  <1> QED BY <1>11, <1>12, <1>13, <1>14, <1>15, <1>16

\* Levels are few.
LEMMA LevelType ==
  ASSUME Sound, Progress, NEW r \in Requests
  PROVE  Level(r) \in 0..4
  <1>1. CASE made[r] = <<>>
    BY <1>1 DEF Level
  <1>2. CASE made[r] # <<>>
    <2>1. req[r].op # "idle"
      BY <1>2 DEF Progress, Going
    <2>2. PICK ws : ws = Writes(req[r])
      OBVIOUS
    <2>3. Ordered(ws)
      BY <2>1, <2>2, InFlightSound, WritesShape DEF Sound
    <2>4. PICK k \in 0..Len(ws) :
            made[r] = Done(ws, k) /\ \A i \in 1..k : made[r][i] = ws[i]
      BY <2>1, <2>2, GoingParts
    <2>5. Len(ws) \in 1..3 /\ \A i \in 1..Len(ws) : Rank(ws[i].id) \in 1..4
      BY <2>3, OrderedRanks
    <2>6. k \in 1..Len(ws) /\ Len(made[r]) = k
      BY <1>2, <2>4, <2>5 DEF Done
    <2>7. Level(r) = Rank(ws[k].id)
      BY <1>2, <2>4, <2>6 DEF Level
    <2> QED BY <2>5, <2>6, <2>7
  <1> QED BY <1>1, <1>2

\* So who is furthest waits for nobody.
LEMMA NoCircles ==
  ASSUME Sound, Progress
  PROVE  NeverWaitInCircles
  <1>1. ASSUME NEW S \in SUBSET Requests, S # {}
        PROVE  \E r \in S : \A other \in S : ~WaitsFor(r, other)
    <2>1. \A r \in S : Level(r) \in 0..4
      BY LevelType
    <2>2. PICK r \in S : \A other \in S : Level(other) <= Level(r)
      <3>1. CASE \E r \in S : Level(r) = 4
        BY <2>1, <3>1
      <3>2. CASE (\A r \in S : Level(r) # 4) /\ \E r \in S : Level(r) = 3
        BY <2>1, <3>2
      <3>3. CASE (\A r \in S : Level(r) \notin {3, 4}) /\ \E r \in S : Level(r) = 2
        BY <2>1, <3>3
      <3>4. CASE (\A r \in S : Level(r) \notin {2, 3, 4}) /\ \E r \in S : Level(r) = 1
        BY <2>1, <3>4
      <3>5. CASE \A r \in S : Level(r) \notin {1, 2, 3, 4}
        BY <1>1, <2>1, <3>5
      <3> QED BY <2>1, <3>1, <3>2, <3>3, <3>4, <3>5
    <2>3. ASSUME NEW other \in S, WaitsFor(r, other) PROVE FALSE
      <3>1. Level(r) < Level(other)
        BY <2>3, WaitersAreBehind
      <3> QED BY <2>1, <2>2, <3>1
    <2> QED BY <2>3
  <1>2. ASSUME NEW S \in (SUBSET Requests) \ {{}}
        PROVE  \E r \in S : \A other \in S : ~WaitsFor(r, other)
    <2>1. S \in SUBSET Requests /\ S # {}
      BY <1>2
    <2> QED BY <2>1, <1>1
  <1> QED BY <1>2 DEF NeverWaitInCircles

-----------------------------------------------------------------------------
(* What a commit does to the tables. *)

\* The row that write w leaves.
Written(old, w) == IF w.kind = "delete" THEN [old EXCEPT !.live = FALSE] ELSE w.row

\* A table with one row written.
LEMMA AppliedOne ==
  ASSUME NEW D, NEW R, NEW table \in [D -> R], NEW ws, NEW i \in DOMAIN ws,
         NEW w, w = ws[i], w.id \in D, \A j \in DOMAIN ws : j # i => ws[j].id \notin D,
         NEW new, new = [table EXCEPT ![w.id] = Written(table[w.id], w)]
  PROVE  Applied(table, ws) = new
  <1>1. ASSUME NEW id \in D
        PROVE  Applied(table, ws)[id]
                 = IF id = w.id THEN Written(table[id], w) ELSE table[id]
    <2>1. CASE id = w.id
      <3>1. \A j \in DOMAIN ws : ws[j].id = id <=> j = i
        BY <2>1
      <3>2. (CHOOSE j \in DOMAIN ws : ws[j].id = id) = i
        BY <3>1
      <3> QED BY <2>1, <3>1, <3>2 DEF Applied, Written
    <2>2. CASE id # w.id
      <3>1. \A j \in DOMAIN ws : ws[j].id # id
        BY <2>2
      <3> QED BY <2>2, <3>1 DEF Applied
    <2> QED BY <2>1, <2>2
  <1>2. Applied(table, ws) = [id \in D |-> Applied(table, ws)[id]]
    BY DEF Applied
  <1> QED BY <1>1, <1>2

\* A table with none.
LEMMA AppliedNone ==
  ASSUME NEW D, NEW R, NEW table \in [D -> R], NEW ws, \A j \in DOMAIN ws : ws[j].id \notin D
  PROVE  Applied(table, ws) = table
  <1>1. \A id \in D : \A j \in DOMAIN ws : ws[j].id # id
    OBVIOUS
  <1>2. Applied(table, ws) = [id \in D |-> table[id]]
    BY <1>1 DEF Applied
  <1> QED BY <1>2

\* The entry of one row of the commit, and no entry of the others.
LEMMA AuditedAt ==
  ASSUME NEW ws, NEW id \in EntityIds
  PROVE  /\ \A i \in DOMAIN ws :
              ws[i].id = id /\ (\A j \in DOMAIN ws : ws[j].id = id => j = i) =>
                AuditApplied(ws)[id]
                  = [n |-> audit[id].n + 1, before |-> ws[i].before, after |-> ws[i].after]
         /\ (\A j \in DOMAIN ws : ws[j].id # id) => AuditApplied(ws)[id] = audit[id]
  <1>1. ASSUME NEW i \in DOMAIN ws, ws[i].id = id, \A j \in DOMAIN ws : ws[j].id = id => j = i
        PROVE  AuditApplied(ws)[id]
                 = [n |-> audit[id].n + 1, before |-> ws[i].before, after |-> ws[i].after]
    <2>1. \A j \in DOMAIN ws : ws[j].id = id <=> j = i
      BY <1>1
    <2>2. (CHOOSE j \in DOMAIN ws : ws[j].id = id) = i
      BY <2>1
    <2> QED BY <1>1, <2>1, <2>2 DEF AuditApplied
  <1>2. ASSUME \A j \in DOMAIN ws : ws[j].id # id PROVE AuditApplied(ws)[id] = audit[id]
    BY <1>2 DEF AuditApplied
  <1> QED BY <1>1, <1>2

\* The entries of one row,
LEMMA AuditOne ==
  ASSUME Typed, NEW a, NEW ws, ws = <<a>>, a.id \in EntityIds
  PROVE  AuditApplied(ws) = Logged(audit, a.id, a.before, a.after)
  <1>1. DOMAIN ws = {1} /\ ws[1] = a
    OBVIOUS
  <1>2. audit \in [EntityIds -> AuditTrail]
    BY DEF Typed, TypeOK
  <1>3. \A id \in EntityIds : AuditApplied(ws)[id] = Logged(audit, a.id, a.before, a.after)[id]
    BY <1>1, <1>2, AuditedAt DEF Logged
  <1>4. AuditApplied(ws) = [id \in EntityIds |-> AuditApplied(ws)[id]]
    BY DEF AuditApplied
  <1>5. Logged(audit, a.id, a.before, a.after)
          = [id \in EntityIds |-> Logged(audit, a.id, a.before, a.after)[id]]
    BY <1>2 DEF Logged
  <1> QED BY <1>3, <1>4, <1>5

\* of two,
LEMMA AuditTwo ==
  ASSUME Typed, NEW a, NEW b, NEW ws, ws = <<a, b>>, a.id \in EntityIds, b.id \in EntityIds,
         a.id # b.id, NEW first, first = Logged(audit, a.id, a.before, a.after)
  PROVE  AuditApplied(ws) = Logged(first, b.id, b.before, b.after)
  <1>1. DOMAIN ws = {1, 2} /\ ws[1] = a /\ ws[2] = b
    OBVIOUS
  <1>2. audit \in [EntityIds -> AuditTrail]
    BY DEF Typed, TypeOK
  <1>3. PICK trail : trail = Logged(first, b.id, b.before, b.after)
    OBVIOUS
  <1>4. DOMAIN first = EntityIds /\ \A id \in EntityIds :
          first[id] = IF id = a.id
                      THEN [n |-> audit[id].n + 1, before |-> a.before, after |-> a.after]
                      ELSE audit[id]
    BY <1>2 DEF Logged
  <1>5. trail = [id \in EntityIds |-> trail[id]] /\ \A id \in EntityIds :
          trail[id] = IF id = b.id
                      THEN [n |-> first[id].n + 1, before |-> b.before, after |-> b.after]
                      ELSE first[id]
    BY <1>3, <1>4 DEF Logged
  <1>6. ASSUME NEW id \in EntityIds PROVE AuditApplied(ws)[id] = trail[id]
    <2>1. CASE id = a.id
      <3>1. 1 \in DOMAIN ws /\ ws[1].id = id
        BY <1>1, <2>1
      <3>2. \A j \in DOMAIN ws : ws[j].id = id => j = 1
        BY <1>1, <2>1
      <3>3. AuditApplied(ws)[id]
              = [n |-> audit[id].n + 1, before |-> a.before, after |-> a.after]
        BY <1>1, <3>1, <3>2, AuditedAt
      <3> QED BY <1>4, <1>5, <2>1, <3>3
    <2>2. CASE id = b.id
      <3>1. 2 \in DOMAIN ws /\ ws[2].id = id
        BY <1>1, <2>2
      <3>2. \A j \in DOMAIN ws : ws[j].id = id => j = 2
        BY <1>1, <2>2
      <3>3. AuditApplied(ws)[id]
              = [n |-> audit[id].n + 1, before |-> b.before, after |-> b.after]
        BY <1>1, <3>1, <3>2, AuditedAt
      <3> QED BY <1>4, <1>5, <2>2, <3>3
    <2>3. CASE id # a.id /\ id # b.id
      <3>1. \A j \in DOMAIN ws : ws[j].id # id
        BY <1>1, <2>3
      <3>2. AuditApplied(ws)[id] = audit[id]
        BY <3>1, AuditedAt
      <3> QED BY <1>4, <1>5, <2>3, <3>2
    <2> QED BY <2>1, <2>2, <2>3
  <1>7. AuditApplied(ws) = [id \in EntityIds |-> AuditApplied(ws)[id]]
    BY DEF AuditApplied
  <1> QED BY <1>3, <1>5, <1>6, <1>7

\* and of three.
LEMMA AuditThree ==
  ASSUME Typed, NEW a, NEW b, NEW c, NEW ws, ws = <<a, b, c>>,
         a.id \in EntityIds, b.id \in EntityIds, c.id \in EntityIds,
         a.id # b.id, a.id # c.id, b.id # c.id,
         NEW first, first = Logged(audit, a.id, a.before, a.after),
         NEW second, second = Logged(first, b.id, b.before, b.after)
  PROVE  AuditApplied(ws) = Logged(second, c.id, c.before, c.after)
  <1>1. DOMAIN ws = {1, 2, 3} /\ ws[1] = a /\ ws[2] = b /\ ws[3] = c
    OBVIOUS
  <1>2. audit \in [EntityIds -> AuditTrail]
    BY DEF Typed, TypeOK
  <1>3. PICK trail : trail = Logged(second, c.id, c.before, c.after)
    OBVIOUS
  <1>4. DOMAIN first = EntityIds /\ \A id \in EntityIds :
          first[id] = IF id = a.id
                      THEN [n |-> audit[id].n + 1, before |-> a.before, after |-> a.after]
                      ELSE audit[id]
    BY <1>2 DEF Logged
  <1>5. DOMAIN second = EntityIds /\ \A id \in EntityIds :
          second[id] = IF id = b.id
                       THEN [n |-> first[id].n + 1, before |-> b.before, after |-> b.after]
                       ELSE first[id]
    BY <1>4 DEF Logged
  <1>6. trail = [id \in EntityIds |-> trail[id]] /\ \A id \in EntityIds :
          trail[id] = IF id = c.id
                      THEN [n |-> second[id].n + 1, before |-> c.before, after |-> c.after]
                      ELSE second[id]
    BY <1>3, <1>5 DEF Logged
  <1>7. ASSUME NEW id \in EntityIds PROVE AuditApplied(ws)[id] = trail[id]
    <2>1. CASE id = a.id
      <3>1. 1 \in DOMAIN ws /\ ws[1].id = id
        BY <1>1, <2>1
      <3>2. \A j \in DOMAIN ws : ws[j].id = id => j = 1
        BY <1>1, <2>1
      <3>3. AuditApplied(ws)[id]
              = [n |-> audit[id].n + 1, before |-> a.before, after |-> a.after]
        BY <1>1, <3>1, <3>2, AuditedAt
      <3> QED BY <1>4, <1>5, <1>6, <2>1, <3>3
    <2>2. CASE id = b.id
      <3>1. 2 \in DOMAIN ws /\ ws[2].id = id
        BY <1>1, <2>2
      <3>2. \A j \in DOMAIN ws : ws[j].id = id => j = 2
        BY <1>1, <2>2
      <3>3. AuditApplied(ws)[id]
              = [n |-> audit[id].n + 1, before |-> b.before, after |-> b.after]
        BY <1>1, <3>1, <3>2, AuditedAt
      <3> QED BY <1>4, <1>5, <1>6, <2>2, <3>3
    <2>3. CASE id = c.id
      <3>1. 3 \in DOMAIN ws /\ ws[3].id = id
        BY <1>1, <2>3
      <3>2. \A j \in DOMAIN ws : ws[j].id = id => j = 3
        BY <1>1, <2>3
      <3>3. AuditApplied(ws)[id]
              = [n |-> audit[id].n + 1, before |-> c.before, after |-> c.after]
        BY <1>1, <3>1, <3>2, AuditedAt
      <3>4. second[id] = audit[id]
        BY <1>4, <1>5, <2>3
      <3>5. trail[id] = [n |-> second[id].n + 1, before |-> c.before, after |-> c.after]
        BY <1>6, <2>3
      <3> QED BY <3>3, <3>4, <3>5
    <2>4. CASE id # a.id /\ id # b.id /\ id # c.id
      <3>1. \A j \in DOMAIN ws : ws[j].id # id
        BY <1>1, <2>4
      <3>2. AuditApplied(ws)[id] = audit[id]
        BY <3>1, AuditedAt
      <3> QED BY <1>4, <1>5, <1>6, <2>4, <3>2
    <2> QED BY <2>1, <2>2, <2>3, <2>4
  <1>8. AuditApplied(ws) = [id \in EntityIds |-> AuditApplied(ws)[id]]
    BY DEF AuditApplied
  <1> QED BY <1>3, <1>6, <1>7, <1>8

\* Whose row an id is.
LEMMA RowOf ==
  /\ \A id \in ReservoirIds : Row(id) = reservoirs[id]
  /\ \A id \in GateIds : Row(id) = gates[id]
  /\ \A id \in DirectiveIds : Row(id) = directives[id]
  /\ \A id \in ConfirmationIds : Row(id) = confirmations[id]
  BY IdsAssumption DEF Row

\* What a statement that went through has found.
LEMMA HoldsParts ==
  ASSUME NEW w, NEW q, Holds(w, q)
  PROVE  /\ w.kind = "insert" =>
              /\ Row(w.id).status = "absent"
              /\ w.id \in ConfirmationIds => LinkUnused(w.row.directive)
         /\ w.kind = "update" =>
              /\ Row(w.id).live /\ Row(w.id).version = w.exp
              /\ q.op = "TransitionDirective" /\ w.id = q.id =>
                   EvidenceInsertable(Evidence(q))
         /\ w.kind = "delete" => Row(w.id).live
  BY DEF Holds

-----------------------------------------------------------------------------
(* Every commit is one of a service. *)

\* The four tables after one row is written.
LEMMA TablesOne ==
  ASSUME Typed, NEW ws, NEW w, ws = <<w>>
  PROVE  /\ w.id \in ReservoirIds =>
              /\ Applied(reservoirs, ws)
                   = [reservoirs EXCEPT ![w.id] = Written(reservoirs[w.id], w)]
              /\ Applied(gates, ws) = gates
              /\ Applied(directives, ws) = directives
              /\ Applied(confirmations, ws) = confirmations
         /\ w.id \in GateIds =>
              /\ Applied(gates, ws) = [gates EXCEPT ![w.id] = Written(gates[w.id], w)]
              /\ Applied(reservoirs, ws) = reservoirs
              /\ Applied(directives, ws) = directives
              /\ Applied(confirmations, ws) = confirmations
         /\ w.id \in DirectiveIds =>
              /\ Applied(directives, ws)
                   = [directives EXCEPT ![w.id] = Written(directives[w.id], w)]
              /\ Applied(reservoirs, ws) = reservoirs
              /\ Applied(gates, ws) = gates
              /\ Applied(confirmations, ws) = confirmations
         /\ w.id \in ConfirmationIds =>
              /\ Applied(confirmations, ws)
                   = [confirmations EXCEPT ![w.id] = Written(confirmations[w.id], w)]
              /\ Applied(reservoirs, ws) = reservoirs
              /\ Applied(gates, ws) = gates
              /\ Applied(directives, ws) = directives
  <1>1. DOMAIN ws = {1} /\ ws[1] = w
    OBVIOUS
  <1>2. /\ reservoirs \in [ReservoirIds -> Reservoir] /\ gates \in [GateIds -> GateUnit]
        /\ directives \in [DirectiveIds -> OperationDirective]
        /\ confirmations \in [ConfirmationIds -> ExecutionConfirmation]
    BY DEF Typed, TypeOK
  <1>3. ASSUME NEW D, NEW R, NEW table \in [D -> R], w.id \in D
        PROVE  Applied(table, ws) = [table EXCEPT ![w.id] = Written(table[w.id], w)]
    <2>1. \A j \in DOMAIN ws : j # 1 => ws[j].id \notin D
      BY <1>1
    <2>2. PICK new : new = [table EXCEPT ![w.id] = Written(table[w.id], w)]
      OBVIOUS
    <2>3. 1 \in DOMAIN ws /\ w = ws[1]
      BY <1>1
    <2>4. Applied(table, ws) = new
      BY <1>3, <2>1, <2>2, <2>3, AppliedOne
    <2> QED BY <2>2, <2>4
  <1>4. ASSUME NEW D, NEW R, NEW table \in [D -> R], w.id \notin D
        PROVE  Applied(table, ws) = table
    <2>1. \A j \in DOMAIN ws : ws[j].id \notin D
      BY <1>1, <1>4
    <2> QED BY <2>1, AppliedNone
  <1>5. w.id \in ReservoirIds => w.id \notin GateIds /\ w.id \notin DirectiveIds
                                 /\ w.id \notin ConfirmationIds
    BY IdsAssumption
  <1>6. w.id \in GateIds => w.id \notin ReservoirIds /\ w.id \notin DirectiveIds
                            /\ w.id \notin ConfirmationIds
    BY IdsAssumption
  <1>7. w.id \in DirectiveIds => w.id \notin ReservoirIds /\ w.id \notin GateIds
                                 /\ w.id \notin ConfirmationIds
    BY IdsAssumption
  <1>8. w.id \in ConfirmationIds => w.id \notin ReservoirIds /\ w.id \notin GateIds
                                    /\ w.id \notin DirectiveIds
    BY IdsAssumption
  <1> QED BY <1>2, <1>3, <1>4, <1>5, <1>6, <1>7, <1>8

\* Only row id changes: it becomes row.
Changes(id, row) ==
  /\ id \in ReservoirIds =>
       /\ reservoirs' = [reservoirs EXCEPT ![id] = row]
       /\ UNCHANGED <<gates, directives, confirmations>>
  /\ id \in GateIds =>
       /\ gates' = [gates EXCEPT ![id] = row]
       /\ UNCHANGED <<reservoirs, directives, confirmations>>
  /\ id \in DirectiveIds =>
       /\ directives' = [directives EXCEPT ![id] = row]
       /\ UNCHANGED <<reservoirs, gates, confirmations>>
  /\ id \in ConfirmationIds =>
       /\ confirmations' = [confirmations EXCEPT ![id] = row]
       /\ UNCHANGED <<reservoirs, gates, directives>>

\* A commit of request q, whose statements went through on the rows as they are.
Commits(r, q, ws) ==
  /\ q = req[r] /\ q \in Request /\ Valid(q) /\ q.op # "idle"
  /\ ws = Writes(q) /\ Ordered(ws)
  /\ \A i \in 1..Len(ws) : Holds(ws[i], q)
  /\ reservoirs' = Applied(reservoirs, ws)
  /\ gates' = Applied(gates, ws)
  /\ directives' = Applied(directives, ws)
  /\ confirmations' = Applied(confirmations, ws)
  /\ approvals' = approvals \cup (IF q.op = "TransitionDirective" THEN Evidence(q) ELSE {})
  /\ audit' = AuditApplied(ws)
  /\ Finish(r)

\* Every commit is such a one.
LEMMA CommitParts ==
  ASSUME Sound, Progress, WrittenRowsStay, NEW r \in Requests, Commit(r)
  PROVE  Commits(r, req[r], Writes(req[r]))
  <1>1. req[r].op # "idle" /\ todo[r] = <<>>
    BY DEF Commit, InTransaction
  <1>2. req[r] \in Request /\ Valid(req[r])
    BY InFlightSound DEF Sound
  <1>3. PICK ws : ws = Writes(req[r])
    OBVIOUS
  <1>4. Ordered(ws)
    BY <1>1, <1>2, <1>3, WritesShape
  <1>5. made[r] = ws /\ DOMAIN made[r] = 1..Len(ws)
    BY <1>1, <1>3, GoingParts
  <1>6. \A i \in 1..Len(ws) : Holds(ws[i], req[r])
    BY <1>5 DEF WrittenRowsStay
  <1> QED BY <1>1, <1>2, <1>3, <1>4, <1>5, <1>6 DEF Commit, Commits

\* A commit of one row.
LEMMA CommitsOne ==
  ASSUME Typed, NEW r \in Requests, NEW q, NEW ws, Commits(r, q, ws), NEW w, ws = <<w>>,
         NEW row, row = Written(Row(w.id), w)
  PROVE  /\ Holds(w, q) /\ w.id \in EntityIds /\ Changes(w.id, row)
         /\ audit' = Logged(audit, w.id, w.before, w.after)
  <1>1. Len(ws) = 1 /\ ws[1] = w
    OBVIOUS
  <1>2. Holds(w, q) /\ w.id \in EntityIds
    <2>1. 1 \in 1..Len(ws)
      BY <1>1
    <2> QED BY <1>1, <2>1 DEF Commits, Ordered
  <1>3. audit' = Logged(audit, w.id, w.before, w.after)
    BY <1>2, AuditOne DEF Commits
  <1>4. /\ reservoirs' = Applied(reservoirs, ws) /\ gates' = Applied(gates, ws)
        /\ directives' = Applied(directives, ws)
        /\ confirmations' = Applied(confirmations, ws)
    BY DEF Commits
  <1>5. ASSUME w.id \in ReservoirIds
        PROVE  /\ reservoirs' = [reservoirs EXCEPT ![w.id] = row]
               /\ UNCHANGED <<gates, directives, confirmations>>
    <2>1. row = Written(reservoirs[w.id], w)
      BY <1>5, RowOf
    <2> QED BY <1>4, <1>5, <2>1, TablesOne
  <1>6. ASSUME w.id \in GateIds
        PROVE  /\ gates' = [gates EXCEPT ![w.id] = row]
               /\ UNCHANGED <<reservoirs, directives, confirmations>>
    <2>1. row = Written(gates[w.id], w)
      BY <1>6, RowOf
    <2> QED BY <1>4, <1>6, <2>1, TablesOne
  <1>7. ASSUME w.id \in DirectiveIds
        PROVE  /\ directives' = [directives EXCEPT ![w.id] = row]
               /\ UNCHANGED <<reservoirs, gates, confirmations>>
    <2>1. row = Written(directives[w.id], w)
      BY <1>7, RowOf
    <2> QED BY <1>4, <1>7, <2>1, TablesOne
  <1>8. ASSUME w.id \in ConfirmationIds
        PROVE  /\ confirmations' = [confirmations EXCEPT ![w.id] = row]
               /\ UNCHANGED <<reservoirs, gates, directives>>
    <2>1. row = Written(confirmations[w.id], w)
      BY <1>8, RowOf
    <2> QED BY <1>4, <1>8, <2>1, TablesOne
  <1>9. Changes(w.id, row)
    BY <1>5, <1>6, <1>7, <1>8 DEF Changes
  <1> QED BY <1>2, <1>3, <1>9

\* The commit of a creation,
LEMMA CommitsInsertion ==
  ASSUME Typed, NEW r \in Requests, NEW q, NEW ws, Commits(r, q, ws), NEW row,
         ws = <<Insertion(q.id, row)>>
  PROVE  /\ Row(q.id).status = "absent"
         /\ q.id \in ConfirmationIds => LinkUnused(row.directive)
         /\ Changes(q.id, row) /\ audit' = Logged(audit, q.id, None, row.status)
  <1>1. PICK w : w = Insertion(q.id, row)
    OBVIOUS
  <1>2. /\ w.id = q.id /\ w.kind = "insert" /\ w.row = row
        /\ w.before = None /\ w.after = row.status
    BY <1>1, WriteParts
  <1>3. row = Written(Row(w.id), w)
    BY <1>2 DEF Written
  <1>4. ws = <<w>>
    BY <1>1
  <1>5. /\ Holds(w, q) /\ Changes(w.id, row)
        /\ audit' = Logged(audit, w.id, w.before, w.after)
    BY <1>3, <1>4, CommitsOne
  <1> QED BY <1>2, <1>5, HoldsParts

\* of an update or a transition of one row,
LEMMA CommitsUpdate ==
  ASSUME Typed, NEW r \in Requests, NEW q, NEW ws, Commits(r, q, ws), NEW old, NEW mid,
         ws = <<Update(q.id, q.exp, old, mid)>>,
         NEW row, row = [mid EXCEPT !.version = q.exp + 1]
  PROVE  /\ Row(q.id).live /\ Row(q.id).version = q.exp
         /\ q.op = "TransitionDirective" => EvidenceInsertable(Evidence(q))
         /\ Changes(q.id, row) /\ audit' = Logged(audit, q.id, old.status, mid.status)
  <1>1. PICK w : w = Update(q.id, q.exp, old, mid)
    OBVIOUS
  <1>2. /\ w.id = q.id /\ w.kind = "update" /\ w.row = row /\ w.exp = q.exp
        /\ w.before = old.status /\ w.after = mid.status
    BY <1>1, WriteParts
  <1>3. row = Written(Row(w.id), w)
    BY <1>2 DEF Written
  <1>4. ws = <<w>>
    BY <1>1
  <1>5. /\ Holds(w, q) /\ Changes(w.id, row)
        /\ audit' = Logged(audit, w.id, w.before, w.after)
    BY <1>3, <1>4, CommitsOne
  <1> QED BY <1>2, <1>5, HoldsParts

\* and of a deletion.
LEMMA CommitsDeletion ==
  ASSUME Typed, NEW r \in Requests, NEW q, NEW ws, Commits(r, q, ws), NEW old,
         ws = <<Deletion(q.id, old)>>, NEW row, row = [Row(q.id) EXCEPT !.live = FALSE]
  PROVE  /\ Row(q.id).live
         /\ Changes(q.id, row) /\ audit' = Logged(audit, q.id, old.status, "deleted")
  <1>1. PICK w : w = Deletion(q.id, old)
    OBVIOUS
  <1>2. /\ w.id = q.id /\ w.kind = "delete"
        /\ w.before = old.status /\ w.after = "deleted"
    BY <1>1, WriteParts
  <1>3. row = Written(Row(w.id), w)
    BY <1>2 DEF Written
  <1>4. ws = <<w>>
    BY <1>1
  <1>5. /\ Holds(w, q) /\ Changes(w.id, row)
        /\ audit' = Logged(audit, w.id, w.before, w.after)
    BY <1>3, <1>4, CommitsOne
  <1> QED BY <1>2, <1>5, HoldsParts

\* A commit that creates a reservoir is CommitCreateReservoir.
LEMMA CreateReservoirCommits ==
  ASSUME Typed, NEW r \in Requests, NEW q, NEW ws, Commits(r, q, ws),
         q.op = "CreateReservoir"
  PROVE  CommitCreateReservoir(r)
  <1>1. q = req[r] /\ Finish(r) /\ approvals' = approvals /\ q.id \in ReservoirIds
    BY DEF Commits, Valid, ReservoirValid
  <1>2. PICK row : row = NewReservoir(q)
    OBVIOUS
  <1>3. ws = <<Insertion(q.id, row)>>
    BY <1>2, SingleWrites DEF Commits
  <1>4. /\ Row(q.id).status = "absent" /\ Changes(q.id, row)
        /\ q.id \in ConfirmationIds => LinkUnused(row.directive)
        /\ audit' = Logged(audit, q.id, None, row.status)
    BY <1>3, CommitsInsertion
  <1>5. row.status = ReservoirInitialStatus
    BY <1>2 DEF NewReservoir
  <1>6. /\ reservoirs' = Insert(reservoirs, q.id, row)
        /\ UNCHANGED <<gates, directives, confirmations>>
    BY <1>1, <1>4 DEF Changes, Insert
  <1>7. Insertable(reservoirs, q.id)
    BY <1>1, <1>4, <1>5, RowOf DEF Insertable
  <1> QED BY <1>1, <1>2, <1>4, <1>5, <1>6, <1>7
    DEF CommitCreateReservoir, NewReservoir, InFlight

\* A commit that updates a reservoir is CommitUpdateReservoir.
LEMMA UpdateReservoirCommits ==
  ASSUME Typed, NEW r \in Requests, NEW q, NEW ws, Commits(r, q, ws),
         q.op = "UpdateReservoir"
  PROVE  CommitUpdateReservoir(r)
  <1>1. /\ q = req[r] /\ Finish(r) /\ approvals' = approvals /\ q.id \in ReservoirIds
        /\ q.res.live /\ q \in Request
    BY DEF Commits, Valid, ReservoirValid
  <1>2. q.res \in PresentReservoir
    BY <1>1, LiveRows DEF Request
  <1>3. PICK mid : mid = [q.res EXCEPT !.facility = q.plan.facility]
    OBVIOUS
  <1>4. PICK row : row = [mid EXCEPT !.version = q.exp + 1]
    OBVIOUS
  <1>5. ws = <<Update(q.id, q.exp, q.res, mid)>>
    BY <1>3, SingleWrites DEF Commits
  <1>6. /\ Row(q.id).live /\ Row(q.id).version = q.exp /\ Changes(q.id, row)
        /\ audit' = Logged(audit, q.id, q.res.status, mid.status)
    BY <1>4, <1>5, CommitsUpdate
  <1>7. mid.status = q.res.status
    BY <1>2, <1>3 DEF PresentReservoir
  <1>8. /\ reservoirs' = Write(reservoirs, q.id, q.exp, mid)
        /\ UNCHANGED <<gates, directives, confirmations>>
    BY <1>1, <1>4, <1>6 DEF Changes, Write
  <1>9. Current(reservoirs, q.id, q.exp)
    BY <1>1, <1>6, RowOf DEF Current
  <1> QED BY <1>1, <1>3, <1>6, <1>7, <1>8, <1>9 DEF CommitUpdateReservoir, InFlight

\* A commit that transits a reservoir is CommitTransitionReservoir.
LEMMA TransitionReservoirCommits ==
  ASSUME Typed, NEW r \in Requests, NEW q, NEW ws, Commits(r, q, ws),
         q.op = "TransitionReservoir"
  PROVE  CommitTransitionReservoir(r)
  <1>1. /\ q = req[r] /\ Finish(r) /\ approvals' = approvals /\ q.id \in ReservoirIds
        /\ q.res.live /\ q \in Request
    BY DEF Commits, Valid, ReservoirValid
  <1>2. q.res \in PresentReservoir
    BY <1>1, LiveRows DEF Request
  <1>3. PICK mid : mid = [q.res EXCEPT !.status = q.to]
    OBVIOUS
  <1>4. PICK row : row = [mid EXCEPT !.version = q.exp + 1]
    OBVIOUS
  <1>5. ws = <<Update(q.id, q.exp, q.res, mid)>>
    BY <1>3, SingleWrites DEF Commits
  <1>6. /\ Row(q.id).live /\ Row(q.id).version = q.exp /\ Changes(q.id, row)
        /\ audit' = Logged(audit, q.id, q.res.status, mid.status)
    BY <1>4, <1>5, CommitsUpdate
  <1>7. mid.status = q.to
    BY <1>2, <1>3 DEF PresentReservoir
  <1>8. /\ reservoirs' = Write(reservoirs, q.id, q.exp, mid)
        /\ UNCHANGED <<gates, directives, confirmations>>
    BY <1>1, <1>4, <1>6 DEF Changes, Write
  <1>9. Current(reservoirs, q.id, q.exp)
    BY <1>1, <1>6, RowOf DEF Current
  <1> QED BY <1>1, <1>3, <1>6, <1>7, <1>8, <1>9 DEF CommitTransitionReservoir, InFlight

\* A commit that deletes a reservoir is CommitDeleteReservoir.
LEMMA DeleteReservoirCommits ==
  ASSUME Typed, NEW r \in Requests, NEW q, NEW ws, Commits(r, q, ws),
         q.op = "DeleteReservoir"
  PROVE  CommitDeleteReservoir(r)
  <1>1. q = req[r] /\ Finish(r) /\ approvals' = approvals /\ q.id \in ReservoirIds
    BY DEF Commits, Valid, ReservoirValid
  <1>2. PICK row : row = [Row(q.id) EXCEPT !.live = FALSE]
    OBVIOUS
  <1>3. ws = <<Deletion(q.id, q.res)>>
    BY SingleWrites DEF Commits
  <1>4. /\ Row(q.id).live /\ Changes(q.id, row)
        /\ audit' = Logged(audit, q.id, q.res.status, "deleted")
    BY <1>2, <1>3, CommitsDeletion
  <1>5. Row(q.id) = reservoirs[q.id] /\ DOMAIN reservoirs = ReservoirIds
    BY <1>1, RowOf DEF Typed, TypeOK
  <1>6. /\ reservoirs' = SoftDelete(reservoirs, q.id)
        /\ UNCHANGED <<gates, directives, confirmations>>
    BY <1>1, <1>2, <1>4, <1>5 DEF Changes, SoftDelete
  <1>7. Live(reservoirs, q.id)
    BY <1>1, <1>4, <1>5 DEF Live
  <1> QED BY <1>1, <1>4, <1>6, <1>7 DEF CommitDeleteReservoir, InFlight

\* A commit that creates a gate is CommitCreateGate.
LEMMA CreateGateCommits ==
  ASSUME Typed, NEW r \in Requests, NEW q, NEW ws, Commits(r, q, ws),
         q.op = "CreateGate"
  PROVE  CommitCreateGate(r)
  <1>1. q = req[r] /\ Finish(r) /\ approvals' = approvals /\ q.id \in GateIds
    BY DEF Commits, Valid, GateValid
  <1>2. PICK row : row = NewGate(q)
    OBVIOUS
  <1>3. ws = <<Insertion(q.id, row)>>
    BY <1>2, SingleWrites DEF Commits
  <1>4. /\ Row(q.id).status = "absent" /\ Changes(q.id, row)
        /\ q.id \in ConfirmationIds => LinkUnused(row.directive)
        /\ audit' = Logged(audit, q.id, None, row.status)
    BY <1>3, CommitsInsertion
  <1>5. row.status = GateUnitInitialStatus
    BY <1>2 DEF NewGate
  <1>6. /\ gates' = Insert(gates, q.id, row)
        /\ UNCHANGED <<reservoirs, directives, confirmations>>
    BY <1>1, <1>4 DEF Changes, Insert
  <1>7. Insertable(gates, q.id)
    BY <1>1, <1>4, <1>5, RowOf DEF Insertable
  <1> QED BY <1>1, <1>2, <1>4, <1>5, <1>6, <1>7
    DEF CommitCreateGate, NewGate, InFlight

\* A commit that updates a gate is CommitUpdateGate.
LEMMA UpdateGateCommits ==
  ASSUME Typed, NEW r \in Requests, NEW q, NEW ws, Commits(r, q, ws),
         q.op = "UpdateGate"
  PROVE  CommitUpdateGate(r)
  <1>1. /\ q = req[r] /\ Finish(r) /\ approvals' = approvals /\ q.id \in GateIds
        /\ q.gate.live /\ q \in Request
    BY DEF Commits, Valid, GateValid
  <1>2. q.gate \in PresentGate
    BY <1>1, LiveRows DEF Request
  <1>3. PICK mid : mid = [q.gate EXCEPT !.facility = q.plan.facility]
    OBVIOUS
  <1>4. PICK row : row = [mid EXCEPT !.version = q.exp + 1]
    OBVIOUS
  <1>5. ws = <<Update(q.id, q.exp, q.gate, mid)>>
    BY <1>3, SingleWrites DEF Commits
  <1>6. /\ Row(q.id).live /\ Row(q.id).version = q.exp /\ Changes(q.id, row)
        /\ audit' = Logged(audit, q.id, q.gate.status, mid.status)
    BY <1>4, <1>5, CommitsUpdate
  <1>7. mid.status = q.gate.status
    BY <1>2, <1>3 DEF PresentGate
  <1>8. /\ gates' = Write(gates, q.id, q.exp, mid)
        /\ UNCHANGED <<reservoirs, directives, confirmations>>
    BY <1>1, <1>4, <1>6 DEF Changes, Write
  <1>9. Current(gates, q.id, q.exp)
    BY <1>1, <1>6, RowOf DEF Current
  <1> QED BY <1>1, <1>3, <1>6, <1>7, <1>8, <1>9 DEF CommitUpdateGate, InFlight

\* A commit that transits a gate is CommitTransitionGate.
LEMMA TransitionGateCommits ==
  ASSUME Typed, NEW r \in Requests, NEW q, NEW ws, Commits(r, q, ws),
         q.op = "TransitionGate"
  PROVE  CommitTransitionGate(r)
  <1>1. /\ q = req[r] /\ Finish(r) /\ approvals' = approvals /\ q.id \in GateIds
        /\ q.gate.live /\ q \in Request
    BY DEF Commits, Valid, GateValid
  <1>2. q.gate \in PresentGate
    BY <1>1, LiveRows DEF Request
  <1>3. PICK mid : mid = [q.gate EXCEPT !.status = q.to]
    OBVIOUS
  <1>4. PICK row : row = [mid EXCEPT !.version = q.exp + 1]
    OBVIOUS
  <1>5. ws = <<Update(q.id, q.exp, q.gate, mid)>>
    BY <1>3, SingleWrites DEF Commits
  <1>6. /\ Row(q.id).live /\ Row(q.id).version = q.exp /\ Changes(q.id, row)
        /\ audit' = Logged(audit, q.id, q.gate.status, mid.status)
    BY <1>4, <1>5, CommitsUpdate
  <1>7. mid.status = q.to
    BY <1>2, <1>3 DEF PresentGate
  <1>8. /\ gates' = Write(gates, q.id, q.exp, mid)
        /\ UNCHANGED <<reservoirs, directives, confirmations>>
    BY <1>1, <1>4, <1>6 DEF Changes, Write
  <1>9. Current(gates, q.id, q.exp)
    BY <1>1, <1>6, RowOf DEF Current
  <1> QED BY <1>1, <1>3, <1>6, <1>7, <1>8, <1>9 DEF CommitTransitionGate, InFlight

\* A commit that deletes a gate is CommitDeleteGate.
LEMMA DeleteGateCommits ==
  ASSUME Typed, NEW r \in Requests, NEW q, NEW ws, Commits(r, q, ws),
         q.op = "DeleteGate"
  PROVE  CommitDeleteGate(r)
  <1>1. q = req[r] /\ Finish(r) /\ approvals' = approvals /\ q.id \in GateIds
    BY DEF Commits, Valid, GateValid
  <1>2. PICK row : row = [Row(q.id) EXCEPT !.live = FALSE]
    OBVIOUS
  <1>3. ws = <<Deletion(q.id, q.gate)>>
    BY SingleWrites DEF Commits
  <1>4. /\ Row(q.id).live /\ Changes(q.id, row)
        /\ audit' = Logged(audit, q.id, q.gate.status, "deleted")
    BY <1>2, <1>3, CommitsDeletion
  <1>5. Row(q.id) = gates[q.id] /\ DOMAIN gates = GateIds
    BY <1>1, RowOf DEF Typed, TypeOK
  <1>6. /\ gates' = SoftDelete(gates, q.id)
        /\ UNCHANGED <<reservoirs, directives, confirmations>>
    BY <1>1, <1>2, <1>4, <1>5 DEF Changes, SoftDelete
  <1>7. Live(gates, q.id)
    BY <1>1, <1>4, <1>5 DEF Live
  <1> QED BY <1>1, <1>4, <1>6, <1>7 DEF CommitDeleteGate, InFlight

\* A commit that creates a directive is CommitCreateDirective.
LEMMA CreateDirectiveCommits ==
  ASSUME Typed, NEW r \in Requests, NEW q, NEW ws, Commits(r, q, ws),
         q.op = "CreateDirective"
  PROVE  CommitCreateDirective(r)
  <1>1. q = req[r] /\ Finish(r) /\ approvals' = approvals /\ q.id \in DirectiveIds
    BY DEF Commits, Valid, DirectiveValid
  <1>2. PICK row : row = NewDirective(q)
    OBVIOUS
  <1>3. ws = <<Insertion(q.id, row)>>
    BY <1>2, SingleWrites DEF Commits
  <1>4. /\ Row(q.id).status = "absent" /\ Changes(q.id, row)
        /\ q.id \in ConfirmationIds => LinkUnused(row.directive)
        /\ audit' = Logged(audit, q.id, None, row.status)
    BY <1>3, CommitsInsertion
  <1>5. row.status = OperationDirectiveInitialStatus
    BY <1>2 DEF NewDirective
  <1>6. /\ directives' = Insert(directives, q.id, row)
        /\ UNCHANGED <<reservoirs, gates, confirmations>>
    BY <1>1, <1>4 DEF Changes, Insert
  <1>7. Insertable(directives, q.id)
    BY <1>1, <1>4, <1>5, RowOf DEF Insertable
  <1> QED BY <1>1, <1>2, <1>4, <1>5, <1>6, <1>7
    DEF CommitCreateDirective, NewDirective, InFlight

\* A commit that updates a directive is CommitUpdateDirective.
LEMMA UpdateDirectiveCommits ==
  ASSUME Typed, NEW r \in Requests, NEW q, NEW ws, Commits(r, q, ws),
         q.op = "UpdateDirective"
  PROVE  CommitUpdateDirective(r)
  <1>1. /\ q = req[r] /\ Finish(r) /\ approvals' = approvals /\ q.id \in DirectiveIds
        /\ q.dir.live /\ q \in Request
    BY DEF Commits, Valid, DirectiveValid
  <1>2. q.dir \in PresentDirective
    BY <1>1, LiveRows DEF Request
  <1>3. PICK mid : mid = [q.dir EXCEPT !.facility = q.plan.facility, !.gate = q.plan.link,
                                   !.gateState = q.plan.gateState]
    OBVIOUS
  <1>4. PICK row : row = [mid EXCEPT !.version = q.exp + 1]
    OBVIOUS
  <1>5. ws = <<Update(q.id, q.exp, q.dir, mid)>>
    BY <1>3, SingleWrites DEF Commits
  <1>6. /\ Row(q.id).live /\ Row(q.id).version = q.exp /\ Changes(q.id, row)
        /\ audit' = Logged(audit, q.id, q.dir.status, mid.status)
    BY <1>4, <1>5, CommitsUpdate
  <1>7. mid.status = q.dir.status
    BY <1>2, <1>3 DEF PresentDirective
  <1>8. /\ directives' = Write(directives, q.id, q.exp, mid)
        /\ UNCHANGED <<reservoirs, gates, confirmations>>
    BY <1>1, <1>4, <1>6 DEF Changes, Write
  <1>9. Current(directives, q.id, q.exp)
    BY <1>1, <1>6, RowOf DEF Current
  <1> QED BY <1>1, <1>3, <1>6, <1>7, <1>8, <1>9 DEF CommitUpdateDirective, InFlight

\* A commit that deletes a directive is CommitDeleteDirective.
LEMMA DeleteDirectiveCommits ==
  ASSUME Typed, NEW r \in Requests, NEW q, NEW ws, Commits(r, q, ws),
         q.op = "DeleteDirective"
  PROVE  CommitDeleteDirective(r)
  <1>1. q = req[r] /\ Finish(r) /\ approvals' = approvals /\ q.id \in DirectiveIds
    BY DEF Commits, Valid, DirectiveValid
  <1>2. PICK row : row = [Row(q.id) EXCEPT !.live = FALSE]
    OBVIOUS
  <1>3. ws = <<Deletion(q.id, q.dir)>>
    BY SingleWrites DEF Commits
  <1>4. /\ Row(q.id).live /\ Changes(q.id, row)
        /\ audit' = Logged(audit, q.id, q.dir.status, "deleted")
    BY <1>2, <1>3, CommitsDeletion
  <1>5. Row(q.id) = directives[q.id] /\ DOMAIN directives = DirectiveIds
    BY <1>1, RowOf DEF Typed, TypeOK
  <1>6. /\ directives' = SoftDelete(directives, q.id)
        /\ UNCHANGED <<reservoirs, gates, confirmations>>
    BY <1>1, <1>2, <1>4, <1>5 DEF Changes, SoftDelete
  <1>7. Live(directives, q.id)
    BY <1>1, <1>4, <1>5 DEF Live
  <1> QED BY <1>1, <1>4, <1>6, <1>7 DEF CommitDeleteDirective, InFlight

\* A commit that creates a confirmation is CommitCreateConfirmation.
LEMMA CreateConfirmationCommits ==
  ASSUME Typed, NEW r \in Requests, NEW q, NEW ws, Commits(r, q, ws),
         q.op = "CreateConfirmation"
  PROVE  CommitCreateConfirmation(r)
  <1>1. q = req[r] /\ Finish(r) /\ approvals' = approvals /\ q.id \in ConfirmationIds
    BY DEF Commits, Valid, ConfirmationValid
  <1>2. PICK row : row = NewConfirmation(q)
    OBVIOUS
  <1>3. ws = <<Insertion(q.id, row)>>
    BY <1>2, SingleWrites DEF Commits
  <1>4. /\ Row(q.id).status = "absent" /\ Changes(q.id, row)
        /\ q.id \in ConfirmationIds => LinkUnused(row.directive)
        /\ audit' = Logged(audit, q.id, None, row.status)
    BY <1>3, CommitsInsertion
  <1>5. row.status = ExecutionConfirmationInitialStatus /\ row.directive = q.plan.link
    BY <1>2 DEF NewConfirmation
  <1>6. /\ confirmations' = Insert(confirmations, q.id, row)
        /\ UNCHANGED <<reservoirs, gates, directives>>
    BY <1>1, <1>4 DEF Changes, Insert
  <1>7. Insertable(confirmations, q.id) /\ LinkUnused(q.plan.link)
    BY <1>1, <1>4, <1>5, RowOf DEF Insertable
  <1> QED BY <1>1, <1>2, <1>4, <1>5, <1>6, <1>7
    DEF CommitCreateConfirmation, NewConfirmation, InFlight

\* A commit that updates a confirmation is CommitUpdateConfirmation.
LEMMA UpdateConfirmationCommits ==
  ASSUME Typed, NEW r \in Requests, NEW q, NEW ws, Commits(r, q, ws),
         q.op = "UpdateConfirmation"
  PROVE  CommitUpdateConfirmation(r)
  <1>1. /\ q = req[r] /\ Finish(r) /\ approvals' = approvals /\ q.id \in ConfirmationIds
        /\ q.conf.live /\ q \in Request
    BY DEF Commits, Valid, ConfirmationValid
  <1>2. q.conf \in PresentConfirmation
    BY <1>1, LiveRows DEF Request
  <1>3. PICK mid : mid = [q.conf EXCEPT !.facility = q.plan.facility]
    OBVIOUS
  <1>4. PICK row : row = [mid EXCEPT !.version = q.exp + 1]
    OBVIOUS
  <1>5. ws = <<Update(q.id, q.exp, q.conf, mid)>>
    BY <1>3, SingleWrites DEF Commits
  <1>6. /\ Row(q.id).live /\ Row(q.id).version = q.exp /\ Changes(q.id, row)
        /\ audit' = Logged(audit, q.id, q.conf.status, mid.status)
    BY <1>4, <1>5, CommitsUpdate
  <1>7. mid.status = q.conf.status
    BY <1>2, <1>3 DEF PresentConfirmation
  <1>8. /\ confirmations' = Write(confirmations, q.id, q.exp, mid)
        /\ UNCHANGED <<reservoirs, gates, directives>>
    BY <1>1, <1>4, <1>6 DEF Changes, Write
  <1>9. Current(confirmations, q.id, q.exp)
    BY <1>1, <1>6, RowOf DEF Current
  <1> QED BY <1>1, <1>3, <1>6, <1>7, <1>8, <1>9 DEF CommitUpdateConfirmation, InFlight

\* A commit that cancels a confirmation is CommitCancel.
LEMMA CancelCommits ==
  ASSUME Typed, NEW r \in Requests, NEW q, NEW ws, Commits(r, q, ws),
         q.op = "TransitionConfirmation", q.conf.status # "pending"
  PROVE  CommitCancel(r)
  <1>1. /\ q = req[r] /\ Finish(r) /\ approvals' = approvals /\ q.id \in ConfirmationIds
        /\ q.conf.live /\ q \in Request
    BY DEF Commits, Valid, ConfirmationValid
  <1>2. q.conf \in PresentConfirmation
    BY <1>1, LiveRows DEF Request
  <1>3. PICK mid : mid = [q.conf EXCEPT !.status = q.to]
    OBVIOUS
  <1>4. PICK row : row = [mid EXCEPT !.version = q.exp + 1]
    OBVIOUS
  <1>5. ws = <<Update(q.id, q.exp, q.conf, mid)>>
    BY <1>3, SingleWrites DEF Commits
  <1>6. /\ Row(q.id).live /\ Row(q.id).version = q.exp /\ Changes(q.id, row)
        /\ audit' = Logged(audit, q.id, q.conf.status, mid.status)
    BY <1>4, <1>5, CommitsUpdate
  <1>7. mid.status = q.to
    BY <1>2, <1>3 DEF PresentConfirmation
  <1>8. /\ confirmations' = Write(confirmations, q.id, q.exp, mid)
        /\ UNCHANGED <<reservoirs, gates, directives>>
    BY <1>1, <1>4, <1>6 DEF Changes, Write
  <1>9. Current(confirmations, q.id, q.exp)
    BY <1>1, <1>6, RowOf DEF Current
  <1> QED BY <1>1, <1>3, <1>6, <1>7, <1>8, <1>9 DEF CommitCancel, InFlight

\* A commit that deletes a confirmation is CommitDeleteConfirmation.
LEMMA DeleteConfirmationCommits ==
  ASSUME Typed, NEW r \in Requests, NEW q, NEW ws, Commits(r, q, ws),
         q.op = "DeleteConfirmation"
  PROVE  CommitDeleteConfirmation(r)
  <1>1. q = req[r] /\ Finish(r) /\ approvals' = approvals /\ q.id \in ConfirmationIds
    BY DEF Commits, Valid, ConfirmationValid
  <1>2. PICK row : row = [Row(q.id) EXCEPT !.live = FALSE]
    OBVIOUS
  <1>3. ws = <<Deletion(q.id, q.conf)>>
    BY SingleWrites DEF Commits
  <1>4. /\ Row(q.id).live /\ Changes(q.id, row)
        /\ audit' = Logged(audit, q.id, q.conf.status, "deleted")
    BY <1>2, <1>3, CommitsDeletion
  <1>5. Row(q.id) = confirmations[q.id] /\ DOMAIN confirmations = ConfirmationIds
    BY <1>1, RowOf DEF Typed, TypeOK
  <1>6. /\ confirmations' = SoftDelete(confirmations, q.id)
        /\ UNCHANGED <<reservoirs, gates, directives>>
    BY <1>1, <1>2, <1>4, <1>5 DEF Changes, SoftDelete
  <1>7. Live(confirmations, q.id)
    BY <1>1, <1>4, <1>5 DEF Live
  <1> QED BY <1>1, <1>4, <1>6, <1>7 DEF CommitDeleteConfirmation, InFlight

\* A table of several that are written.
LEMMA TablesAt ==
  ASSUME Typed, NEW ws, Ordered(ws), NEW i \in DOMAIN ws, NEW w, w = ws[i],
         NEW row, row = Written(Row(w.id), w)
  PROVE  /\ w.id \in GateIds => Applied(gates, ws) = [gates EXCEPT ![w.id] = row]
         /\ w.id \in DirectiveIds =>
              Applied(directives, ws) = [directives EXCEPT ![w.id] = row]
         /\ w.id \in ConfirmationIds =>
              Applied(confirmations, ws) = [confirmations EXCEPT ![w.id] = row]
  <1>1. DOMAIN ws = 1..Len(ws) /\ Len(ws) \in Nat
    BY DEF Ordered
  <1>2. ASSUME NEW j \in DOMAIN ws, j # i PROVE Rank(ws[j].id) # Rank(w.id)
    <2>1. j < i \/ i < j
      BY <1>1, <1>2
    <2>2. \A n \in DOMAIN ws : Rank(ws[n].id) \in 1..4
      BY <1>1, OrderedRanks
    <2>3. Rank(ws[j].id) < Rank(ws[i].id) \/ Rank(ws[i].id) < Rank(ws[j].id)
      BY <1>1, <2>1 DEF Ordered
    <2> QED BY <2>2, <2>3
  <1>3. /\ gates \in [GateIds -> GateUnit]
        /\ directives \in [DirectiveIds -> OperationDirective]
        /\ confirmations \in [ConfirmationIds -> ExecutionConfirmation]
    BY DEF Typed, TypeOK
  <1>4. ASSUME NEW D, NEW R, NEW table \in [D -> R], w.id \in D,
               \A j \in DOMAIN ws : j # i => ws[j].id \notin D
        PROVE  Applied(table, ws) = [table EXCEPT ![w.id] = Written(table[w.id], w)]
    <2>1. PICK new : new = [table EXCEPT ![w.id] = Written(table[w.id], w)]
      OBVIOUS
    <2>2. Applied(table, ws) = new
      BY <1>4, <2>1, AppliedOne
    <2> QED BY <2>1, <2>2
  <1>5. ASSUME w.id \in GateIds PROVE Applied(gates, ws) = [gates EXCEPT ![w.id] = row]
    <2>1. \A j \in DOMAIN ws : j # i => ws[j].id \notin GateIds
      BY <1>2, <1>5, Ranks
    <2>2. gates \in [GateIds -> GateUnit]
      BY <1>3
    <2>3. Applied(gates, ws) = [gates EXCEPT ![w.id] = Written(gates[w.id], w)]
      BY <1>5, <2>1, <2>2, <1>4
    <2> QED BY <1>5, <2>3, RowOf
  <1>6. ASSUME w.id \in DirectiveIds
        PROVE  Applied(directives, ws) = [directives EXCEPT ![w.id] = row]
    <2>1. \A j \in DOMAIN ws : j # i => ws[j].id \notin DirectiveIds
      BY <1>2, <1>6, Ranks
    <2>2. directives \in [DirectiveIds -> OperationDirective]
      BY <1>3
    <2>3. Applied(directives, ws)
            = [directives EXCEPT ![w.id] = Written(directives[w.id], w)]
      BY <1>6, <2>1, <2>2, <1>4
    <2> QED BY <1>6, <2>3, RowOf
  <1>7. ASSUME w.id \in ConfirmationIds
        PROVE  Applied(confirmations, ws) = [confirmations EXCEPT ![w.id] = row]
    <2>1. \A j \in DOMAIN ws : j # i => ws[j].id \notin ConfirmationIds
      BY <1>2, <1>7, Ranks
    <2>2. confirmations \in [ConfirmationIds -> ExecutionConfirmation]
      BY <1>3
    <2>3. Applied(confirmations, ws)
            = [confirmations EXCEPT ![w.id] = Written(confirmations[w.id], w)]
      BY <1>7, <2>1, <2>2, <1>4
    <2> QED BY <1>7, <2>3, RowOf
  <1> QED BY <1>5, <1>6, <1>7

\* A table of none that are written.
LEMMA TablesNone ==
  ASSUME Typed, NEW ws
  PROVE  /\ (\A j \in DOMAIN ws : Rank(ws[j].id) # 4) => Applied(reservoirs, ws) = reservoirs
         /\ (\A j \in DOMAIN ws : Rank(ws[j].id) # 3) => Applied(gates, ws) = gates
         /\ (\A j \in DOMAIN ws : Rank(ws[j].id) # 1) =>
              Applied(confirmations, ws) = confirmations
  <1>1. /\ reservoirs \in [ReservoirIds -> Reservoir] /\ gates \in [GateIds -> GateUnit]
        /\ confirmations \in [ConfirmationIds -> ExecutionConfirmation]
    BY DEF Typed, TypeOK
  <1>2. ASSUME \A j \in DOMAIN ws : Rank(ws[j].id) # 4
        PROVE  Applied(reservoirs, ws) = reservoirs
    <2>1. \A j \in DOMAIN ws : ws[j].id \notin ReservoirIds
      BY <1>2, Ranks
    <2> QED BY <1>1, <2>1, AppliedNone
  <1>3. ASSUME \A j \in DOMAIN ws : Rank(ws[j].id) # 3 PROVE Applied(gates, ws) = gates
    <2>1. \A j \in DOMAIN ws : ws[j].id \notin GateIds
      BY <1>3, Ranks
    <2> QED BY <1>1, <2>1, AppliedNone
  <1>4. ASSUME \A j \in DOMAIN ws : Rank(ws[j].id) # 1
        PROVE  Applied(confirmations, ws) = confirmations
    <2>1. \A j \in DOMAIN ws : ws[j].id \notin ConfirmationIds
      BY <1>4, Ranks
    <2> QED BY <1>1, <2>1, AppliedNone
  <1> QED BY <1>2, <1>3, <1>4

\* What an update that went through has found, and what it leaves.
LEMMA UpdateHolds ==
  ASSUME NEW q, NEW w, NEW id, NEW exp, NEW old, NEW mid, w = Update(id, exp, old, mid),
         Holds(w, q), NEW row, row = [mid EXCEPT !.version = exp + 1]
  PROVE  /\ w.id = id /\ w.before = old.status /\ w.after = mid.status
         /\ row = Written(Row(w.id), w)
         /\ Row(id).live /\ Row(id).version = exp
         /\ q.op = "TransitionDirective" /\ id = q.id => EvidenceInsertable(Evidence(q))
  <1>1. /\ w.id = id /\ w.kind = "update" /\ w.row = row /\ w.exp = exp
        /\ w.before = old.status /\ w.after = mid.status
    BY WriteParts
  <1> QED BY <1>1, HoldsParts DEF Written

\* A commit of a directive's transition is CommitTransitionDirective.
LEMMA TransitionDirectiveCommits ==
  ASSUME Typed, NEW r \in Requests, NEW q, NEW ws, Commits(r, q, ws),
         q.op = "TransitionDirective"
  PROVE  CommitTransitionDirective(r)
  <1>1. /\ q = req[r] /\ Finish(r) /\ approvals' = approvals \cup Evidence(q)
        /\ q \in Request /\ Valid(q) /\ ws = Writes(q) /\ Ordered(ws)
        /\ \A i \in 1..Len(ws) : Holds(ws[i], q)
    BY DEF Commits
  <1>2. /\ reservoirs' = Applied(reservoirs, ws) /\ gates' = Applied(gates, ws)
        /\ directives' = Applied(directives, ws)
        /\ confirmations' = Applied(confirmations, ws) /\ audit' = AuditApplied(ws)
    BY DEF Commits
  <1>3. PICK target : target = GateTarget(q.dir, q.gate, q.to)
    OBVIOUS
  <1>4. PICK mid : mid = Transitioned(q)
    OBVIOUS
  <1>5. PICK a : a = Update(q.id, q.exp, q.dir, mid)
    OBVIOUS
  <1>6. PICK moved : moved = [q.gate EXCEPT !.status = target]
    OBVIOUS
  <1>7. PICK b : b = Update(q.dir.gate, q.gate.version, q.gate, moved)
    OBVIOUS
  <1>8. /\ ~MovesGate(q.gate, target) => ws = <<a>>
        /\ MovesGate(q.gate, target) => ws = <<a, b>>
        /\ q.id \in DirectiveIds /\ q.dir \in PresentDirective /\ q.dir.gate \in GateIds
    BY <1>1, <1>3, <1>4, <1>5, <1>6, <1>7, TransitionWrites
  <1>9. PICK row : row = [mid EXCEPT !.version = q.exp + 1]
    OBVIOUS
  <1>10. 1 \in DOMAIN ws /\ ws[1] = a /\ Holds(a, q)
    <2>1. 1 \in DOMAIN ws /\ ws[1] = a /\ 1 \in 1..Len(ws)
      BY <1>8
    <2> QED BY <1>1, <2>1
  <1>11. /\ a.id = q.id /\ a.before = q.dir.status /\ a.after = mid.status
         /\ row = Written(Row(a.id), a) /\ Row(q.id).live /\ Row(q.id).version = q.exp
         /\ EvidenceInsertable(Evidence(q))
    BY <1>5, <1>9, <1>10, UpdateHolds
  <1>12. mid.status = q.to
    BY <1>4, <1>8 DEF Transitioned, PresentDirective
  <1>13. Current(directives, q.id, q.exp)
    BY <1>8, <1>11, RowOf DEF Current
  <1>14. directives' = Write(directives, q.id, q.exp, mid)
    <2>1. Applied(directives, ws) = [directives EXCEPT ![a.id] = row]
      BY <1>1, <1>8, <1>10, <1>11, TablesAt
    <2> QED BY <1>2, <1>9, <1>11, <2>1 DEF Write
  <1>15. Rank(a.id) = 2 /\ a.id \in EntityIds
    BY <1>8, <1>11, Ranks DEF EntityIds
  <1>16. PICK trail : trail = Logged(audit, q.id, q.dir.status, q.to)
    OBVIOUS
  <1>17. trail = Logged(audit, a.id, a.before, a.after)
    BY <1>11, <1>12, <1>16
  <1>18. CASE ~MovesGate(q.gate, target)
    <2>1. DOMAIN ws = {1} /\ ws = <<a>>
      BY <1>8, <1>18
    <2>2. \A j \in DOMAIN ws : Rank(ws[j].id) = 2
      BY <1>10, <1>15, <2>1
    <2>3. /\ reservoirs' = reservoirs /\ gates' = gates /\ confirmations' = confirmations
      BY <1>2, <2>2, TablesNone
    <2>4. audit' = trail
      BY <1>2, <1>15, <1>17, <2>1, AuditOne
    <2> QED BY <1>1, <1>3, <1>4, <1>11, <1>13, <1>14, <1>16, <1>18, <2>3, <2>4
            DEF CommitTransitionDirective, InFlight
  <1>19. CASE MovesGate(q.gate, target)
    <2>1. ws = <<a, b>>
      BY <1>8, <1>19
    <2>2. DOMAIN ws = {1, 2} /\ ws = <<a, b>> /\ ws[2] = b /\ 2 \in 1..Len(ws)
      BY <2>1
    <2>3. PICK set : set = [moved EXCEPT !.version = q.gate.version + 1]
      OBVIOUS
    <2>4. /\ b.id = q.dir.gate /\ b.before = q.gate.status /\ b.after = moved.status
          /\ set = Written(Row(b.id), b)
          /\ Row(q.dir.gate).live /\ Row(q.dir.gate).version = q.gate.version
      BY <1>1, <1>7, <2>2, <2>3, UpdateHolds
    <2>5. Rank(b.id) = 3 /\ b.id \in EntityIds
      BY <1>8, <2>4, Ranks DEF EntityIds
    <2>6. \A j \in DOMAIN ws : Rank(ws[j].id) \in {2, 3}
      BY <1>10, <1>15, <2>2, <2>5
    <2>7. reservoirs' = reservoirs /\ confirmations' = confirmations
      BY <1>2, <2>6, TablesNone
    <2>8. Applied(gates, ws) = [gates EXCEPT ![b.id] = set]
      BY <1>1, <1>8, <2>2, <2>4, TablesAt
    <2>9. gates' = Write(gates, q.dir.gate, q.gate.version, moved)
      BY <1>2, <2>3, <2>4, <2>8 DEF Write
    <2>10. Current(gates, q.dir.gate, q.gate.version)
      BY <1>8, <2>4, RowOf DEF Current
    <2>11. moved.status = target
      <3>1. q.gate.live
        BY <1>1, <1>3, <1>19 DEF Valid, DirectiveValid
      <3>2. q.gate \in PresentGate
        BY <1>1, <3>1, LiveRows DEF Request
      <3> QED BY <1>6, <3>2 DEF PresentGate
    <2>12. a.id # b.id
      BY <1>15, <2>5
    <2>13. audit' = Logged(trail, b.id, b.before, b.after)
      BY <1>2, <1>15, <1>17, <2>2, <2>5, <2>12, AuditTwo
    <2>14. audit' = Logged(trail, q.dir.gate, q.gate.status, target)
      BY <2>4, <2>11, <2>13
    <2> QED BY <1>1, <1>3, <1>4, <1>6, <1>11, <1>13, <1>14, <1>16, <1>19,
               <2>7, <2>9, <2>10, <2>14
            DEF CommitTransitionDirective, InFlight
  <1> QED BY <1>18, <1>19

\* A commit of a receipt's outcome is CommitOutcome.
LEMMA OutcomeCommits ==
  ASSUME Typed, NEW r \in Requests, NEW q, NEW ws, Commits(r, q, ws),
         q.op = "TransitionConfirmation", q.conf.status = "pending"
  PROVE  CommitOutcome(r)
  <1>1. /\ q = req[r] /\ Finish(r) /\ approvals' = approvals
        /\ q \in Request /\ Valid(q) /\ ws = Writes(q) /\ Ordered(ws)
        /\ \A i \in 1..Len(ws) : Holds(ws[i], q)
    BY DEF Commits
  <1>2. /\ reservoirs' = Applied(reservoirs, ws) /\ gates' = Applied(gates, ws)
        /\ directives' = Applied(directives, ws)
        /\ confirmations' = Applied(confirmations, ws) /\ audit' = AuditApplied(ws)
    BY DEF Commits
  <1>3. PICK target : target = GateOutcome(q.dir, q.to)
    OBVIOUS
  <1>4. PICK outcome : outcome = DirectiveOutcome(q.to)
    OBVIOUS
  <1>5. PICK settled : settled = [q.conf EXCEPT !.status = q.to]
    OBVIOUS
  <1>6. PICK a : a = Update(q.id, q.exp, q.conf, settled)
    OBVIOUS
  <1>7. PICK ended : ended = [q.dir EXCEPT !.status = outcome]
    OBVIOUS
  <1>8. PICK b : b = Update(q.conf.directive, q.dir.version, q.dir, ended)
    OBVIOUS
  <1>9. PICK moved : moved = [q.gate EXCEPT !.status = target]
    OBVIOUS
  <1>10. PICK c : c = Update(q.dir.gate, q.gate.version, q.gate, moved)
    OBVIOUS
  <1>11. /\ ~MovesGate(q.gate, target) => ws = <<a, b>>
         /\ MovesGate(q.gate, target) => ws = <<a, b, c>>
         /\ q.id \in ConfirmationIds /\ q.conf \in PresentConfirmation
         /\ q.dir \in PresentDirective
         /\ q.conf.directive \in DirectiveIds /\ q.dir.gate \in GateIds
    BY <1>1, <1>3, <1>4, <1>5, <1>6, <1>7, <1>8, <1>9, <1>10, OutcomeWritesOf
  <1>12. MovesGate(q.gate, target) <=> q.gate.status # target
    <2>1. target # None
      BY <1>3, <1>11, TargetsAssumption, NoneAssumption
      DEF GateOutcome, PresentDirective, Statuses, GateStates
    <2> QED BY <2>1 DEF MovesGate
  <1>13. PICK first : first = [settled EXCEPT !.version = q.exp + 1]
    OBVIOUS
  <1>14. PICK second : second = [ended EXCEPT !.version = q.dir.version + 1]
    OBVIOUS
  <1>15. /\ 1 \in DOMAIN ws /\ ws[1] = a /\ Holds(a, q)
         /\ 2 \in DOMAIN ws /\ ws[2] = b /\ Holds(b, q)
    <2>1. CASE ws = <<a, b>>
      <3>1. 1 \in DOMAIN ws /\ 2 \in DOMAIN ws /\ 1 \in 1..Len(ws) /\ 2 \in 1..Len(ws)
            /\ ws[1] = a /\ ws[2] = b
        BY <2>1
      <3> QED BY <1>1, <3>1
    <2>2. CASE ws = <<a, b, c>>
      <3>1. 1 \in DOMAIN ws /\ 2 \in DOMAIN ws /\ 1 \in 1..Len(ws) /\ 2 \in 1..Len(ws)
            /\ ws[1] = a /\ ws[2] = b
        BY <2>2
      <3> QED BY <1>1, <3>1
    <2> QED BY <1>11, <2>1, <2>2
  <1>16. /\ a.id = q.id /\ a.before = q.conf.status /\ a.after = settled.status
         /\ first = Written(Row(a.id), a) /\ Row(q.id).live /\ Row(q.id).version = q.exp
    BY <1>6, <1>13, <1>15, UpdateHolds
  <1>17. /\ b.id = q.conf.directive /\ b.before = q.dir.status /\ b.after = ended.status
         /\ second = Written(Row(b.id), b)
         /\ Row(q.conf.directive).live /\ Row(q.conf.directive).version = q.dir.version
    BY <1>8, <1>14, <1>15, UpdateHolds
  <1>18. settled.status = q.to /\ ended.status = outcome
    BY <1>5, <1>7, <1>11 DEF PresentConfirmation, PresentDirective
  <1>19. Current(confirmations, q.id, q.exp)
    BY <1>11, <1>16, RowOf DEF Current
  <1>20. Current(directives, q.conf.directive, q.dir.version)
    BY <1>11, <1>17, RowOf DEF Current
  <1>21. confirmations' = Write(confirmations, q.id, q.exp, settled)
    <2>1. Applied(confirmations, ws) = [confirmations EXCEPT ![a.id] = first]
      BY <1>1, <1>11, <1>15, <1>16, TablesAt
    <2> QED BY <1>2, <1>13, <1>16, <2>1 DEF Write
  <1>22. directives' = Write(directives, q.conf.directive, q.dir.version, ended)
    <2>1. Applied(directives, ws) = [directives EXCEPT ![b.id] = second]
      BY <1>1, <1>11, <1>15, <1>17, TablesAt
    <2> QED BY <1>2, <1>14, <1>17, <2>1 DEF Write
  <1>23. Rank(a.id) = 1 /\ Rank(b.id) = 2 /\ a.id \in EntityIds /\ b.id \in EntityIds
    BY <1>11, <1>16, <1>17, Ranks DEF EntityIds
  <1>24. PICK opened : opened = Logged(audit, q.id, q.conf.status, q.to)
    OBVIOUS
  <1>25. PICK trail : trail = Logged(opened, q.conf.directive, q.dir.status, outcome)
    OBVIOUS
  <1>26. /\ opened = Logged(audit, a.id, a.before, a.after)
         /\ trail = Logged(opened, b.id, b.before, b.after)
    BY <1>16, <1>17, <1>18, <1>24, <1>25
  <1>27. a.id # b.id
    BY <1>23
  <1>28. CASE ~MovesGate(q.gate, target)
    <2>1. ws = <<a, b>>
      BY <1>11, <1>28
    <2>2. DOMAIN ws = {1, 2}
      BY <2>1
    <2>3. \A j \in DOMAIN ws : Rank(ws[j].id) \in {1, 2}
      BY <1>15, <1>23, <2>2
    <2>4. reservoirs' = reservoirs /\ gates' = gates
      BY <1>2, <2>3, TablesNone
    <2>5. audit' = trail
      BY <1>2, <1>23, <1>26, <1>27, <2>1, AuditTwo
    <2> QED BY <1>1, <1>3, <1>4, <1>5, <1>7, <1>12, <1>19, <1>20, <1>21, <1>22, <1>24,
               <1>25, <1>28, <2>4, <2>5
            DEF CommitOutcome, InFlight
  <1>29. CASE MovesGate(q.gate, target)
    <2>1. ws = <<a, b, c>>
      BY <1>11, <1>29
    <2>2. DOMAIN ws = {1, 2, 3} /\ ws[3] = c /\ 3 \in 1..Len(ws)
      BY <2>1
    <2>3. PICK set : set = [moved EXCEPT !.version = q.gate.version + 1]
      OBVIOUS
    <2>4. /\ c.id = q.dir.gate /\ c.before = q.gate.status /\ c.after = moved.status
          /\ set = Written(Row(c.id), c)
          /\ Row(q.dir.gate).live /\ Row(q.dir.gate).version = q.gate.version
      BY <1>1, <1>10, <2>2, <2>3, UpdateHolds
    <2>5. Rank(c.id) = 3 /\ c.id \in EntityIds
      BY <1>11, <2>4, Ranks DEF EntityIds
    <2>6. \A j \in DOMAIN ws : Rank(ws[j].id) \in {1, 2, 3}
      BY <1>15, <1>23, <2>2, <2>5
    <2>7. reservoirs' = reservoirs
      BY <1>2, <2>6, TablesNone
    <2>8. Applied(gates, ws) = [gates EXCEPT ![c.id] = set]
      BY <1>1, <1>11, <2>2, <2>4, TablesAt
    <2>9. gates' = Write(gates, q.dir.gate, q.gate.version, moved)
      BY <1>2, <2>3, <2>4, <2>8 DEF Write
    <2>10. Current(gates, q.dir.gate, q.gate.version)
      BY <1>11, <2>4, RowOf DEF Current
    <2>11. moved.status = target
      <3>1. q.gate.live
        BY <1>1 DEF Valid, ConfirmationValid
      <3>2. q.gate \in PresentGate
        BY <1>1, <3>1, LiveRows DEF Request
      <3> QED BY <1>9, <3>2 DEF PresentGate
    <2>12. a.id # c.id /\ b.id # c.id
      BY <1>23, <2>5
    <2>13. audit' = Logged(trail, c.id, c.before, c.after)
      BY <1>2, <1>23, <1>26, <1>27, <2>1, <2>5, <2>12, AuditThree
    <2>14. audit' = Logged(trail, q.dir.gate, q.gate.status, target)
      BY <2>4, <2>11, <2>13
    <2> QED BY <1>1, <1>3, <1>4, <1>5, <1>7, <1>9, <1>12, <1>19, <1>20, <1>21, <1>22,
               <1>24, <1>25, <1>29, <2>7, <2>9, <2>10, <2>14
            DEF CommitOutcome, InFlight
  <1> QED BY <1>28, <1>29

\* Every commit that finds its rows as it wrote them is a service's commit.
LEMMA CommitsServe ==
  ASSUME Typed, NEW r \in Requests, NEW q, NEW ws, Commits(r, q, ws)
  PROVE  ServiceCommit(r)
  <1>1. q.op \in AllOperations
    BY DEF Commits, Request
  <1> QED BY <1>1, CreateReservoirCommits, UpdateReservoirCommits,
             TransitionReservoirCommits, DeleteReservoirCommits,
             CreateGateCommits, UpdateGateCommits, TransitionGateCommits,
             DeleteGateCommits, CreateDirectiveCommits, UpdateDirectiveCommits,
             TransitionDirectiveCommits, DeleteDirectiveCommits,
             CreateConfirmationCommits, UpdateConfirmationCommits, OutcomeCommits,
             CancelCommits, DeleteConfirmationCommits
          DEF AllOperations, ServiceCommit

-----------------------------------------------------------------------------
(* Locks keep what a transaction has found. *)

\* No lock has two holders.
LocksApart ==
  \A r, s \in Requests : r # s => LocksHeldBy(r) \cap LocksHeldBy(s) = {}

\* The locks of the rows ws.
LocksOf(ws) == UNION {Locks(ws[i]) : i \in DOMAIN ws}

\* Locks are taken one statement after the other.
LEMMA LocksTaken ==
  /\ LocksOf(<<>>) = {}
  /\ \A ws, k : k \in Nat =>
       LocksOf(Done(ws, k + 1)) = LocksOf(Done(ws, k)) \cup Locks(ws[k + 1])
  /\ \A r : LocksHeldBy(r) = LocksOf(made[r]) /\ LocksHeldBy(r)' = LocksOf(made'[r])
  <1>1. LocksOf(<<>>) = {}
    BY DEF LocksOf
  <1>2. ASSUME NEW ws, NEW k \in Nat
        PROVE  LocksOf(Done(ws, k + 1)) = LocksOf(Done(ws, k)) \cup Locks(ws[k + 1])
    <2>1. DOMAIN Done(ws, k) = 1..k /\ DOMAIN Done(ws, k + 1) = 1..(k + 1)
      BY DEF Done
    <2>2. /\ \A i \in 1..k : Done(ws, k)[i] = ws[i]
          /\ \A i \in 1..(k + 1) : Done(ws, k + 1)[i] = ws[i]
      BY DEF Done
    <2>3. 1..(k + 1) = (1..k) \cup {k + 1}
      OBVIOUS
    <2> QED BY <2>1, <2>2, <2>3 DEF LocksOf
  <1>3. \A r : LocksHeldBy(r) = LocksOf(made[r]) /\ LocksHeldBy(r)' = LocksOf(made'[r])
    BY DEF LocksHeldBy, LocksOf
  <1> QED BY <1>1, <1>2, <1>3

\* Locks that are kept or given back stay apart.
LEMMA FewerLocks ==
  ASSUME LocksApart, \A s \in Requests : made'[s] = made[s] \/ made'[s] = <<>>
  PROVE  LocksApart'
  <1>1. \A s \in Requests : LocksHeldBy(s)' = LocksHeldBy(s) \/ LocksHeldBy(s)' = {}
    BY LocksTaken
  <1>2. ASSUME NEW r \in Requests, NEW s \in Requests, r # s
        PROVE  LocksHeldBy(r)' \cap LocksHeldBy(s)' = {}
    <2>1. LocksHeldBy(r) \cap LocksHeldBy(s) = {}
      BY <1>2 DEF LocksApart
    <2> QED BY <1>1, <2>1
  <1> QED BY <1>2 DEF LocksApart

\* A statement that succeeds moves one row from todo to made.
LEMMA ExecuteMakes ==
  ASSUME Sound, Progress, NEW r \in Requests, Execute(r)
  PROVE  \E ws : \E k \in Nat :
           /\ made[r] = Done(ws, k) /\ made' = [made EXCEPT ![r] = Done(ws, k + 1)]
           /\ Head(todo[r]) = ws[k + 1] /\ Holds(ws[k + 1], req[r])
  <1>1. /\ todo[r] # <<>> /\ Holds(Head(todo[r]), req[r])
        /\ made' = [made EXCEPT ![r] = Append(made[r], Head(todo[r]))]
    BY DEF Execute
  <1>2. req[r].op # "idle"
    BY <1>1 DEF Progress, Going
  <1>3. PICK ws : ws = Writes(req[r])
    OBVIOUS
  <1>4. PICK k \in 0..Len(ws) :
          /\ made[r] = Done(ws, k) /\ todo[r] = Left(ws, k)
          /\ k + 1 \in 1..Len(ws) /\ Head(todo[r]) = ws[k + 1]
    BY <1>1, <1>2, <1>3, GoingParts
  <1>5. PICK S : ws \in Seq(S)
    BY <1>2, <1>3, InFlightSound, WritesShape DEF Sound, Ordered
  <1>6. Append(made[r], Head(todo[r])) = Done(ws, k + 1)
    BY <1>1, <1>4, <1>5, MoveOn
  <1>7. k \in Nat
    BY <1>5
  <1> QED BY <1>1, <1>4, <1>6, <1>7

\* It finds its locks free.
LEMMA ExecuteApart ==
  ASSUME Sound, Progress, LocksApart, NEW r \in Requests, Execute(r)
  PROVE  LocksApart'
  <1>1. PICK ws : \E k \in Nat :
          /\ made[r] = Done(ws, k) /\ made' = [made EXCEPT ![r] = Done(ws, k + 1)]
          /\ Head(todo[r]) = ws[k + 1] /\ Holds(ws[k + 1], req[r])
    BY ExecuteMakes
  <1>2. PICK k \in Nat :
          /\ made[r] = Done(ws, k) /\ made' = [made EXCEPT ![r] = Done(ws, k + 1)]
          /\ Head(todo[r]) = ws[k + 1] /\ Holds(ws[k + 1], req[r])
    BY <1>1
  <1>3. DOMAIN made = Requests
    BY DEF Progress
  <1>4. LocksHeldBy(r)' = LocksHeldBy(r) \cup Locks(ws[k + 1])
    <2>1. made'[r] = Done(ws, k + 1)
      BY <1>2, <1>3
    <2> QED BY <1>2, <2>1, LocksTaken
  <1>5. ASSUME NEW s \in Requests, s # r
        PROVE  LocksHeldBy(s)' = LocksHeldBy(s) /\ Locks(ws[k + 1]) \cap LocksHeldBy(s) = {}
    <2>1. made'[s] = made[s]
      BY <1>2, <1>3, <1>5
    <2>2. ~WaitsFor(r, s) /\ todo[r] # <<>>
      BY DEF Execute
    <2>3. made[s] = <<>> \/ Locks(ws[k + 1]) \cap LocksHeldBy(s) = {}
      BY <1>2, <1>5, <2>2 DEF WaitsFor
    <2> QED BY <2>1, <2>3, LocksTaken
  <1>6. ASSUME NEW t \in Requests, NEW s \in Requests, t # s
        PROVE  LocksHeldBy(t)' \cap LocksHeldBy(s)' = {}
    <2>1. LocksHeldBy(t) \cap LocksHeldBy(s) = {}
      BY <1>6 DEF LocksApart
    <2>2. CASE t = r
      BY <1>4, <1>5, <1>6, <2>1, <2>2
    <2>3. CASE s = r
      BY <1>4, <1>5, <1>6, <2>1, <2>3
    <2>4. CASE t # r /\ s # r
      BY <1>5, <2>1, <2>4
    <2> QED BY <2>2, <2>3, <2>4
  <1> QED BY <1>6 DEF LocksApart

\* Nothing changes for the statements of a transaction while the tables do not.
LEMMA QuietHolds ==
  ASSUME Quiet, NEW w, NEW q, Holds(w, q)
  PROVE  Holds(w, q)'
  <1>1. Row(w.id)' = Row(w.id)
    BY DEF Row, Quiet
  <1>2. \A d : LinkUnused(d)' = LinkUnused(d)
    BY DEF LinkUnused, Quiet
  <1>3. EvidenceInsertable(Evidence(q))' = EvidenceInsertable(Evidence(q))
    BY DEF EvidenceInsertable, Evidence, Quiet
  <1> QED BY <1>1, <1>2, <1>3 DEF Holds

\* The statements of transactions that go on or end.
LEMMA QuietRowsStay ==
  ASSUME WrittenRowsStay, Quiet,
         \A s \in Requests : made'[s] = <<>> \/ (made'[s] = made[s] /\ req'[s] = req[s])
  PROVE  WrittenRowsStay'
  <1>1. ASSUME NEW s \in Requests, NEW i \in DOMAIN made'[s]
        PROVE  Holds(made[s][i], req[s])'
    <2>1. made'[s] = made[s] /\ req'[s] = req[s]
      BY <1>1
    <2>2. PICK w, q : w = made[s][i] /\ q = req[s]
      OBVIOUS
    <2>3. Holds(w, q)
      BY <1>1, <2>1, <2>2 DEF WrittenRowsStay
    <2>4. Holds(w, q)'
      BY <2>3, QuietHolds
    <2>5. w = made'[s][i] /\ q = req'[s]
      BY <2>1, <2>2
    <2> QED BY <2>4, <2>5
  <1> QED BY <1>1 DEF WrittenRowsStay

\* The statement that has just succeeded, and those before.
LEMMA ExecuteRowsStay ==
  ASSUME Sound, Progress, WrittenRowsStay, NEW r \in Requests, Execute(r)
  PROVE  WrittenRowsStay'
  <1>1. PICK ws : \E k \in Nat :
          /\ made[r] = Done(ws, k) /\ made' = [made EXCEPT ![r] = Done(ws, k + 1)]
          /\ Head(todo[r]) = ws[k + 1] /\ Holds(ws[k + 1], req[r])
    BY ExecuteMakes
  <1>2. PICK k \in Nat :
          /\ made[r] = Done(ws, k) /\ made' = [made EXCEPT ![r] = Done(ws, k + 1)]
          /\ Head(todo[r]) = ws[k + 1] /\ Holds(ws[k + 1], req[r])
    BY <1>1
  <1>3. DOMAIN made = Requests
    BY DEF Progress
  <1>4. Quiet /\ req' = req
    BY DEF Execute, vars, Quiet
  <1>5. ASSUME NEW s \in Requests, NEW i \in DOMAIN made'[s]
        PROVE  Holds(made'[s][i], req[s])
    <2>1. CASE s # r
      <3>1. made'[s] = made[s]
        BY <1>2, <1>3, <2>1
      <3> QED BY <1>5, <3>1 DEF WrittenRowsStay
    <2>2. CASE s = r
      <3>1. made'[r] = Done(ws, k + 1)
        BY <1>2, <1>3
      <3>2. i \in 1..(k + 1) /\ made'[r][i] = ws[i]
        BY <1>5, <2>2, <3>1 DEF Done
      <3>3. CASE i = k + 1
        BY <1>2, <2>2, <3>2, <3>3
      <3>4. CASE i # k + 1
        <4>1. i \in 1..k
          BY <3>2, <3>4
        <4>2. i \in DOMAIN made[r] /\ made[r][i] = ws[i]
          BY <1>2, <4>1 DEF Done
        <4> QED BY <2>2, <3>2, <4>2 DEF WrittenRowsStay
      <3> QED BY <3>3, <3>4
    <2> QED BY <2>1, <2>2
  <1>6. ASSUME NEW s \in Requests, NEW i \in DOMAIN made'[s]
        PROVE  Holds(made[s][i], req[s])'
    <2>1. PICK w : w = made'[s][i]
      OBVIOUS
    <2>2. PICK q : q = req[s]
      OBVIOUS
    <2>3. Holds(w, q)
      BY <1>5, <1>6, <2>1, <2>2
    <2>4. Holds(w, q)'
      BY <1>4, <2>3, QuietHolds
    <2>5. q = req'[s]
      BY <1>4, <2>2
    <2> QED BY <2>1, <2>4, <2>5
  <1> QED BY <1>6 DEF WrittenRowsStay

\* A commit changes only the rows that it has written.
LEMMA OtherRows ==
  ASSUME NEW r \in Requests, NEW q, NEW ws, Commits(r, q, ws), Typed,
         NEW id \in EntityIds, \A j \in DOMAIN ws : ws[j].id # id
  PROVE  Row(id)' = Row(id)
  <1>1. /\ reservoirs' = Applied(reservoirs, ws) /\ gates' = Applied(gates, ws)
        /\ directives' = Applied(directives, ws)
        /\ confirmations' = Applied(confirmations, ws)
    BY DEF Commits
  <1>2. /\ DOMAIN reservoirs = ReservoirIds /\ DOMAIN gates = GateIds
        /\ DOMAIN directives = DirectiveIds /\ DOMAIN confirmations = ConfirmationIds
    BY DEF Typed, TypeOK
  <1>3. ASSUME NEW table, id \in DOMAIN table
        PROVE  Applied(table, ws)[id] = table[id]
    BY <1>3 DEF Applied
  <1>4. /\ id \in ReservoirIds => reservoirs'[id] = reservoirs[id]
        /\ id \in GateIds => gates'[id] = gates[id]
        /\ id \in DirectiveIds => directives'[id] = directives[id]
        /\ id \in ConfirmationIds => confirmations'[id] = confirmations[id]
    BY <1>1, <1>2, <1>3
  <1> QED BY <1>4, IdsAssumption DEF Row, EntityIds

\* Whoever commits, a receipt stays with its directive.
LEMMA LinksStay ==
  ASSUME Sound, NEW r \in Requests, ServiceCommit(r), req[r].op # "CreateConfirmation",
         NEW c \in ConfirmationIds
  PROVE  confirmations'[c].directive = confirmations[c].directive
  <1>1. PICK q : q = req[r]
    OBVIOUS
  <1>2. q \in Request /\ Valid(q)
    BY <1>1, InFlightSound DEF Sound
  <1>3. confirmations \in [ConfirmationIds -> ExecutionConfirmation]
    BY DEF Sound, Typed, TypeOK
  <1>4. ASSUME confirmations' = confirmations
        PROVE  confirmations'[c].directive = confirmations[c].directive
    BY <1>4
  <1>5. ASSUME q.id \in ConfirmationIds,
               NEW row, row.directive = confirmations[q.id].directive,
               confirmations' = [confirmations EXCEPT ![q.id] = row]
        PROVE  confirmations'[c].directive = confirmations[c].directive
    BY <1>3, <1>5
  <1>6. CASE CommitUpdateConfirmation(r)
    <2>1. /\ q.op = "UpdateConfirmation" /\ Current(confirmations, q.id, q.exp)
          /\ confirmations' = Write(confirmations, q.id, q.exp,
                                    [q.conf EXCEPT !.facility = q.plan.facility])
      BY <1>1, <1>6 DEF CommitUpdateConfirmation, InFlight
    <2>2. /\ q.id \in ConfirmationIds /\ q.conf.live /\ q.plan.facility \in Facilities
          /\ q.exp \in Nat
      BY <1>2, <2>1 DEF Valid, ConfirmationValid, Request
    <2>3. confirmations[q.id] = q.conf /\ q.conf \in PresentConfirmation
      BY <1>1, <1>2, <2>1, <2>2, Fresh, LiveRows DEF Sound, Request
    <2>4. PICK mid : mid = [q.conf EXCEPT !.facility = q.plan.facility]
      OBVIOUS
    <2>5. PICK row : row = [mid EXCEPT !.version = q.exp + 1]
      OBVIOUS
    <2>6. mid \in PresentConfirmation /\ mid.directive = q.conf.directive
      BY <2>2, <2>3, <2>4, ConfirmationFields
    <2>7. row.directive = q.conf.directive
      BY <2>2, <2>5, <2>6, ConfirmationFields
    <2>8. confirmations' = Write(confirmations, q.id, q.exp, mid)
      BY <2>1, <2>4
    <2>9. confirmations' = [confirmations EXCEPT ![q.id] = row]
      BY <2>5, <2>8, WrittenRow
    <2> QED BY <1>5, <2>2, <2>3, <2>7, <2>9
  <1>7. CASE CommitOutcome(r) \/ CommitCancel(r)
    <2>1. /\ q.op = "TransitionConfirmation" /\ Current(confirmations, q.id, q.exp)
          /\ confirmations' = Write(confirmations, q.id, q.exp,
                                    [q.conf EXCEPT !.status = q.to])
      BY <1>1, <1>7 DEF CommitOutcome, CommitCancel, InFlight
    <2>2. /\ q.id \in ConfirmationIds /\ q.conf.live /\ q.exp \in Nat
          /\ CanTransition(ExecutionConfirmationTransitions, q.conf.status, q.to)
      BY <1>2, <2>1 DEF Valid, ConfirmationValid, Request
    <2>3. confirmations[q.id] = q.conf /\ q.conf \in PresentConfirmation
      BY <1>1, <1>2, <2>1, <2>2, Fresh, LiveRows DEF Sound, Request
    <2>4. PICK mid : mid = [q.conf EXCEPT !.status = q.to]
      OBVIOUS
    <2>5. PICK row : row = [mid EXCEPT !.version = q.exp + 1]
      OBVIOUS
    <2>6. q.to \in ConfirmationStates
      BY <2>2 DEF CanTransition, ExecutionConfirmationTransitions, ConfirmationStates
    <2>7. mid \in PresentConfirmation /\ mid.directive = q.conf.directive
      BY <2>2, <2>3, <2>4, <2>6, ConfirmationFields
    <2>8. row.directive = q.conf.directive
      BY <2>2, <2>5, <2>7, ConfirmationFields
    <2>9. confirmations' = Write(confirmations, q.id, q.exp, mid)
      BY <2>1, <2>4
    <2>10. confirmations' = [confirmations EXCEPT ![q.id] = row]
      BY <2>5, <2>9, WrittenRow
    <2> QED BY <1>5, <2>2, <2>3, <2>8, <2>10
  <1>8. CASE CommitDeleteConfirmation(r)
    <2>1. q.op = "DeleteConfirmation" /\ confirmations' = SoftDelete(confirmations, q.id)
      BY <1>1, <1>8 DEF CommitDeleteConfirmation, InFlight
    <2>2. q.id \in ConfirmationIds /\ Live(confirmations, q.id)
      BY <1>1, <1>2, <1>8, <2>1 DEF Valid, ConfirmationValid, CommitDeleteConfirmation
    <2>3. confirmations[q.id] \in PresentConfirmation
      BY <1>3, <2>2, LiveRows DEF Live
    <2>4. PICK row : row = [confirmations[q.id] EXCEPT !.live = FALSE]
      OBVIOUS
    <2>5. row.directive = confirmations[q.id].directive
      BY <2>3, <2>4, ConfirmationFields
    <2>6. confirmations' = [confirmations EXCEPT ![q.id] = row]
      BY <2>1, <2>4 DEF SoftDelete
    <2> QED BY <1>5, <2>2, <2>5, <2>6
  <1>9. CASE confirmations' = confirmations
    BY <1>4, <1>9
  <1>10. ~CommitCreateConfirmation(r)
    BY DEF CommitCreateConfirmation, InFlight
  <1> QED BY <1>6, <1>7, <1>8, <1>9, <1>10
    DEF ServiceCommit, CommitCreateReservoir, CommitUpdateReservoir,
        CommitTransitionReservoir, CommitDeleteReservoir, CommitCreateGate,
        CommitUpdateGate, CommitTransitionGate, CommitDeleteGate, CommitCreateDirective,
        CommitUpdateDirective, CommitTransitionDirective, CommitDeleteDirective

\* A statement of another transaction would still go through after a commit.
LEMMA CommitKeepsHolds ==
  ASSUME Sound, NEW r \in Requests, NEW q, NEW ws, Commits(r, q, ws),
         NEW w, NEW p, Holds(w, p), w.id \in EntityIds, w.kind \in Kinds,
         Locks(w) \cap LocksOf(ws) = {}
  PROVE  Holds(w, p)'
  <1>1. /\ q = req[r] /\ q \in Request /\ Valid(q) /\ q.op # "idle" /\ ws = Writes(q)
        /\ approvals' =
             approvals \cup (IF q.op = "TransitionDirective" THEN Evidence(q) ELSE {})
        /\ Ordered(ws)
    BY DEF Commits
  <1>2. ASSUME NEW j \in DOMAIN ws
        PROVE  ws[j].id # w.id /\ Locks(ws[j]) \cap Locks(w) = {}
    <2>1. Locks(ws[j]) \cap Locks(w) = {}
      BY DEF LocksOf
    <2>2. <<"row", w.id>> \in Locks(w) /\ <<"row", ws[j].id>> \in Locks(ws[j])
      BY DEF Locks
    <2> QED BY <2>1, <2>2
  <1>3. Row(w.id)' = Row(w.id)
    BY <1>2, OtherRows DEF Sound
  <1>4. 1 \in DOMAIN ws /\ ws[1].id = q.id
    BY <1>1, WritesShape DEF Ordered
  <1>5. ASSUME w.id \in ConfirmationIds, w.kind = "insert", LinkUnused(w.row.directive)
        PROVE  LinkUnused(w.row.directive)'
    <2>1. PICK d : d = w.row.directive
      OBVIOUS
    <2>2. ASSUME NEW c \in ConfirmationIds PROVE confirmations'[c].directive # d
      <3>1. confirmations[c].directive # d
        BY <1>5, <2>1 DEF LinkUnused
      <3>2. CASE q.op # "CreateConfirmation"
        <4>1. ServiceCommit(r)
          BY CommitsServe DEF Sound
        <4>2. confirmations'[c].directive = confirmations[c].directive
          BY <1>1, <3>2, <4>1, LinksStay
        <4> QED BY <3>1, <4>2
      <3>3. CASE q.op = "CreateConfirmation"
        <4>1. PICK row : row = NewConfirmation(q)
          OBVIOUS
        <4>2. PICK x : x = Insertion(q.id, row)
          OBVIOUS
        <4>3. Writes(q) = <<Insertion(q.id, NewConfirmation(q))>>
          BY <3>3, SingleWrites
        <4>4. ws = <<x>> /\ ws[1] = x
          BY <1>1, <4>1, <4>2, <4>3
        <4>5. x.id = q.id /\ x.kind = "insert" /\ x.row = row /\ q.id \in ConfirmationIds
          BY <1>1, <3>3, <4>2, WriteParts DEF Valid, ConfirmationValid
        <4>6. <<"receipt of", row.directive>> \in Locks(x)
          BY <4>5 DEF Locks
        <4>7. <<"receipt of", d>> \in Locks(w)
          BY <1>5, <2>1 DEF Locks
        <4>8. Locks(x) \cap Locks(w) = {}
          BY <1>2, <1>4, <4>4
        <4>9. row.directive # d
          BY <4>6, <4>7, <4>8
        <4>10. Changes(q.id, row)
          BY <4>2, <4>4, CommitsInsertion DEF Sound
        <4>11. confirmations' = [confirmations EXCEPT ![q.id] = row]
          BY <4>5, <4>10 DEF Changes
        <4>12. DOMAIN confirmations = ConfirmationIds
          BY DEF Sound, Typed, TypeOK
        <4> QED BY <3>1, <4>5, <4>9, <4>11, <4>12
      <3> QED BY <3>2, <3>3
    <2> QED BY <2>1, <2>2 DEF LinkUnused
  <1>6. ASSUME w.id = p.id, EvidenceInsertable(Evidence(p))
        PROVE  EvidenceInsertable(Evidence(p))'
    <2>1. q.id # p.id
      BY <1>2, <1>4, <1>6
    <2>2. /\ \A o \in Evidence(q) : o.directive = q.id
          /\ \A o \in Evidence(p) : o.directive = p.id
      BY DEF Evidence
    <2>3. \A o \in approvals' : o \in approvals \/ o \in Evidence(q)
      BY <1>1
    <2>4. PICK rows : rows = Evidence(p)
      OBVIOUS
    <2>5. \A x \in rows, o \in approvals' :
            <<x.directive, x.stage>> # <<o.directive, o.stage>>
      BY <1>6, <2>1, <2>2, <2>3, <2>4 DEF EvidenceInsertable
    <2> QED BY <2>4, <2>5 DEF EvidenceInsertable, Evidence
  <1> QED BY <1>3, <1>5, <1>6 DEF Holds, Kinds

\* So what the others have found stays found when one commits.
LEMMA CommitRowsStay ==
  ASSUME Sound, Progress, LocksApart, WrittenRowsStay, NEW r \in Requests, Commit(r)
  PROVE  WrittenRowsStay'
  <1>1. PICK q : q = req[r]
    OBVIOUS
  <1>2. PICK ws : ws = Writes(q)
    OBVIOUS
  <1>3. Commits(r, q, ws)
    BY <1>1, <1>2, CommitParts
  <1>4. made[r] = ws
    <2>1. req[r].op # "idle" /\ todo[r] = <<>>
      BY DEF Commit, InTransaction
    <2> QED BY <1>1, <1>2, <2>1, GoingParts
  <1>5. DOMAIN made = Requests /\ DOMAIN req = Requests
    BY DEF Progress, Sound, Typed, TypeOK
  <1>6. ASSUME NEW s \in Requests, NEW i \in DOMAIN made'[s]
        PROVE  Holds(made[s][i], req[s])'
    <2>1. s # r
      <3>1. made'[r] = <<>>
        BY <1>5 DEF Commit, End
      <3> QED BY <1>6, <3>1
    <2>2. made'[s] = made[s] /\ req'[s] = req[s]
      BY <1>5, <2>1 DEF Commit, End, Finish
    <2>3. PICK w : w = made[s][i]
      OBVIOUS
    <2>4. PICK p : p = req[s]
      OBVIOUS
    <2>5. i \in DOMAIN made[s] /\ Holds(w, p)
      BY <1>6, <2>2, <2>3, <2>4 DEF WrittenRowsStay
    <2>6. w.id \in EntityIds /\ w.kind \in Kinds
      <3>1. req[s].op # "idle"
        BY <2>5 DEF Progress, Going
      <3>2. PICK vs : vs = Writes(req[s])
        OBVIOUS
      <3>3. PICK k \in 0..Len(vs) :
              /\ DOMAIN made[s] = 1..k
              /\ \A j \in 1..k : made[s][j] = vs[j]
        BY <3>1, <3>2, GoingParts
      <3>4. Ordered(vs) /\ \A j \in 1..Len(vs) : vs[j].kind \in Kinds
        BY <3>1, <3>2, InFlightSound, WritesShape DEF Sound
      <3>5. i \in 1..Len(vs) /\ w = vs[i]
        BY <2>3, <2>5, <3>3, <3>4 DEF Ordered
      <3> QED BY <3>4, <3>5 DEF Ordered
    <2>7. Locks(w) \cap LocksOf(ws) = {}
      <3>1. LocksHeldBy(s) \cap LocksHeldBy(r) = {}
        BY <2>1 DEF LocksApart
      <3>2. Locks(w) \subseteq LocksHeldBy(s)
        BY <2>3, <2>5 DEF LocksHeldBy
      <3>3. LocksHeldBy(r) = LocksOf(ws)
        BY <1>4, LocksTaken
      <3> QED BY <3>1, <3>2, <3>3
    <2>8. Holds(w, p)'
      BY <1>3, <2>5, <2>6, <2>7, CommitKeepsHolds
    <2>9. w = made'[s][i] /\ p = req'[s]
      BY <2>2, <2>3, <2>4
    <2> QED BY <2>8, <2>9
  <1> QED BY <1>6 DEF WrittenRowsStay

-----------------------------------------------------------------------------
(* The theorems. *)

\* The inductive invariant: what DispatchControl's requests know of the database
\* is right, the transactions are where their statements have brought them, and
\* their locks have kept for them what they found.
TInv == Sound /\ Progress /\ LocksApart /\ WrittenRowsStay

\* Before any request.
LEMMA InitTInv == TInit => TInv
  <1> SUFFICES ASSUME TInit PROVE TInv
    OBVIOUS
  <1>1. Init /\ \A r \in Requests : req[r] = Idle /\ todo[r] = <<>> /\ made[r] = <<>>
    BY DEF TInit, Init
  <1>2. Sound
    <2>1. AllPlansSound
      BY <1>1 DEF AllPlansSound, PlanSound, Idle
    <2> QED BY <1>1, <2>1, InitTyped, InitFaithful DEF Sound
  <1>3. Progress
    BY <1>1 DEF TInit, Progress, Going, Idle
  <1>4. LocksApart
    BY <1>1, LocksTaken DEF LocksApart
  <1>5. WrittenRowsStay
    BY <1>1 DEF WrittenRowsStay
  <1> QED BY <1>2, <1>3, <1>4, <1>5 DEF TInv

\* Every step of a transaction is a step of DispatchControl, or none.
LEMMA TransactionsServe ==
  ASSUME TInv, [TNext]_tvars
  PROVE  [Next]_vars
  <1>1. ASSUME NEW r \in Requests, Read(r) PROVE Next
    BY <1>1 DEF Read, Next
  <1>2. ASSUME NEW r \in Requests, Execute(r) PROVE UNCHANGED vars
    BY <1>2 DEF Execute
  <1>3. ASSUME NEW r \in Requests, Conflict(r) \/ Cancelled(r) PROVE Next
    BY <1>3 DEF Conflict, Cancelled, Next
  <1>4. ASSUME NEW r \in Requests, Commit(r) PROVE Next
    <2>1. ServiceCommit(r)
      BY <1>4, CommitParts, CommitsServe DEF TInv, Sound
    <2> QED BY <2>1
      DEF ServiceCommit, Next, ReservoirNext, GateNext, DirectiveNext, ConfirmationNext
  <1>5. Stop => Next
    BY DEF Stop, Next
  <1>6. UNCHANGED tvars => UNCHANGED vars
    BY DEF tvars
  <1> QED BY <1>1, <1>2, <1>3, <1>4, <1>5, <1>6 DEF TNext, Proceed

\* A step that writes, and whose: only a commit does.
LEMMA OnlyCommitsWrite ==
  ASSUME TInv, [TNext]_tvars
  PROVE  Quiet \/ \E r \in Requests : ServiceCommit(r)
  <1>1. ASSUME NEW r \in Requests, Read(r) PROVE Quiet
    <2>1. PICK F : Begin(r, F)
      BY <1>1, ReadBegins
    <2> QED BY <2>1, BeginQuiet
  <1>2. ASSUME NEW r \in Requests, Execute(r) PROVE Quiet
    BY <1>2 DEF Execute, vars, Quiet
  <1>3. ASSUME NEW r \in Requests, Conflict(r) \/ Cancelled(r) PROVE Quiet
    BY <1>3 DEF Conflict, Cancelled, Abandon, Quiet
  <1>4. ASSUME NEW r \in Requests, Commit(r) PROVE ServiceCommit(r)
    BY <1>4, CommitParts, CommitsServe DEF TInv, Sound
  <1>5. Stop => Quiet
    BY DEF Stop, Crash, Quiet
  <1>6. UNCHANGED tvars => Quiet
    BY DEF tvars, vars, Quiet
  <1> QED BY <1>1, <1>2, <1>3, <1>4, <1>5, <1>6 DEF TNext, Proceed

\* The requests that others leave alone.
LEMMA EndRowsStay ==
  ASSUME TInv, NEW r \in Requests, Abandon(r), End(r)
  PROVE  Progress' /\ LocksApart' /\ WrittenRowsStay'
  <1>1. DOMAIN made = Requests /\ DOMAIN req = Requests
    BY DEF TInv, Progress, Sound, Typed, TypeOK
  <1>2. made'[r] = <<>> /\ \A s \in Requests \ {r} : made'[s] = made[s] /\ req'[s] = req[s]
    BY <1>1 DEF Abandon, End, Finish
  <1>3. Quiet
    BY DEF Abandon, Quiet
  <1>4. Progress'
    BY EndGoing DEF TInv, Abandon
  <1>5. LocksApart'
    BY <1>2, FewerLocks DEF TInv
  <1>6. WrittenRowsStay'
    <2>1. ASSUME NEW s \in Requests
          PROVE  made'[s] = <<>> \/ (made'[s] = made[s] /\ req'[s] = req[s])
      BY <1>2
    <2> QED BY <1>3, <2>1, QuietRowsStay DEF TInv
  <1> QED BY <1>4, <1>5, <1>6

\* Every step keeps the invariant.
LEMMA NextTInv == TInv /\ [TNext]_tvars => TInv'
  <1> SUFFICES ASSUME TInv, [TNext]_tvars PROVE TInv'
    OBVIOUS
  <1> DEFINE Kept == Progress' /\ LocksApart' /\ WrittenRowsStay'
  <1>1. Sound'
    <2>1. [Next]_vars
      BY TransactionsServe
    <2>2. Typed /\ AllFaithful /\ AllPlansSound /\ Sound
      BY DEF TInv, Sound
    <2> QED BY <2>1, <2>2, NextTyped, NextFaithful, NextPlans DEF Sound
  <1>2. DOMAIN made = Requests /\ DOMAIN req = Requests
    BY DEF TInv, Progress, Sound, Typed, TypeOK
  <1>3. ASSUME NEW r \in Requests, Read(r) PROVE Kept
    <2>1. Progress' /\ made[r] = <<>>
      BY <1>1, <1>3, ReadGoing DEF TInv
    <2>2. made' = made
      BY <1>3 DEF Read
    <2>3. PICK F : Begin(r, F)
      BY <1>3, ReadBegins
    <2>4. Quiet /\ \A s \in Requests \ {r} : req'[s] = req[s]
      BY <1>2, <2>3, BeginQuiet DEF Begin
    <2>5. ASSUME NEW s \in Requests
          PROVE  made'[s] = <<>> \/ (made'[s] = made[s] /\ req'[s] = req[s])
      BY <2>1, <2>2, <2>4
    <2>6. WrittenRowsStay'
      BY <2>4, <2>5, QuietRowsStay DEF TInv
    <2>7. LocksApart'
      BY <2>2, FewerLocks DEF TInv
    <2> QED BY <2>1, <2>6, <2>7
  <1>4. ASSUME NEW r \in Requests, Execute(r) PROVE Kept
    BY <1>4, ExecuteGoing, ExecuteApart, ExecuteRowsStay DEF TInv
  <1>5. ASSUME NEW r \in Requests, Conflict(r) \/ Cancelled(r) PROVE Kept
    BY <1>5, EndRowsStay DEF Conflict, Cancelled
  <1>6. ASSUME NEW r \in Requests, Commit(r) PROVE Kept
    <2>1. Finish(r) /\ End(r)
      BY <1>6 DEF Commit
    <2>2. Progress'
      BY <2>1, EndGoing DEF TInv
    <2>3. made'[r] = <<>> /\ \A s \in Requests \ {r} : made'[s] = made[s]
      BY <1>2, <2>1 DEF End
    <2>4. LocksApart'
      BY <2>3, FewerLocks DEF TInv
    <2>5. WrittenRowsStay'
      BY <1>6, CommitRowsStay DEF TInv
    <2> QED BY <2>2, <2>4, <2>5
  <1>7. CASE Stop
    <2>1. Quiet /\ \A s \in Requests : made'[s] = <<>>
      BY <1>7 DEF Stop, Crash, Quiet
    <2>2. WrittenRowsStay'
      BY <2>1, QuietRowsStay DEF TInv
    <2>3. LocksApart'
      BY <2>1, FewerLocks DEF TInv
    <2>4. WrittenRowsStay' /\ LocksApart'
      BY <2>2, <2>3
    <2>5. Kept
      BY <1>7, <2>4, StopGoing
    <2> QED BY <1>1, <2>5 DEF TInv
  <1>8. CASE UNCHANGED tvars
    <2>1. made' = made /\ todo' = todo /\ req' = req /\ Quiet
      BY <1>8 DEF tvars, vars, Quiet
    <2>2. WrittenRowsStay' /\ LocksApart'
      BY <2>1, QuietRowsStay, FewerLocks DEF TInv
    <2>3. Progress'
      BY <2>1 DEF TInv, Progress, Going
    <2> QED BY <1>1, <2>2, <2>3 DEF TInv
  <1> QED BY <1>1, <1>3, <1>4, <1>5, <1>6, <1>7, <1>8 DEF TInv, TNext, Proceed

\* In every state that the transactions reach, all of them are where their
\* statements have brought them, on rows that have not moved under their locks.
THEOREM TransactionsInvariant == TSpec => []TInv
  BY InitTInv, NextTInv, PTL DEF TSpec

\* A row that a transaction has written stays as it found it, until it commits.
THEOREM LocksKeepRows == TSpec => []WrittenRowsStay
  <1>1. TInv => WrittenRowsStay
    BY DEF TInv
  <1> QED BY <1>1, TransactionsInvariant, PTL

\* No requests, however many, wait for each other in a circle.
THEOREM NoDeadlock == TSpec => []NeverWaitInCircles
  <1>1. TInv => NeverWaitInCircles
    BY NoCircles DEF TInv
  <1> QED BY <1>1, TransactionsInvariant, PTL

\* Transactions of several statements write as if each were one step: the step
\* of its service.
THEOREM TransactionsAreAtomic == TSpec => ImplementsCommits
  <1>1. TInv /\ [TNext]_tvars =>
          [\/ UNCHANGED <<reservoirs, gates, directives, confirmations, approvals, audit>>
           \/ \E r \in Requests : ServiceCommit(r)]_vars
    BY OnlyCommitsWrite DEF Quiet
  <1> QED BY <1>1, TransactionsInvariant, PTL DEF TSpec, ImplementsCommits

\* So whatever is proved of DispatchControl holds of its transactions.
THEOREM TransactionsImplementDispatch == TSpec => Spec
  <1>1. TInit => Init
    BY DEF TInit
  <1>2. TInv /\ [TNext]_tvars => [Next]_vars
    BY TransactionsServe
  <1> QED BY <1>1, <1>2, TransactionsInvariant, PTL DEF TSpec, Spec
=============================================================================
