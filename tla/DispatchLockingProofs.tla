------------------------ MODULE DispatchLockingProofs -----------------------
(***************************************************************************)
(* The optimistic locking of DispatchControl, proved.  A request may hold  *)
(* a row that others have changed since, but never without the version     *)
(* giving it away: every change of a row raises its version or ends its    *)
(* life.  From this follow RequestsSound and NoStaleWrite, for any number  *)
(* of entities and requests.                                               *)
(***************************************************************************)
EXTENDS DispatchTypeProofs

\* One row's step, seen by someone who remembers its version: a row that was
\* inserted stays, moves on to a higher version, or is no longer live.
Advances(old, new) ==
  old.status # "absent" =>
    \/ new = old
    \/ new.status # "absent" /\ old.version < new.version
    \/ new.status # "absent" /\ old.version = new.version /\ ~new.live

RowsAdvance ==
  /\ \A id \in ReservoirIds : Advances(reservoirs[id], reservoirs'[id])
  /\ \A id \in GateIds : Advances(gates[id], gates'[id])
  /\ \A id \in DirectiveIds : Advances(directives[id], directives'[id])
  /\ \A id \in ConfirmationIds : Advances(confirmations[id], confirmations'[id])

\* RequestsFaithful for one request, with the tables its rows come from.
Faithful(q) ==
  /\ q.res.live => q.id \in ReservoirIds /\ Held(reservoirs, q.id, q.res)
  /\ q.gate.live => HeldGate(q) \in GateIds /\ Held(gates, HeldGate(q), q.gate)
  /\ q.dir.live => HeldDirective(q) \in DirectiveIds
                   /\ Held(directives, HeldDirective(q), q.dir)
  /\ q.conf.live => q.id \in ConfirmationIds /\ Held(confirmations, q.id, q.conf)

AllFaithful == \A r \in Requests : Faithful(req[r])

-----------------------------------------------------------------------------
(* Rows. *)

\* Every version is a natural number.
LEMMA VersionType ==
  /\ \A x \in Reservoir : x.version \in Nat
  /\ \A x \in GateUnit : x.version \in Nat
  /\ \A x \in OperationDirective : x.version \in Nat
  /\ \A x \in ExecutionConfirmation : x.version \in Nat
  BY DEF Reservoir, GateUnit, OperationDirective, ExecutionConfirmation,
         PresentReservoir, PresentGate, PresentDirective, PresentConfirmation,
         NoReservoir, NoGate, NoDirective, NoConfirmation

\* A row that was inserted has a status of its graph, hence is not absent.
LEMMA PresentStatus ==
  /\ \A x \in PresentReservoir : x.status # "absent"
  /\ \A x \in PresentGate : x.status # "absent"
  /\ \A x \in PresentDirective : x.status # "absent"
  /\ \A x \in PresentConfirmation : x.status # "absent"
  BY DEF PresentReservoir, PresentGate, PresentDirective, PresentConfirmation,
         ReservoirStates, GateStates, DirectiveStates, ConfirmationStates

\* What a request holds stays true, or is given away, by any step of its row.
LEMMA HeldKept ==
  ASSUME NEW T, NEW U, NEW id, NEW held,
         held.version \in Nat, T[id].version \in Nat, U[id].version \in Nat,
         Held(T, id, held), Advances(T[id], U[id])
  PROVE  Held(U, id, held)
  BY DEF Held, Advances

\* An update that wins its version check raises the version.
LEMMA WriteAdvances ==
  ASSUME NEW Ids, NEW Rows, NEW T \in [Ids -> Rows], NEW id \in Ids, NEW v \in Nat,
         NEW row, Current(T, id, v),
         [row EXCEPT !.version = v + 1].version = v + 1,
         [row EXCEPT !.version = v + 1].status # "absent"
  PROVE  \A i \in Ids : Advances(T[i], Write(T, id, v, row)[i])
  <1> SUFFICES ASSUME NEW i \in Ids PROVE Advances(T[i], Write(T, id, v, row)[i])
    OBVIOUS
  <1>1. CASE i = id
    <2>1. Write(T, id, v, row)[i] = [row EXCEPT !.version = v + 1]
      BY <1>1 DEF Write
    <2>2. T[i].version = v /\ v < v + 1
      BY <1>1 DEF Current
    <2> QED BY <2>1, <2>2 DEF Advances
  <1>2. CASE i # id
    BY <1>2 DEF Write, Advances
  <1> QED BY <1>1, <1>2

\* An insertion is a step of an absent row only.
LEMMA InsertAdvances ==
  ASSUME NEW Ids, NEW Rows, NEW T \in [Ids -> Rows], NEW id \in Ids, NEW row,
         Insertable(T, id)
  PROVE  \A i \in Ids : Advances(T[i], Insert(T, id, row)[i])
  BY DEF Insertable, Insert, Advances

\* A deletion ends the life of the row.
LEMMA DeleteAdvances ==
  ASSUME NEW Ids, NEW Rows, NEW T \in [Ids -> Rows], NEW id \in Ids,
         [T[id] EXCEPT !.live = FALSE].live = FALSE,
         [T[id] EXCEPT !.live = FALSE].version = T[id].version,
         [T[id] EXCEPT !.live = FALSE].status = T[id].status
  PROVE  \A i \in Ids : Advances(T[i], SoftDelete(T, id)[i])
  <1> SUFFICES ASSUME NEW i \in Ids PROVE Advances(T[i], SoftDelete(T, id)[i])
    OBVIOUS
  <1>1. CASE i = id
    <2>1. SoftDelete(T, id)[i] = [T[id] EXCEPT !.live = FALSE]
      BY <1>1 DEF SoftDelete
    <2> QED BY <1>1, <2>1 DEF Advances
  <1>2. CASE i # id
    BY <1>2 DEF SoftDelete, Advances
  <1> QED BY <1>1, <1>2

\* The three ways in which a transaction changes the table of reservoirs.
LEMMA ReservoirRowsAdvance ==
  ASSUME Typed, NEW id \in ReservoirIds
  PROVE  /\ \A row \in PresentReservoir, v \in Nat :
              Current(reservoirs, id, v) =>
                \A i \in ReservoirIds : Advances(reservoirs[i], Write(reservoirs, id, v, row)[i])
         /\ \A row : Insertable(reservoirs, id) =>
              \A i \in ReservoirIds : Advances(reservoirs[i], Insert(reservoirs, id, row)[i])
         /\ reservoirs[id].live =>
              \A i \in ReservoirIds : Advances(reservoirs[i], SoftDelete(reservoirs, id)[i])
  <1>1. reservoirs \in [ReservoirIds -> Reservoir]
    BY DEF Typed, TypeOK
  <1>2. ASSUME NEW row \in PresentReservoir, NEW v \in Nat, Current(reservoirs, id, v)
        PROVE  \A i \in ReservoirIds : Advances(reservoirs[i], Write(reservoirs, id, v, row)[i])
    <2>1. [row EXCEPT !.version = v + 1].version = v + 1
          /\ [row EXCEPT !.version = v + 1].status = row.status
      BY DEF PresentReservoir
    <2>2. [row EXCEPT !.version = v + 1].status # "absent"
      BY <2>1, PresentStatus
    <2> QED BY <1>1, <1>2, <2>1, <2>2, WriteAdvances
  <1>3. ASSUME NEW row, Insertable(reservoirs, id)
        PROVE  \A i \in ReservoirIds : Advances(reservoirs[i], Insert(reservoirs, id, row)[i])
    BY <1>1, <1>3, InsertAdvances
  <1>4. ASSUME reservoirs[id].live
        PROVE  \A i \in ReservoirIds : Advances(reservoirs[i], SoftDelete(reservoirs, id)[i])
    <2>1. reservoirs[id] \in PresentReservoir
      BY <1>1, <1>4, LiveRows
    <2>2. /\ [reservoirs[id] EXCEPT !.live = FALSE].live = FALSE
          /\ [reservoirs[id] EXCEPT !.live = FALSE].version = reservoirs[id].version
          /\ [reservoirs[id] EXCEPT !.live = FALSE].status = reservoirs[id].status
      BY <2>1 DEF PresentReservoir
    <2> QED BY <1>1, <2>2, DeleteAdvances
  <1> QED BY <1>2, <1>3, <1>4

\* The three ways in which a transaction changes the table of gates.
LEMMA GateRowsAdvance ==
  ASSUME Typed, NEW id \in GateIds
  PROVE  /\ \A row \in PresentGate, v \in Nat :
              Current(gates, id, v) =>
                \A i \in GateIds : Advances(gates[i], Write(gates, id, v, row)[i])
         /\ \A row : Insertable(gates, id) =>
              \A i \in GateIds : Advances(gates[i], Insert(gates, id, row)[i])
         /\ gates[id].live =>
              \A i \in GateIds : Advances(gates[i], SoftDelete(gates, id)[i])
  <1>1. gates \in [GateIds -> GateUnit]
    BY DEF Typed, TypeOK
  <1>2. ASSUME NEW row \in PresentGate, NEW v \in Nat, Current(gates, id, v)
        PROVE  \A i \in GateIds : Advances(gates[i], Write(gates, id, v, row)[i])
    <2>1. [row EXCEPT !.version = v + 1].version = v + 1
          /\ [row EXCEPT !.version = v + 1].status = row.status
      BY DEF PresentGate
    <2>2. [row EXCEPT !.version = v + 1].status # "absent"
      BY <2>1, PresentStatus
    <2> QED BY <1>1, <1>2, <2>1, <2>2, WriteAdvances
  <1>3. ASSUME NEW row, Insertable(gates, id)
        PROVE  \A i \in GateIds : Advances(gates[i], Insert(gates, id, row)[i])
    BY <1>1, <1>3, InsertAdvances
  <1>4. ASSUME gates[id].live
        PROVE  \A i \in GateIds : Advances(gates[i], SoftDelete(gates, id)[i])
    <2>1. gates[id] \in PresentGate
      BY <1>1, <1>4, LiveRows
    <2>2. /\ [gates[id] EXCEPT !.live = FALSE].live = FALSE
          /\ [gates[id] EXCEPT !.live = FALSE].version = gates[id].version
          /\ [gates[id] EXCEPT !.live = FALSE].status = gates[id].status
      BY <2>1 DEF PresentGate
    <2> QED BY <1>1, <2>2, DeleteAdvances
  <1> QED BY <1>2, <1>3, <1>4

\* The three ways in which a transaction changes the table of directives.
LEMMA DirectiveRowsAdvance ==
  ASSUME Typed, NEW id \in DirectiveIds
  PROVE  /\ \A row \in PresentDirective, v \in Nat :
              Current(directives, id, v) =>
                \A i \in DirectiveIds : Advances(directives[i], Write(directives, id, v, row)[i])
         /\ \A row : Insertable(directives, id) =>
              \A i \in DirectiveIds : Advances(directives[i], Insert(directives, id, row)[i])
         /\ directives[id].live =>
              \A i \in DirectiveIds : Advances(directives[i], SoftDelete(directives, id)[i])
  <1>1. directives \in [DirectiveIds -> OperationDirective]
    BY DEF Typed, TypeOK
  <1>2. ASSUME NEW row \in PresentDirective, NEW v \in Nat, Current(directives, id, v)
        PROVE  \A i \in DirectiveIds : Advances(directives[i], Write(directives, id, v, row)[i])
    <2>1. [row EXCEPT !.version = v + 1].version = v + 1
          /\ [row EXCEPT !.version = v + 1].status = row.status
      BY DEF PresentDirective
    <2>2. [row EXCEPT !.version = v + 1].status # "absent"
      BY <2>1, PresentStatus
    <2> QED BY <1>1, <1>2, <2>1, <2>2, WriteAdvances
  <1>3. ASSUME NEW row, Insertable(directives, id)
        PROVE  \A i \in DirectiveIds : Advances(directives[i], Insert(directives, id, row)[i])
    BY <1>1, <1>3, InsertAdvances
  <1>4. ASSUME directives[id].live
        PROVE  \A i \in DirectiveIds : Advances(directives[i], SoftDelete(directives, id)[i])
    <2>1. directives[id] \in PresentDirective
      BY <1>1, <1>4, LiveRows
    <2>2. /\ [directives[id] EXCEPT !.live = FALSE].live = FALSE
          /\ [directives[id] EXCEPT !.live = FALSE].version = directives[id].version
          /\ [directives[id] EXCEPT !.live = FALSE].status = directives[id].status
      BY <2>1 DEF PresentDirective
    <2> QED BY <1>1, <2>2, DeleteAdvances
  <1> QED BY <1>2, <1>3, <1>4

\* The three ways in which a transaction changes the table of confirmations.
LEMMA ConfirmationRowsAdvance ==
  ASSUME Typed, NEW id \in ConfirmationIds
  PROVE  /\ \A row \in PresentConfirmation, v \in Nat :
              Current(confirmations, id, v) =>
                \A i \in ConfirmationIds : Advances(confirmations[i], Write(confirmations, id, v, row)[i])
         /\ \A row : Insertable(confirmations, id) =>
              \A i \in ConfirmationIds : Advances(confirmations[i], Insert(confirmations, id, row)[i])
         /\ confirmations[id].live =>
              \A i \in ConfirmationIds : Advances(confirmations[i], SoftDelete(confirmations, id)[i])
  <1>1. confirmations \in [ConfirmationIds -> ExecutionConfirmation]
    BY DEF Typed, TypeOK
  <1>2. ASSUME NEW row \in PresentConfirmation, NEW v \in Nat, Current(confirmations, id, v)
        PROVE  \A i \in ConfirmationIds : Advances(confirmations[i], Write(confirmations, id, v, row)[i])
    <2>1. [row EXCEPT !.version = v + 1].version = v + 1
          /\ [row EXCEPT !.version = v + 1].status = row.status
      BY DEF PresentConfirmation
    <2>2. [row EXCEPT !.version = v + 1].status # "absent"
      BY <2>1, PresentStatus
    <2> QED BY <1>1, <1>2, <2>1, <2>2, WriteAdvances
  <1>3. ASSUME NEW row, Insertable(confirmations, id)
        PROVE  \A i \in ConfirmationIds : Advances(confirmations[i], Insert(confirmations, id, row)[i])
    BY <1>1, <1>3, InsertAdvances
  <1>4. ASSUME confirmations[id].live
        PROVE  \A i \in ConfirmationIds : Advances(confirmations[i], SoftDelete(confirmations, id)[i])
    <2>1. confirmations[id] \in PresentConfirmation
      BY <1>1, <1>4, LiveRows
    <2>2. /\ [confirmations[id] EXCEPT !.live = FALSE].live = FALSE
          /\ [confirmations[id] EXCEPT !.live = FALSE].version = confirmations[id].version
          /\ [confirmations[id] EXCEPT !.live = FALSE].status = confirmations[id].status
      BY <2>1 DEF PresentConfirmation
    <2> QED BY <1>1, <2>2, DeleteAdvances
  <1> QED BY <1>2, <1>3, <1>4

\* A live row that has just been read is held as it is.
LEMMA LiveHeld ==
  ASSUME Typed
  PROVE  /\ \A id \in ReservoirIds :
              reservoirs[id].live => Held(reservoirs, id, reservoirs[id])
         /\ \A id \in GateIds : gates[id].live => Held(gates, id, gates[id])
         /\ \A id \in DirectiveIds :
              directives[id].live => Held(directives, id, directives[id])
         /\ \A id \in ConfirmationIds :
              confirmations[id].live => Held(confirmations, id, confirmations[id])
  <1>1. ASSUME NEW id \in ReservoirIds, reservoirs[id].live
        PROVE  Held(reservoirs, id, reservoirs[id])
    <2>1. reservoirs[id] \in Reservoir
      BY DEF Typed, TypeOK
    <2>2. reservoirs[id].version \in Nat /\ reservoirs[id].status # "absent"
      BY <2>1, <1>1, LiveRows, PresentStatus, VersionType
    <2> QED BY <2>2 DEF Held
  <1>2. ASSUME NEW id \in GateIds, gates[id].live
        PROVE  Held(gates, id, gates[id])
    <2>1. gates[id] \in GateUnit
      BY DEF Typed, TypeOK
    <2>2. gates[id].version \in Nat /\ gates[id].status # "absent"
      BY <2>1, <1>2, LiveRows, PresentStatus, VersionType
    <2> QED BY <2>2 DEF Held
  <1>3. ASSUME NEW id \in DirectiveIds, directives[id].live
        PROVE  Held(directives, id, directives[id])
    <2>1. directives[id] \in OperationDirective
      BY DEF Typed, TypeOK
    <2>2. directives[id].version \in Nat /\ directives[id].status # "absent"
      BY <2>1, <1>3, LiveRows, PresentStatus, VersionType
    <2> QED BY <2>2 DEF Held
  <1>4. ASSUME NEW id \in ConfirmationIds, confirmations[id].live
        PROVE  Held(confirmations, id, confirmations[id])
    <2>1. confirmations[id] \in ExecutionConfirmation
      BY DEF Typed, TypeOK
    <2>2. confirmations[id].version \in Nat /\ confirmations[id].status # "absent"
      BY <2>1, <1>4, LiveRows, PresentStatus, VersionType
    <2> QED BY <2>2 DEF Held
  <1> QED BY <1>1, <1>2, <1>3, <1>4

-----------------------------------------------------------------------------
(* Requests. *)

\* The free slot holds no row.
LEMMA IdleFaithful == Faithful(Idle)
  BY EmptyRows DEF Faithful, Idle

\* A request that goes on stays faithful when all rows advance.
LEMMA FaithfulKept ==
  ASSUME Typed, Typed', RowsAdvance, NEW q \in Request, Faithful(q)
  PROVE  Faithful(q)'
  <1>1. /\ q.res.version \in Nat /\ q.gate.version \in Nat
        /\ q.dir.version \in Nat /\ q.conf.version \in Nat
    <2>1. /\ q.res \in Reservoir /\ q.gate \in GateUnit
          /\ q.dir \in OperationDirective /\ q.conf \in ExecutionConfirmation
      BY DEF Request
    <2> QED BY <2>1, VersionType
  <1>2. ASSUME q.res.live
        PROVE  q.id \in ReservoirIds /\ Held(reservoirs', q.id, q.res)
    <2>1. q.id \in ReservoirIds /\ Held(reservoirs, q.id, q.res)
      BY <1>2 DEF Faithful
    <2>2. reservoirs[q.id] \in Reservoir /\ reservoirs'[q.id] \in Reservoir
      BY <2>1 DEF Typed, TypeOK
    <2>3. reservoirs[q.id].version \in Nat /\ reservoirs'[q.id].version \in Nat
      BY <2>2, VersionType
    <2>4. Advances(reservoirs[q.id], reservoirs'[q.id])
      BY <2>1 DEF RowsAdvance
    <2> QED BY <1>1, <2>1, <2>3, <2>4, HeldKept
  <1>3. ASSUME q.gate.live
        PROVE  HeldGate(q) \in GateIds /\ Held(gates', HeldGate(q), q.gate)
    <2>1. HeldGate(q) \in GateIds /\ Held(gates, HeldGate(q), q.gate)
      BY <1>3 DEF Faithful
    <2>2. gates[HeldGate(q)] \in GateUnit /\ gates'[HeldGate(q)] \in GateUnit
      BY <2>1 DEF Typed, TypeOK
    <2>3. gates[HeldGate(q)].version \in Nat /\ gates'[HeldGate(q)].version \in Nat
      BY <2>2, VersionType
    <2>4. Advances(gates[HeldGate(q)], gates'[HeldGate(q)])
      BY <2>1 DEF RowsAdvance
    <2> QED BY <1>1, <2>1, <2>3, <2>4, HeldKept
  <1>4. ASSUME q.dir.live
        PROVE  HeldDirective(q) \in DirectiveIds /\ Held(directives', HeldDirective(q), q.dir)
    <2>1. HeldDirective(q) \in DirectiveIds /\ Held(directives, HeldDirective(q), q.dir)
      BY <1>4 DEF Faithful
    <2>2. directives[HeldDirective(q)] \in OperationDirective /\ directives'[HeldDirective(q)] \in OperationDirective
      BY <2>1 DEF Typed, TypeOK
    <2>3. directives[HeldDirective(q)].version \in Nat /\ directives'[HeldDirective(q)].version \in Nat
      BY <2>2, VersionType
    <2>4. Advances(directives[HeldDirective(q)], directives'[HeldDirective(q)])
      BY <2>1 DEF RowsAdvance
    <2> QED BY <1>1, <2>1, <2>3, <2>4, HeldKept
  <1>5. ASSUME q.conf.live
        PROVE  q.id \in ConfirmationIds /\ Held(confirmations', q.id, q.conf)
    <2>1. q.id \in ConfirmationIds /\ Held(confirmations, q.id, q.conf)
      BY <1>5 DEF Faithful
    <2>2. confirmations[q.id] \in ExecutionConfirmation /\ confirmations'[q.id] \in ExecutionConfirmation
      BY <2>1 DEF Typed, TypeOK
    <2>3. confirmations[q.id].version \in Nat /\ confirmations'[q.id].version \in Nat
      BY <2>2, VersionType
    <2>4. Advances(confirmations[q.id], confirmations'[q.id])
      BY <2>1 DEF RowsAdvance
    <2> QED BY <1>1, <2>1, <2>3, <2>4, HeldKept
  <1> QED BY <1>2, <1>3, <1>4, <1>5 DEF Faithful, HeldGate, HeldDirective, Held

\* A request that begins faithful.
LEMMA BeginFaithful ==
  ASSUME Typed, Typed', AllFaithful, NEW r \in Requests, NEW F,
         Begin(r, F), Faithful(F)
  PROVE  AllFaithful'
  <1>1. RowsAdvance
    BY DEF Begin, RowsAdvance, Advances
  <1>2. /\ req' = [req EXCEPT ![r] = F]
        /\ req \in [Requests -> Request] /\ req' \in [Requests -> Request]
    BY DEF Begin, Typed, TypeOK
  <1>3. ASSUME NEW s \in Requests
        PROVE  Faithful(req[s])'
    <2>1. PICK q \in Request : q = req'[s] /\ Faithful(q)
      BY <1>2 DEF AllFaithful
    <2>2. Faithful(q)'
      BY <1>1, <2>1, FaithfulKept
    <2> QED BY <2>1, <2>2 DEF Faithful, HeldGate, HeldDirective, Held
  <1> QED BY <1>3 DEF AllFaithful

\* A request that ends, in a step by which rows advance.
LEMMA CommitFaithful ==
  ASSUME Typed, Typed', AllFaithful, RowsAdvance, NEW r \in Requests, Finish(r)
  PROVE  AllFaithful'
  <1>1. req' = [req EXCEPT ![r] = Idle] /\ req \in [Requests -> Request]
    BY DEF Finish, Typed, TypeOK
  <1>2. ASSUME NEW s \in Requests
        PROVE  Faithful(req[s])'
    <2>1. PICK q \in Request : q = req'[s] /\ Faithful(q)
      BY <1>1, IdleFaithful, IdleSound DEF AllFaithful
    <2>2. Faithful(q)'
      BY <2>1, FaithfulKept
    <2> QED BY <2>1, <2>2 DEF Faithful, HeldGate, HeldDirective, Held
  <1> QED BY <1>2 DEF AllFaithful

-----------------------------------------------------------------------------
(* The operations of the reservoir service. *)

\* Every step of the reservoir service keeps what requests hold true or given away.
LEMMA ReservoirFaithful ==
  ASSUME Typed, Typed', AllFaithful, NEW r \in Requests, ReservoirNext(r)
  PROVE  AllFaithful'
  <1>1. ASSUME NEW id \in ReservoirIds, NEW f \in Facilities,
               BeginCreateReservoir(r, id, f)
        PROVE  AllFaithful'
    <2> DEFINE F == [Idle EXCEPT !.op = "CreateReservoir", !.id = id,
                        !.plan = [NoPlan EXCEPT !.facility = f]]
    <2>2. Faithful(F)
      BY EmptyRows DEF Idle, Faithful
    <2>3. Begin(r, F)
      BY <1>1 DEF BeginCreateReservoir
    <2> HIDE DEF F
    <2> QED BY <2>2, <2>3, BeginFaithful
  <1>2. CASE CommitCreateReservoir(r)
    <2>1. req[r].id \in ReservoirIds
      BY <1>2, InFlightSound DEF CommitCreateReservoir, InFlight, Valid, ReservoirValid
    <2>2. \A i \in ReservoirIds : Advances(reservoirs[i], reservoirs'[i])
      BY <1>2, <2>1, ReservoirRowsAdvance DEF CommitCreateReservoir
    <2>3. RowsAdvance
      BY <1>2, <2>2 DEF CommitCreateReservoir, RowsAdvance, Advances
    <2> QED BY <1>2, <2>3, CommitFaithful DEF CommitCreateReservoir
  <1>3. ASSUME NEW id \in ReservoirIds, NEW f \in Facilities,
               NEW e \in 1..MaxVersion[id],
               BeginUpdateReservoir(r, id, f, e)
        PROVE  AllFaithful'
    <2> DEFINE F == [Idle EXCEPT !.op = "UpdateReservoir", !.id = id, !.exp = e,
                        !.plan = [NoPlan EXCEPT !.facility = f],
                        !.res = reservoirs[id]]
    <2>1. reservoirs[id].live /\ Held(reservoirs, id, reservoirs[id])
      BY <1>3, LiveHeld DEF BeginUpdateReservoir, Live
    <2>2. Faithful(F)
      BY <2>1, EmptyRows DEF Idle, Faithful, HeldGate, HeldDirective
    <2>3. Begin(r, F)
      BY <1>3 DEF BeginUpdateReservoir
    <2> HIDE DEF F
    <2> QED BY <2>2, <2>3, BeginFaithful
  <1>4. CASE CommitUpdateReservoir(r)
    <2> DEFINE q == req[r]
    <2>1. q \in Request /\ Valid(q) /\ q.op = "UpdateReservoir"
      BY <1>4, InFlightSound DEF CommitUpdateReservoir, InFlight
    <2>2. q.id \in ReservoirIds /\ q.exp \in Nat /\ q.res \in PresentReservoir
          /\ q.plan.facility \in Facilities
      BY <2>1, LiveRows DEF Valid, ReservoirValid, Request, CanTransition,
          ReservoirTransitions, ReservoirStates
    <2>3. [q.res EXCEPT !.facility = q.plan.facility] \in PresentReservoir
      BY <2>2 DEF PresentReservoir
    <2>4. \A i \in ReservoirIds : Advances(reservoirs[i], reservoirs'[i])
      BY <1>4, <2>2, <2>3, ReservoirRowsAdvance DEF CommitUpdateReservoir
    <2>5. RowsAdvance
      BY <1>4, <2>4 DEF CommitUpdateReservoir, RowsAdvance, Advances
    <2> QED BY <1>4, <2>5, CommitFaithful DEF CommitUpdateReservoir
  <1>5. ASSUME NEW id \in ReservoirIds, NEW to \in ReservoirStates,
               NEW e \in 1..MaxVersion[id],
               BeginTransitionReservoir(r, id, to, e)
        PROVE  AllFaithful'
    <2> DEFINE F == [Idle EXCEPT !.op = "TransitionReservoir", !.id = id, !.to = to,
                        !.exp = e, !.res = reservoirs[id]]
    <2>1. reservoirs[id].live /\ Held(reservoirs, id, reservoirs[id])
      BY <1>5, LiveHeld DEF BeginTransitionReservoir, Live
    <2>2. Faithful(F)
      BY <2>1, EmptyRows DEF Idle, Faithful, HeldGate, HeldDirective
    <2>3. Begin(r, F)
      BY <1>5 DEF BeginTransitionReservoir
    <2> HIDE DEF F
    <2> QED BY <2>2, <2>3, BeginFaithful
  <1>6. CASE CommitTransitionReservoir(r)
    <2> DEFINE q == req[r]
    <2>1. q \in Request /\ Valid(q) /\ q.op = "TransitionReservoir"
      BY <1>6, InFlightSound DEF CommitTransitionReservoir, InFlight
    <2>2. q.id \in ReservoirIds /\ q.exp \in Nat /\ q.res \in PresentReservoir
          /\ q.to \in ReservoirStates
      BY <2>1, LiveRows DEF Valid, ReservoirValid, Request, CanTransition,
          ReservoirTransitions, ReservoirStates
    <2>3. [q.res EXCEPT !.status = q.to] \in PresentReservoir
      BY <2>2 DEF PresentReservoir
    <2>4. \A i \in ReservoirIds : Advances(reservoirs[i], reservoirs'[i])
      BY <1>6, <2>2, <2>3, ReservoirRowsAdvance DEF CommitTransitionReservoir
    <2>5. RowsAdvance
      BY <1>6, <2>4 DEF CommitTransitionReservoir, RowsAdvance, Advances
    <2> QED BY <1>6, <2>5, CommitFaithful DEF CommitTransitionReservoir
  <1>7. ASSUME NEW id \in ReservoirIds,
               BeginDeleteReservoir(r, id)
        PROVE  AllFaithful'
    <2> DEFINE F == [Idle EXCEPT !.op = "DeleteReservoir", !.id = id,
                        !.res = reservoirs[id]]
    <2>1. reservoirs[id].live /\ Held(reservoirs, id, reservoirs[id])
      BY <1>7, LiveHeld DEF BeginDeleteReservoir, Live
    <2>2. Faithful(F)
      BY <2>1, EmptyRows DEF Idle, Faithful, HeldGate, HeldDirective
    <2>3. Begin(r, F)
      BY <1>7 DEF BeginDeleteReservoir
    <2> HIDE DEF F
    <2> QED BY <2>2, <2>3, BeginFaithful
  <1>8. CASE CommitDeleteReservoir(r)
    <2>1. req[r].id \in ReservoirIds
      BY <1>8, InFlightSound DEF CommitDeleteReservoir, InFlight, Valid, ReservoirValid
    <2>2. \A i \in ReservoirIds : Advances(reservoirs[i], reservoirs'[i])
      BY <1>8, <2>1, ReservoirRowsAdvance DEF CommitDeleteReservoir, Live
    <2>3. RowsAdvance
      BY <1>8, <2>2 DEF CommitDeleteReservoir, RowsAdvance, Advances
    <2> QED BY <1>8, <2>3, CommitFaithful DEF CommitDeleteReservoir
  <1> QED
    BY <1>1, <1>2, <1>3, <1>4, <1>5, <1>6, <1>7, <1>8 DEF ReservoirNext

-----------------------------------------------------------------------------
(* The operations of the gate service. *)

\* Every step of the gate service keeps what requests hold true or given away.
LEMMA GateFaithful ==
  ASSUME Typed, Typed', AllFaithful, NEW r \in Requests, GateNext(r)
  PROVE  AllFaithful'
  <1>1. ASSUME NEW id \in GateIds, NEW res \in ReservoirIds,
               NEW f \in Facilities,
               BeginCreateGate(r, id, res, f)
        PROVE  AllFaithful'
    <2> DEFINE F == [Idle EXCEPT !.op = "CreateGate", !.id = id,
                        !.plan = [NoPlan EXCEPT !.facility = f, !.link = res]]
    <2>2. Faithful(F)
      BY EmptyRows DEF Idle, Faithful
    <2>3. Begin(r, F)
      BY <1>1 DEF BeginCreateGate
    <2> HIDE DEF F
    <2> QED BY <2>2, <2>3, BeginFaithful
  <1>2. CASE CommitCreateGate(r)
    <2>1. req[r].id \in GateIds
      BY <1>2, InFlightSound DEF CommitCreateGate, InFlight, Valid, GateValid
    <2>2. \A i \in GateIds : Advances(gates[i], gates'[i])
      BY <1>2, <2>1, GateRowsAdvance DEF CommitCreateGate
    <2>3. RowsAdvance
      BY <1>2, <2>2 DEF CommitCreateGate, RowsAdvance, Advances
    <2> QED BY <1>2, <2>3, CommitFaithful DEF CommitCreateGate
  <1>3. ASSUME NEW id \in GateIds, NEW f \in Facilities,
               NEW e \in 1..MaxVersion[id],
               BeginUpdateGate(r, id, f, e)
        PROVE  AllFaithful'
    <2> DEFINE F == [Idle EXCEPT !.op = "UpdateGate", !.id = id, !.exp = e,
                        !.plan = [NoPlan EXCEPT !.facility = f],
                        !.gate = gates[id]]
    <2>1. gates[id].live /\ Held(gates, id, gates[id])
      BY <1>3, LiveHeld DEF BeginUpdateGate, Live
    <2>2. Faithful(F)
      BY <2>1, EmptyRows DEF Idle, Faithful, HeldGate, HeldDirective
    <2>3. Begin(r, F)
      BY <1>3 DEF BeginUpdateGate
    <2> HIDE DEF F
    <2> QED BY <2>2, <2>3, BeginFaithful
  <1>4. CASE CommitUpdateGate(r)
    <2> DEFINE q == req[r]
    <2>1. q \in Request /\ Valid(q) /\ q.op = "UpdateGate"
      BY <1>4, InFlightSound DEF CommitUpdateGate, InFlight
    <2>2. q.id \in GateIds /\ q.exp \in Nat /\ q.gate \in PresentGate
          /\ q.plan.facility \in Facilities
      BY <2>1, LiveRows DEF Valid, GateValid, Request, CanTransition,
          GateUnitTransitions, GateStates
    <2>3. [q.gate EXCEPT !.facility = q.plan.facility] \in PresentGate
      BY <2>2 DEF PresentGate
    <2>4. \A i \in GateIds : Advances(gates[i], gates'[i])
      BY <1>4, <2>2, <2>3, GateRowsAdvance DEF CommitUpdateGate
    <2>5. RowsAdvance
      BY <1>4, <2>4 DEF CommitUpdateGate, RowsAdvance, Advances
    <2> QED BY <1>4, <2>5, CommitFaithful DEF CommitUpdateGate
  <1>5. ASSUME NEW id \in GateIds, NEW to \in GateStates,
               NEW e \in 1..MaxVersion[id],
               BeginTransitionGate(r, id, to, e)
        PROVE  AllFaithful'
    <2> DEFINE F == [Idle EXCEPT !.op = "TransitionGate", !.id = id, !.to = to,
                        !.exp = e, !.gate = gates[id]]
    <2>1. gates[id].live /\ Held(gates, id, gates[id])
      BY <1>5, LiveHeld DEF BeginTransitionGate, Live
    <2>2. Faithful(F)
      BY <2>1, EmptyRows DEF Idle, Faithful, HeldGate, HeldDirective
    <2>3. Begin(r, F)
      BY <1>5 DEF BeginTransitionGate
    <2> HIDE DEF F
    <2> QED BY <2>2, <2>3, BeginFaithful
  <1>6. CASE CommitTransitionGate(r)
    <2> DEFINE q == req[r]
    <2>1. q \in Request /\ Valid(q) /\ q.op = "TransitionGate"
      BY <1>6, InFlightSound DEF CommitTransitionGate, InFlight
    <2>2. q.id \in GateIds /\ q.exp \in Nat /\ q.gate \in PresentGate
          /\ q.to \in GateStates
      BY <2>1, LiveRows DEF Valid, GateValid, Request, CanTransition,
          GateUnitTransitions, GateStates
    <2>3. [q.gate EXCEPT !.status = q.to] \in PresentGate
      BY <2>2 DEF PresentGate
    <2>4. \A i \in GateIds : Advances(gates[i], gates'[i])
      BY <1>6, <2>2, <2>3, GateRowsAdvance DEF CommitTransitionGate
    <2>5. RowsAdvance
      BY <1>6, <2>4 DEF CommitTransitionGate, RowsAdvance, Advances
    <2> QED BY <1>6, <2>5, CommitFaithful DEF CommitTransitionGate
  <1>7. ASSUME NEW id \in GateIds,
               BeginDeleteGate(r, id)
        PROVE  AllFaithful'
    <2> DEFINE F == [Idle EXCEPT !.op = "DeleteGate", !.id = id, !.gate = gates[id]]
    <2>1. gates[id].live /\ Held(gates, id, gates[id])
      BY <1>7, LiveHeld DEF BeginDeleteGate, Live
    <2>2. Faithful(F)
      BY <2>1, EmptyRows DEF Idle, Faithful, HeldGate, HeldDirective
    <2>3. Begin(r, F)
      BY <1>7 DEF BeginDeleteGate
    <2> HIDE DEF F
    <2> QED BY <2>2, <2>3, BeginFaithful
  <1>8. CASE CommitDeleteGate(r)
    <2>1. req[r].id \in GateIds
      BY <1>8, InFlightSound DEF CommitDeleteGate, InFlight, Valid, GateValid
    <2>2. \A i \in GateIds : Advances(gates[i], gates'[i])
      BY <1>8, <2>1, GateRowsAdvance DEF CommitDeleteGate, Live
    <2>3. RowsAdvance
      BY <1>8, <2>2 DEF CommitDeleteGate, RowsAdvance, Advances
    <2> QED BY <1>8, <2>3, CommitFaithful DEF CommitDeleteGate
  <1> QED
    BY <1>1, <1>2, <1>3, <1>4, <1>5, <1>6, <1>7, <1>8 DEF GateNext

-----------------------------------------------------------------------------
(* The operations of the directive service. *)

\* Every step of the directive service keeps what requests hold true or given away.
LEMMA DirectiveFaithful ==
  ASSUME Typed, Typed', AllFaithful, NEW r \in Requests, DirectiveNext(r)
  PROVE  AllFaithful'
  <1>1. ASSUME NEW id \in DirectiveIds, NEW g \in GateIds,
               NEW f \in Facilities, NEW s \in GateTargets,
               BeginCreateDirective(r, id, g, f, s)
        PROVE  AllFaithful'
    <2> DEFINE F == [Idle EXCEPT !.op = "CreateDirective", !.id = id,
                        !.plan = [facility |-> f, link |-> g, gateState |-> s]]
    <2>2. Faithful(F)
      BY EmptyRows DEF Idle, Faithful
    <2>3. Begin(r, F)
      BY <1>1 DEF BeginCreateDirective
    <2> HIDE DEF F
    <2> QED BY <2>2, <2>3, BeginFaithful
  <1>2. CASE CommitCreateDirective(r)
    <2>1. req[r].id \in DirectiveIds
      BY <1>2, InFlightSound DEF CommitCreateDirective, InFlight, Valid, DirectiveValid
    <2>2. \A i \in DirectiveIds : Advances(directives[i], directives'[i])
      BY <1>2, <2>1, DirectiveRowsAdvance DEF CommitCreateDirective
    <2>3. RowsAdvance
      BY <1>2, <2>2 DEF CommitCreateDirective, RowsAdvance, Advances
    <2> QED BY <1>2, <2>3, CommitFaithful DEF CommitCreateDirective
  <1>3. ASSUME NEW id \in DirectiveIds, NEW g \in GateIds,
               NEW f \in Facilities, NEW s \in GateTargets,
               NEW e \in 1..MaxVersion[id],
               BeginUpdateDirective(r, id, g, f, s, e)
        PROVE  AllFaithful'
    <2> DEFINE F == [Idle EXCEPT !.op = "UpdateDirective", !.id = id, !.exp = e,
                        !.plan = [facility |-> f, link |-> g, gateState |-> s],
                        !.dir = directives[id]]
    <2>1. directives[id].live /\ Held(directives, id, directives[id])
      BY <1>3, LiveHeld DEF BeginUpdateDirective, Live
    <2>2. Faithful(F)
      BY <2>1, EmptyRows DEF Idle, Faithful, HeldGate, HeldDirective
    <2>3. Begin(r, F)
      BY <1>3 DEF BeginUpdateDirective
    <2> HIDE DEF F
    <2> QED BY <2>2, <2>3, BeginFaithful
  <1>4. CASE CommitUpdateDirective(r)
    <2> DEFINE q == req[r]
    <2>1. q \in Request /\ Valid(q) /\ q.op = "UpdateDirective"
      BY <1>4, InFlightSound DEF CommitUpdateDirective, InFlight
    <2>2. q.id \in DirectiveIds /\ q.exp \in Nat /\ q.dir \in PresentDirective
          /\ q.plan \in [facility : Facilities, link : GateIds, gateState : GateTargets]
      BY <2>1, LiveRows DEF Valid, DirectiveValid, Request, CanTransition,
          OperationDirectiveTransitions, DirectiveStates
    <2>3. [q.dir EXCEPT !.facility = q.plan.facility, !.gate = q.plan.link,
                       !.gateState = q.plan.gateState] \in PresentDirective
      BY <2>2 DEF PresentDirective
    <2>4. \A i \in DirectiveIds : Advances(directives[i], directives'[i])
      BY <1>4, <2>2, <2>3, DirectiveRowsAdvance DEF CommitUpdateDirective
    <2>5. RowsAdvance
      BY <1>4, <2>4 DEF CommitUpdateDirective, RowsAdvance, Advances
    <2> QED BY <1>4, <2>5, CommitFaithful DEF CommitUpdateDirective
  <1>5. ASSUME NEW id \in DirectiveIds, NEW to \in DirectiveStates,
               NEW a \in Actors, NEW role \in Roles, NEW e \in 1..MaxVersion[id],
               BeginTransitionDirective(r, id, to, a, role, e)
        PROVE  AllFaithful'
    <2> DEFINE G == IF ReadsGate(directives[id], to)
                    THEN gates[directives[id].gate] ELSE NoGate
               F == [Idle EXCEPT !.op = "TransitionDirective", !.id = id, !.to = to,
                        !.actor = a, !.role = role, !.exp = e, !.dir = directives[id],
                        !.gate = G]
    <2>1. directives[id].live /\ Held(directives, id, directives[id])
      BY <1>5, LiveHeld DEF BeginTransitionDirective, Live
    <2>2. directives[id] \in PresentDirective
      BY <2>1, LiveRows DEF Typed, TypeOK
    <2>3. directives[id].gate \in GateIds
      BY <2>2 DEF PresentDirective
    <2>4. G.live => Held(gates, directives[id].gate, G)
      BY <2>3, LiveHeld, EmptyRows
    <2>5. Begin(r, F)
      BY <1>5 DEF BeginTransitionDirective
    <2> HIDE DEF G
    <2>6. Faithful(F)
      BY <2>1, <2>3, <2>4, EmptyRows DEF Idle, Faithful, HeldGate, HeldDirective
    <2> HIDE DEF F
    <2> QED BY <2>5, <2>6, BeginFaithful
  <1>6. CASE CommitTransitionDirective(r)
    <2> DEFINE q == req[r]
               g == q.dir.gate
               target == GateTarget(q.dir, q.gate, q.to)
    <2>1. q \in Request /\ Valid(q) /\ q.op = "TransitionDirective"
      BY <1>6, InFlightSound DEF CommitTransitionDirective, InFlight
    <2>2. q.id \in DirectiveIds /\ q.exp \in Nat /\ q.dir \in PresentDirective
      BY <2>1, LiveRows DEF Valid, DirectiveValid, Request
    <2>3. Transitioned(q) \in PresentDirective
      BY <2>1, <2>2, TransitionedType
      DEF Valid, DirectiveValid, CanTransition, OperationDirectiveTransitions,
          DirectiveStates
    <2>4. \A i \in DirectiveIds : Advances(directives[i], directives'[i])
      BY <1>6, <2>2, <2>3, DirectiveRowsAdvance DEF CommitTransitionDirective
    <2>5. \A i \in GateIds : Advances(gates[i], gates'[i])
      <3>1. CASE ~MovesGate(q.gate, target)
        BY <1>6, <3>1 DEF CommitTransitionDirective, Advances
      <3>2. CASE MovesGate(q.gate, target)
        <4>1. /\ q.gate.live /\ q.gate \in GateUnit
              /\ CanTransition(GateUnitTransitions, q.gate.status, target)
          BY <2>1, <3>2 DEF Valid, DirectiveValid, Request
        <4>2. q.gate \in PresentGate
          BY <4>1, LiveRows
        <4>3. /\ Current(gates, g, q.gate.version)
              /\ gates' = Write(gates, g, q.gate.version, [q.gate EXCEPT !.status = target])
          BY <1>6, <3>2 DEF CommitTransitionDirective
        <4> HIDE DEF target
        <4>4. g \in GateIds /\ q.gate.version \in Nat
          BY <2>2, <4>2 DEF PresentDirective, PresentGate
        <4>5. [q.gate EXCEPT !.status = target] \in PresentGate
          <5>1. target \in GateStates
            BY <4>1 DEF CanTransition, GateUnitTransitions, GateStates
          <5> QED BY <4>2, <5>1, GateMoved
        <4> DEFINE moved == [q.gate EXCEPT !.status = target]
        <4> HIDE DEF moved, g
        <4>6. \A i \in GateIds : Advances(gates[i], Write(gates, g, q.gate.version, moved)[i])
          BY <4>3, <4>4, <4>5, GateRowsAdvance DEF moved
        <4> QED BY <4>3, <4>6 DEF moved
      <3> QED BY <3>1, <3>2
    <2>6. RowsAdvance
      BY <1>6, <2>4, <2>5 DEF CommitTransitionDirective, RowsAdvance, Advances
    <2> QED BY <1>6, <2>6, CommitFaithful DEF CommitTransitionDirective
  <1>7. ASSUME NEW id \in DirectiveIds,
               BeginDeleteDirective(r, id)
        PROVE  AllFaithful'
    <2> DEFINE F == [Idle EXCEPT !.op = "DeleteDirective", !.id = id,
                        !.dir = directives[id]]
    <2>1. directives[id].live /\ Held(directives, id, directives[id])
      BY <1>7, LiveHeld DEF BeginDeleteDirective, Live
    <2>2. Faithful(F)
      BY <2>1, EmptyRows DEF Idle, Faithful, HeldGate, HeldDirective
    <2>3. Begin(r, F)
      BY <1>7 DEF BeginDeleteDirective
    <2> HIDE DEF F
    <2> QED BY <2>2, <2>3, BeginFaithful
  <1>8. CASE CommitDeleteDirective(r)
    <2>1. req[r].id \in DirectiveIds
      BY <1>8, InFlightSound DEF CommitDeleteDirective, InFlight, Valid, DirectiveValid
    <2>2. \A i \in DirectiveIds : Advances(directives[i], directives'[i])
      BY <1>8, <2>1, DirectiveRowsAdvance DEF CommitDeleteDirective, Live
    <2>3. RowsAdvance
      BY <1>8, <2>2 DEF CommitDeleteDirective, RowsAdvance, Advances
    <2> QED BY <1>8, <2>3, CommitFaithful DEF CommitDeleteDirective
  <1> QED
    BY <1>1, <1>2, <1>3, <1>4, <1>5, <1>6, <1>7, <1>8 DEF DirectiveNext

-----------------------------------------------------------------------------
(* The operations of the confirmation service. *)

\* Every step of the confirmation service keeps what requests hold true or given away.
LEMMA ConfirmationFaithful ==
  ASSUME Typed, Typed', AllFaithful, NEW r \in Requests, ConfirmationNext(r)
  PROVE  AllFaithful'
  <1>1. ASSUME NEW id \in ConfirmationIds, NEW d \in DirectiveIds,
               BeginCreateConfirmation(r, id, d)
        PROVE  AllFaithful'
    <2> DEFINE F == [Idle EXCEPT !.op = "CreateConfirmation", !.id = id,
                        !.plan = [NoPlan EXCEPT !.facility = directives[d].facility,
                                                !.link = d]]
    <2>2. Faithful(F)
      BY EmptyRows DEF Idle, Faithful
    <2>3. Begin(r, F)
      BY <1>1 DEF BeginCreateConfirmation
    <2> HIDE DEF F
    <2> QED BY <2>2, <2>3, BeginFaithful
  <1>2. CASE CommitCreateConfirmation(r)
    <2>1. req[r].id \in ConfirmationIds
      BY <1>2, InFlightSound DEF CommitCreateConfirmation, InFlight, Valid, ConfirmationValid
    <2>2. \A i \in ConfirmationIds : Advances(confirmations[i], confirmations'[i])
      BY <1>2, <2>1, ConfirmationRowsAdvance DEF CommitCreateConfirmation
    <2>3. RowsAdvance
      BY <1>2, <2>2 DEF CommitCreateConfirmation, RowsAdvance, Advances
    <2> QED BY <1>2, <2>3, CommitFaithful DEF CommitCreateConfirmation
  <1>3. ASSUME NEW id \in ConfirmationIds, NEW e \in 1..MaxVersion[id],
               BeginUpdateConfirmation(r, id, e)
        PROVE  AllFaithful'
    <2> DEFINE F == [Idle EXCEPT !.op = "UpdateConfirmation", !.id = id, !.exp = e,
                        !.conf = confirmations[id],
                        !.plan = [NoPlan EXCEPT
                          !.facility = directives[confirmations[id].directive].facility]]
    <2>1. confirmations[id].live /\ Held(confirmations, id, confirmations[id])
      BY <1>3, LiveHeld DEF BeginUpdateConfirmation, Live
    <2>2. Faithful(F)
      BY <2>1, EmptyRows DEF Idle, Faithful, HeldGate, HeldDirective
    <2>3. Begin(r, F)
      BY <1>3 DEF BeginUpdateConfirmation
    <2> HIDE DEF F
    <2> QED BY <2>2, <2>3, BeginFaithful
  <1>4. CASE CommitUpdateConfirmation(r)
    <2> DEFINE q == req[r]
    <2>1. q \in Request /\ Valid(q) /\ q.op = "UpdateConfirmation"
      BY <1>4, InFlightSound DEF CommitUpdateConfirmation, InFlight
    <2>2. q.id \in ConfirmationIds /\ q.exp \in Nat /\ q.conf \in PresentConfirmation
          /\ q.plan.facility \in Facilities
      BY <2>1, LiveRows DEF Valid, ConfirmationValid, Request, CanTransition,
          ExecutionConfirmationTransitions, ConfirmationStates
    <2>3. [q.conf EXCEPT !.facility = q.plan.facility] \in PresentConfirmation
      BY <2>2 DEF PresentConfirmation
    <2>4. \A i \in ConfirmationIds : Advances(confirmations[i], confirmations'[i])
      BY <1>4, <2>2, <2>3, ConfirmationRowsAdvance DEF CommitUpdateConfirmation
    <2>5. RowsAdvance
      BY <1>4, <2>4 DEF CommitUpdateConfirmation, RowsAdvance, Advances
    <2> QED BY <1>4, <2>5, CommitFaithful DEF CommitUpdateConfirmation
  <1>5. ASSUME NEW id \in ConfirmationIds, NEW to \in ConfirmationStates,
               NEW e \in 1..MaxVersion[id], BeginOutcome(r, id, to, e)
        PROVE  AllFaithful'
    <2> DEFINE d == confirmations[id].directive
               F == [Idle EXCEPT !.op = "TransitionConfirmation", !.id = id, !.to = to,
                        !.exp = e, !.conf = confirmations[id],
                        !.dir = directives[d], !.gate = gates[directives[d].gate]]
    <2>1. confirmations[id].live /\ Held(confirmations, id, confirmations[id])
      BY <1>5, LiveHeld DEF BeginOutcome, Live
    <2>2. confirmations[id] \in PresentConfirmation
      BY <2>1, LiveRows DEF Typed, TypeOK
    <2>3. d \in DirectiveIds
      BY <2>2 DEF PresentConfirmation
    <2>4. directives[d].live /\ Held(directives, d, directives[d])
      BY <1>5, <2>3, LiveHeld DEF BeginOutcome, OutcomePossible, Executing, Live
    <2>5. directives[d] \in PresentDirective
      BY <2>3, <2>4, LiveRows DEF Typed, TypeOK
    <2>6. directives[d].gate \in GateIds
      BY <2>5 DEF PresentDirective
    <2>7. Held(gates, directives[d].gate, gates[directives[d].gate])
      BY <1>5, <2>6, LiveHeld DEF BeginOutcome, OutcomePossible, Live
    <2>8. Begin(r, F)
      BY <1>5 DEF BeginOutcome
    <2>9. Faithful(F)
      BY <2>1, <2>3, <2>4, <2>6, <2>7, EmptyRows
      DEF Idle, Faithful, HeldGate, HeldDirective
    <2> HIDE DEF F
    <2> QED BY <2>8, <2>9, BeginFaithful
  <1>6. ASSUME NEW id \in ConfirmationIds, NEW to \in ConfirmationStates,
               NEW e \in 1..MaxVersion[id],
               BeginCancel(r, id, to, e)
        PROVE  AllFaithful'
    <2> DEFINE F == [Idle EXCEPT !.op = "TransitionConfirmation", !.id = id, !.to = to,
                        !.exp = e, !.conf = confirmations[id]]
    <2>1. confirmations[id].live /\ Held(confirmations, id, confirmations[id])
      BY <1>6, LiveHeld DEF BeginCancel, Live
    <2>2. Faithful(F)
      BY <2>1, EmptyRows DEF Idle, Faithful, HeldGate, HeldDirective
    <2>3. Begin(r, F)
      BY <1>6 DEF BeginCancel
    <2> HIDE DEF F
    <2> QED BY <2>2, <2>3, BeginFaithful
  <1>7. CASE CommitOutcome(r)
    <2> DEFINE q == req[r]
               d == q.conf.directive
               g == q.dir.gate
               outcome == DirectiveOutcome(q.to)
               target == GateOutcome(q.dir, q.to)
    <2>1. /\ q \in Request /\ Valid(q) /\ q.op = "TransitionConfirmation"
          /\ q.conf.status = "pending"
      BY <1>7, InFlightSound DEF CommitOutcome, InFlight
    <2>2. /\ q.id \in ConfirmationIds /\ q.to \in ConfirmationStates /\ q.exp \in Nat
          /\ q.conf \in PresentConfirmation /\ q.dir \in PresentDirective
          /\ q.gate \in PresentGate
      BY <2>1, LiveRows DEF Valid, ConfirmationValid, Request, CanTransition,
          ExecutionConfirmationTransitions, ConfirmationStates
    <2>3. d \in DirectiveIds /\ g \in GateIds
          /\ q.dir.version \in Nat /\ q.gate.version \in Nat
      BY <2>2 DEF PresentConfirmation, PresentDirective, PresentGate
    <2>4. \A i \in ConfirmationIds : Advances(confirmations[i], confirmations'[i])
      <3>1. [q.conf EXCEPT !.status = q.to] \in PresentConfirmation
        BY <2>2 DEF PresentConfirmation
      <3> QED BY <1>7, <2>2, <3>1, ConfirmationRowsAdvance DEF CommitOutcome
    <2>5. \A i \in DirectiveIds : Advances(directives[i], directives'[i])
      <3>1. outcome \in DirectiveStates
        BY DEF DirectiveOutcome, DirectiveStates
      <3>2. [q.dir EXCEPT !.status = outcome] \in PresentDirective
        BY <2>2, <3>1 DEF PresentDirective
      <3>3. /\ Current(directives, d, q.dir.version)
            /\ directives' =
                 Write(directives, d, q.dir.version, [q.dir EXCEPT !.status = outcome])
        BY <1>7 DEF CommitOutcome
      <3> HIDE DEF outcome
      <3> QED BY <2>3, <3>2, <3>3, DirectiveRowsAdvance
    <2>6. \A i \in GateIds : Advances(gates[i], gates'[i])
      <3>1. CASE q.gate.status = target
        BY <1>7, <3>1 DEF CommitOutcome, Advances
      <3>2. CASE q.gate.status # target
        <4>1. /\ Current(gates, g, q.gate.version)
              /\ gates' = Write(gates, g, q.gate.version, [q.gate EXCEPT !.status = target])
          BY <1>7, <3>2 DEF CommitOutcome
        <4>2. CanTransition(GateUnitTransitions, q.gate.status, target)
          BY <2>1, <3>2 DEF Valid, ConfirmationValid
        <4> HIDE DEF target
        <4>3. [q.gate EXCEPT !.status = target] \in PresentGate
          <5>1. target \in GateStates
            BY <4>2 DEF CanTransition, GateUnitTransitions, GateStates
          <5> QED BY <2>2, <5>1, GateMoved
        <4> DEFINE moved == [q.gate EXCEPT !.status = target]
        <4> HIDE DEF moved, g
        <4>4. \A i \in GateIds : Advances(gates[i], Write(gates, g, q.gate.version, moved)[i])
          BY <2>3, <4>1, <4>3, GateRowsAdvance DEF moved
        <4> QED BY <4>1, <4>4 DEF moved
      <3> QED BY <3>1, <3>2
    <2>7. RowsAdvance
      BY <1>7, <2>4, <2>5, <2>6 DEF CommitOutcome, RowsAdvance, Advances
    <2> QED BY <1>7, <2>7, CommitFaithful DEF CommitOutcome
  <1>8. CASE CommitCancel(r)
    <2> DEFINE q == req[r]
    <2>1. q \in Request /\ Valid(q) /\ q.op = "TransitionConfirmation"
      BY <1>8, InFlightSound DEF CommitCancel, InFlight
    <2>2. q.id \in ConfirmationIds /\ q.exp \in Nat /\ q.conf \in PresentConfirmation
          /\ q.to \in ConfirmationStates
      BY <2>1, LiveRows DEF Valid, ConfirmationValid, Request, CanTransition,
          ExecutionConfirmationTransitions, ConfirmationStates
    <2>3. [q.conf EXCEPT !.status = q.to] \in PresentConfirmation
      BY <2>2 DEF PresentConfirmation
    <2>4. \A i \in ConfirmationIds : Advances(confirmations[i], confirmations'[i])
      BY <1>8, <2>2, <2>3, ConfirmationRowsAdvance DEF CommitCancel
    <2>5. RowsAdvance
      BY <1>8, <2>4 DEF CommitCancel, RowsAdvance, Advances
    <2> QED BY <1>8, <2>5, CommitFaithful DEF CommitCancel
  <1>9. ASSUME NEW id \in ConfirmationIds,
               BeginDeleteConfirmation(r, id)
        PROVE  AllFaithful'
    <2> DEFINE F == [Idle EXCEPT !.op = "DeleteConfirmation", !.id = id,
                        !.conf = confirmations[id]]
    <2>1. confirmations[id].live /\ Held(confirmations, id, confirmations[id])
      BY <1>9, LiveHeld DEF BeginDeleteConfirmation, Live
    <2>2. Faithful(F)
      BY <2>1, EmptyRows DEF Idle, Faithful, HeldGate, HeldDirective
    <2>3. Begin(r, F)
      BY <1>9 DEF BeginDeleteConfirmation
    <2> HIDE DEF F
    <2> QED BY <2>2, <2>3, BeginFaithful
  <1>10. CASE CommitDeleteConfirmation(r)
    <2>1. req[r].id \in ConfirmationIds
      BY <1>10, InFlightSound DEF CommitDeleteConfirmation, InFlight, Valid, ConfirmationValid
    <2>2. \A i \in ConfirmationIds : Advances(confirmations[i], confirmations'[i])
      BY <1>10, <2>1, ConfirmationRowsAdvance DEF CommitDeleteConfirmation, Live
    <2>3. RowsAdvance
      BY <1>10, <2>2 DEF CommitDeleteConfirmation, RowsAdvance, Advances
    <2> QED BY <1>10, <2>3, CommitFaithful DEF CommitDeleteConfirmation
  <1> QED
    BY <1>1, <1>2, <1>3, <1>4, <1>5, <1>6, <1>7, <1>8, <1>9, <1>10 DEF ConfirmationNext

-----------------------------------------------------------------------------
(* The whole backend. *)

\* At first no request holds anything.
LEMMA InitFaithful == Init => AllFaithful
  BY IdleFaithful DEF Init, AllFaithful, Faithful, HeldGate, HeldDirective

\* The step lemma: whatever step is taken, what requests hold stays true or is
\* given away by its version.
LEMMA NextFaithful == Typed /\ Typed' /\ AllFaithful /\ [Next]_vars => AllFaithful'
  <1> SUFFICES ASSUME Typed, Typed', AllFaithful, [Next]_vars PROVE AllFaithful'
    OBVIOUS
  <1>1. ASSUME NEW r \in Requests,
               ReservoirNext(r) \/ GateNext(r) \/ DirectiveNext(r) \/ ConfirmationNext(r)
        PROVE  AllFaithful'
    BY <1>1, ReservoirFaithful, GateFaithful, DirectiveFaithful, ConfirmationFaithful
  <1>2. ASSUME NEW r \in Requests, Abandon(r)
        PROVE  AllFaithful'
    <2>1. RowsAdvance
      BY <1>2 DEF Abandon, RowsAdvance, Advances
    <2> QED BY <1>2, <2>1, CommitFaithful DEF Abandon
  <1>3. CASE Crash
    <2> SUFFICES ASSUME NEW r \in Requests PROVE Faithful(req[r])'
      BY DEF AllFaithful
    <2>1. req'[r] = Idle
      BY <1>3 DEF Crash
    <2> QED BY <2>1, EmptyRows DEF Faithful, Idle
  <1>4. CASE UNCHANGED vars
    BY <1>4 DEF vars, AllFaithful, Faithful, HeldGate, HeldDirective, Held
  <1> QED BY <1>1, <1>2, <1>3, <1>4 DEF Next

\* Typed and AllFaithful are RequestsSound, and imply NoStaleWrite: a request
\* expects a version that is not above the one it holds, and holds one that is
\* not above the row's.
LEMMA FaithfulSuffices == Typed /\ AllFaithful => RequestsSound /\ NoStaleWrite
  <1> SUFFICES ASSUME Typed, AllFaithful PROVE RequestsSound /\ NoStaleWrite
    OBVIOUS
  <1>1. RequestsSound
    BY DEF Typed, AllFaithful, Faithful, RequestsSound, RequestsFaithful
  <1>2. ASSUME NEW T, NEW id, NEW held, NEW exp \in Nat, Held(T, id, held),
               held.version \in Nat, exp <= held.version
        PROVE  HeldRow(T, id, exp, held)
    BY <1>2 DEF Held, HeldRow, Current
  <1>3. NoStaleWrite
    <2> SUFFICES ASSUME NEW r \in Requests, NEW q, q = req[r]
        PROVE  /\ q.op \in {"UpdateReservoir", "TransitionReservoir"} =>
                    HeldRow(reservoirs, q.id, q.exp, q.res)
               /\ q.op \in {"UpdateGate", "TransitionGate"} =>
                    HeldRow(gates, q.id, q.exp, q.gate)
               /\ q.op \in {"UpdateDirective", "TransitionDirective"} =>
                    HeldRow(directives, q.id, q.exp, q.dir)
               /\ q.op \in {"UpdateConfirmation", "TransitionConfirmation"} =>
                    HeldRow(confirmations, q.id, q.exp, q.conf)
               /\ q.op = "TransitionConfirmation" /\ q.conf.status = "pending" =>
                    HeldRow(directives, q.conf.directive, q.dir.version, q.dir)
               /\ q.op \in {"TransitionDirective", "TransitionConfirmation"} /\ q.gate.live =>
                    HeldRow(gates, q.dir.gate, q.gate.version, q.gate)
      BY DEF NoStaleWrite
    <2>1. q \in Request /\ Valid(q) /\ Faithful(q)
      BY InFlightSound DEF AllFaithful
    <2>2. /\ q.exp \in Nat
          /\ q.res.version \in Nat /\ q.gate.version \in Nat
          /\ q.dir.version \in Nat /\ q.conf.version \in Nat
      BY <2>1, VersionType DEF Request
    <2>3. ASSUME q.op \in {"UpdateReservoir", "TransitionReservoir"}
          PROVE  HeldRow(reservoirs, q.id, q.exp, q.res)
      <3>1. q.exp <= q.res.version /\ Held(reservoirs, q.id, q.res)
        BY <2>1, <2>2, <2>3 DEF Valid, ReservoirValid, Faithful
      <3> QED BY <1>2, <2>2, <3>1
    <2>4. ASSUME q.op \in {"UpdateGate", "TransitionGate"}
          PROVE  HeldRow(gates, q.id, q.exp, q.gate)
      <3>1. q.exp <= q.gate.version /\ Held(gates, q.id, q.gate)
        BY <2>1, <2>2, <2>4 DEF Valid, GateValid, Faithful, HeldGate
      <3> QED BY <1>2, <2>2, <3>1
    <2>5. ASSUME q.op \in {"UpdateDirective", "TransitionDirective"}
          PROVE  HeldRow(directives, q.id, q.exp, q.dir)
      <3>1. q.exp <= q.dir.version /\ Held(directives, q.id, q.dir)
        BY <2>1, <2>2, <2>5 DEF Valid, DirectiveValid, Faithful, HeldDirective
      <3> QED BY <1>2, <2>2, <3>1
    <2>6. ASSUME q.op \in {"UpdateConfirmation", "TransitionConfirmation"}
          PROVE  HeldRow(confirmations, q.id, q.exp, q.conf)
      <3>1. q.exp <= q.conf.version /\ Held(confirmations, q.id, q.conf)
        BY <2>1, <2>2, <2>6 DEF Valid, ConfirmationValid, Faithful
      <3> QED BY <1>2, <2>2, <3>1
    <2>7. ASSUME q.op = "TransitionConfirmation", q.conf.status = "pending"
          PROVE  HeldRow(directives, q.conf.directive, q.dir.version, q.dir)
      <3>1. Held(directives, q.conf.directive, q.dir)
        BY <2>1, <2>7 DEF Valid, ConfirmationValid, Faithful, HeldDirective
      <3>2. q.dir.version <= q.dir.version
        BY <2>2
      <3> QED BY <1>2, <2>2, <3>1, <3>2
    <2>8. ASSUME q.op \in {"TransitionDirective", "TransitionConfirmation"}, q.gate.live
          PROVE  HeldRow(gates, q.dir.gate, q.gate.version, q.gate)
      <3>1. Held(gates, q.dir.gate, q.gate)
        BY <2>1, <2>8 DEF Faithful, HeldGate
      <3>2. q.gate.version <= q.gate.version
        BY <2>2
      <3> QED BY <1>2, <2>2, <3>1, <3>2
    <2> QED BY <2>3, <2>4, <2>5, <2>6, <2>7, <2>8
  <1> QED BY <1>1, <1>3

\* The locking invariant, in the form that is inductive.
THEOREM LockingCorrect == Spec => [](Typed /\ AllFaithful)
  <1>1. Init => Typed /\ AllFaithful
    BY InitTyped, InitFaithful
  <1>2. Typed /\ AllFaithful /\ [Next]_vars => (Typed /\ AllFaithful)'
    BY NextTyped, NextFaithful
  <1> QED BY <1>1, <1>2, PTL DEF Spec

\* Every request in flight carries what it has checked and holds rows that are
\* true unless their version gives them away.
THEOREM RequestsStaySound == Spec => []RequestsSound
  BY LockingCorrect, FaithfulSuffices, PTL

\* No update is ever lost.
THEOREM NoLostUpdate == Spec => []NoStaleWrite
  BY LockingCorrect, FaithfulSuffices, PTL
=============================================================================
