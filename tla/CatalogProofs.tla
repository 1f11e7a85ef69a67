---------------------------- MODULE CatalogProofs ----------------------------
(***************************************************************************)
(* Catalog implements CatalogSpec, for any number of clients, requests,    *)
(* records and columns' values.                                            *)
(***************************************************************************)
EXTENDS Catalog, FiniteSetTheorems, TLAPS

Points == {"idle", "called", "save", "delete", "page"}

\* What a client has read was so at some moment since its call.
Read(c) ==
  /\ pc[c] = "save" =>
       /\ req[c].id \in Ids
       /\ \E old \in seen[c] : /\ req[c].id \in DOMAIN old /\ old[req[c].id].live
                               /\ copy[c] = Merge(old[req[c].id].item, req[c].body)
  /\ pc[c] = "delete" =>
       /\ req[c].id \in Ids
       /\ \E old \in seen[c] : req[c].id \in DOMAIN old /\ old[req[c].id].live
  /\ pc[c] = "page" =>
       /\ req[c].size <= MaxPageSize
       /\ \E old \in seen[c] : copy[c] = <<Cardinality(Live(old))>>

Inv ==
  /\ TypeOK
  /\ pc \in [Clients -> Points] /\ DOMAIN copy = Clients /\ DOMAIN seen = Clients
  /\ \A c \in Clients : Read(c)

\* The table only grows.
Grows == rows' \in Tables(entity) /\ DOMAIN rows \subseteq DOMAIN rows' /\ Len(rows) <= Len(rows')

\* At the start nothing has been asked.
LEMMA InitInv == Init => Inv
<1> SUFFICES ASSUME Init
             PROVE  Inv
  OBVIOUS
<1>1. rows \in Tables(entity) /\ entity \in DOMAIN Schema
  BY InitialAssumption DEF Init
<1>2. \A c \in Clients : req[c] = NoRequest /\ pc[c] = "idle" /\ copy[c] = <<>>
  BY DEF Init
<1>3. req \in [Clients -> Requests(entity) \cup {NoRequest}]
  BY DEF Init
<1>4. \A c \in Clients : ClientOK(c) /\ Read(c)
  BY <1>2 DEF ClientOK, Read
<1> QED
  BY <1>1, <1>3, <1>4 DEF Init, Inv, TypeOK, Points

\* What holds of a client goes on to hold while others take steps.
LEMMA OthersKeep ==
  ASSUME Inv, NEW k \in Clients, Grows, entity' = entity,
         req'[k] = req[k], pc'[k] = pc[k], copy'[k] = copy[k],
         pc[k] # "idle" => seen[k] \subseteq seen'[k] /\ rows' \in seen'[k]
  PROVE  ClientOK(k)' /\ Read(k)'
<1>1. ClientOK(k) /\ Read(k) /\ pc[k] \in Points
  BY DEF Inv, TypeOK
<1>2. Len(rows) \in Nat /\ Len(rows') \in Nat
  BY DEF Inv, TypeOK, Grows, Tables
<1>3. {<<n>> : n \in 0 .. Len(rows)} \subseteq {<<n>> : n \in 0 .. Len(rows')}
  BY <1>2 DEF Grows
<1>4. ClientOK(k)'
  BY <1>1, <1>3 DEF ClientOK, Items, Columns
<1>5. ASSUME pc[k] = "save"
      PROVE  Read(k)'
  <2>1. PICK old \in seen[k] :
          /\ req[k].id \in DOMAIN old /\ old[req[k].id].live
          /\ copy[k] = Merge(old[req[k].id].item, req[k].body)
    BY <1>1, <1>5 DEF Read
  <2>2. old \in seen'[k] /\ req[k].id \in DOMAIN rows'
    BY <1>1, <1>5 DEF Read, Grows, Ids
  <2>3. copy'[k] = Merge(old[req[k].id].item, req[k].body)'
    BY <2>1 DEF Merge
  <2> QED
    BY <1>5, <2>1, <2>2, <2>3 DEF Read, Ids
<1>6. ASSUME pc[k] # "save"
      PROVE  Read(k)'
  BY <1>1, <1>6 DEF Read, Grows, Ids
<1> QED
  BY <1>4, <1>5, <1>6

\* A step of one client keeps the invariant if it does for that client.
LEMMA StepOf ==
  ASSUME Inv, NEW c \in Clients, Grows, entity' = entity,
         req' \in [Clients -> Requests(entity) \cup {NoRequest}],
         pc' \in [Clients -> Points], DOMAIN copy' = Clients, DOMAIN seen' = Clients,
         ClientOK(c)', Read(c)',
         \A k \in Clients \ {c} :
           /\ req'[k] = req[k] /\ pc'[k] = pc[k] /\ copy'[k] = copy[k]
           /\ pc[k] # "idle" => seen[k] \subseteq seen'[k] /\ rows' \in seen'[k]
  PROVE  Inv'
<1>1. \A k \in Clients : ClientOK(k)' /\ Read(k)'
  BY OthersKeep
<1>2. TypeOK'
  BY <1>1 DEF Inv, TypeOK, Grows, Tables, Items, Columns, Requests
<1> QED
  BY <1>1, <1>2 DEF Inv

LEMMA CallKeeps ==
  ASSUME Inv, NEW c \in Clients, Call(c)
  PROVE  Inv'
<1>1. PICK r \in Requests(entity) : req' = [req EXCEPT ![c] = r]
  BY DEF Call
<1>2. /\ pc[c] = "idle" /\ pc' = [pc EXCEPT ![c] = "called"]
      /\ seen' = [seen EXCEPT ![c] = {rows}] /\ UNCHANGED <<entity, rows, copy>>
  BY DEF Call
<1>3. Grows
  BY <1>2 DEF Grows, Inv, TypeOK, Tables
<1>4. r # NoRequest
  BY DEF Requests, NoRequest
<1>5. ClientOK(c) /\ ClientOK(c)' /\ Read(c)'
  BY <1>1, <1>2, <1>4 DEF Inv, TypeOK, ClientOK, Read, Points
<1>6. \A k \in Clients \ {c} :
        /\ req'[k] = req[k] /\ pc'[k] = pc[k] /\ copy'[k] = copy[k]
        /\ pc[k] # "idle" => seen[k] \subseteq seen'[k] /\ rows' \in seen'[k]
  BY <1>1, <1>2 DEF Inv, TypeOK, ClientOK, Points
<1> QED
  BY <1>1, <1>2, <1>3, <1>5, <1>6, StepOf DEF Inv, TypeOK, Points

LEMMA ReplyKeeps ==
  ASSUME Inv, NEW c \in Clients, \E a : Reply(c, a), Grows
  PROVE  Inv'
<1>1. /\ pc' = [pc EXCEPT ![c] = "idle"] /\ req' = [req EXCEPT ![c] = NoRequest]
      /\ copy' = [copy EXCEPT ![c] = <<>>] /\ entity' = entity
      /\ seen' = [k \in Clients |-> IF req'[k] = NoRequest THEN {} ELSE seen[k] \cup {rows'}]
  BY DEF Reply
<1>2. ClientOK(c)' /\ Read(c)'
  BY <1>1 DEF Inv, TypeOK, ClientOK, Read, Points
<1>3. \A k \in Clients \ {c} :
        /\ req'[k] = req[k] /\ pc'[k] = pc[k] /\ copy'[k] = copy[k]
        /\ pc[k] # "idle" => seen[k] \subseteq seen'[k] /\ rows' \in seen'[k]
  BY <1>1 DEF Inv, TypeOK, ClientOK, Points
<1> QED
  BY <1>1, <1>2, <1>3, StepOf DEF Inv, TypeOK, Points

LEMMA ProceedKeeps ==
  ASSUME Inv, NEW c \in Clients, \E point \in Points : \E item : Proceed(c, point, item),
         ClientOK(c)', Read(c)'
  PROVE  Inv'
<1>0. PICK point \in Points : \E item : Proceed(c, point, item)
  OBVIOUS
<1>1. PICK item : Proceed(c, point, item)
  BY <1>0
<1>2. /\ pc' = [pc EXCEPT ![c] = point] /\ copy' = [copy EXCEPT ![c] = item]
      /\ UNCHANGED <<entity, rows, req, seen>>
  BY <1>1 DEF Proceed
<1>3. Grows
  BY <1>2 DEF Grows, Inv, TypeOK, Tables
<1>4. \A k \in Clients \ {c} :
        /\ req'[k] = req[k] /\ pc'[k] = pc[k] /\ copy'[k] = copy[k]
        /\ pc[k] # "idle" => seen[k] \subseteq seen'[k] /\ rows' \in seen'[k]
  BY <1>2 DEF Inv, TypeOK, ClientOK, Points
<1> QED
  BY <1>2, <1>3, <1>4, StepOf DEF Inv, TypeOK

\* The request of a client that is not idle.
LEMMA Asked ==
  ASSUME Inv, NEW c \in Clients, pc[c] # "idle"
  PROVE  /\ req[c] # NoRequest /\ req[c] \in Requests(entity)
         /\ req[c].op = "create" => req[c].body \in Items(entity)
         /\ req[c].op = "update" => req[c].id \in Nat /\ req[c].body \in Items(entity)
         /\ req[c].op \in {"get", "delete"} => req[c].id \in Nat
         /\ req[c].op = "list" => req[c].page \in Nat /\ req[c].size \in Nat
<1>1. req[c] # NoRequest /\ req[c] \in Requests(entity) /\ entity \in DOMAIN Schema
  BY DEF Inv, TypeOK, ClientOK
<1>2. CASE req[c] \in [op : {"create"}, body : Bodies[entity]]
  BY <1>1, <1>2, BodiesAssumption
<1>3. CASE req[c] \in [op : {"update"}, id : 0 .. MaxId, body : Bodies[entity]]
  BY <1>1, <1>3, BodiesAssumption, IdsAssumption
<1>4. CASE req[c] \in [op : {"get", "delete"}, id : 0 .. MaxId]
  BY <1>1, <1>4, IdsAssumption
<1>5. CASE req[c] \in [op : {"list"}, page : Pages, size : Sizes]
  BY <1>1, <1>5, PagingAssumption
<1> QED
  BY <1>1, <1>2, <1>3, <1>4, <1>5 DEF Requests

LEMMA RowType ==
  ASSUME Inv, NEW i \in Ids
  PROVE  rows[i] \in [item : Items(entity), live : BOOLEAN]
<1> DEFINE Row == [item : Items(entity), live : BOOLEAN]
<1>1. rows \in Seq(Row) /\ i \in DOMAIN rows
  BY DEF Inv, TypeOK, Tables, Ids
<1> HIDE DEF Row
<1>2. rows[i] \in Row
  BY <1>1
<1> QED
  BY <1>2 DEF Row

LEMMA Counted ==
  ASSUME Inv
  PROVE  Cardinality(Live(rows)) \in 0 .. Len(rows)
<1>1. Len(rows) \in Nat /\ Live(rows) \subseteq 1 .. Len(rows)
  BY DEF Inv, TypeOK, Tables, Live
<1>2. IsFiniteSet(1 .. Len(rows)) /\ Cardinality(1 .. Len(rows)) = Len(rows)
  <2>1. /\ IsFiniteSet(1 .. Len(rows))
        /\ Cardinality(1 .. Len(rows)) = IF 1 > Len(rows) THEN 0 ELSE Len(rows) - 1 + 1
    BY <1>1, FS_Interval
  <2> QED
    BY <1>1, <2>1
<1>3. IsFiniteSet(Live(rows)) /\ Cardinality(Live(rows)) <= Len(rows)
  BY <1>1, <1>2, FS_Subset
<1> QED
  BY <1>1, <1>3, FS_CardinalityType

LEMMA MergeType ==
  ASSUME Inv, NEW old \in Items(entity), NEW body \in Items(entity)
  PROVE  Merge(old, body) \in Items(entity)
BY DEF Merge, Items

\* What a write leaves is a table with the same rows and perhaps one more.
LEMMA WritesGrow ==
  ASSUME Inv, NEW c \in Clients, Create(c) \/ SaveUpdate(c) \/ SoftDelete(c)
  PROVE  Grows
<1>1. rows \in Tables(entity) /\ pc[c] # "idle"
  BY DEF Inv, TypeOK, Create, SaveUpdate, SoftDelete, At
<1>2. CASE UNCHANGED rows
  BY <1>1, <1>2 DEF Grows, Tables
<1> DEFINE Row == [item : Items(entity), live : BOOLEAN]
<1>0. ASSUME NEW x \in Row
      PROVE  /\ Append(rows, x) \in Seq(Row) /\ Len(Append(rows, x)) = Len(rows) + 1
             /\ \A i \in DOMAIN rows : /\ [rows EXCEPT ![i] = x] \in Seq(Row)
                                       /\ Len([rows EXCEPT ![i] = x]) = Len(rows)
  <2>1. rows \in Seq(Row)
    BY <1>1 DEF Tables
  <2> HIDE DEF Row
  <2> QED
    BY <2>1
<1>6. rows \in Seq(Row) /\ Len(rows) \in Nat /\ DOMAIN rows = 1 .. Len(rows)
  BY <1>1 DEF Tables
<1>3. CASE Create(c) /\ rows' # rows
  <2>1. rows' = Append(rows, [item |-> req[c].body, live |-> TRUE]) /\ req[c].body \in Items(entity)
    BY <1>1, <1>3, Asked DEF Create, At, Refuse
  <2>2. /\ [item |-> req[c].body, live |-> TRUE] \in Row /\ entity' = entity
    BY <1>3, <2>1 DEF Create, Reply, Refuse
  <2> QED
    BY <1>0, <1>6, <2>1, <2>2 DEF Grows, Tables
<1>4. CASE SaveUpdate(c) /\ rows' # rows
  <2>1. /\ rows' = [rows EXCEPT ![req[c].id] = [item |-> copy[c], live |-> TRUE]]
        /\ copy[c] \in Items(entity)
    BY <1>4 DEF SaveUpdate, Save, At, Refuse, Inv, TypeOK, ClientOK
  <2>2. /\ [item |-> copy[c], live |-> TRUE] \in Row /\ req[c].id \in DOMAIN rows
        /\ entity' = entity
    BY <1>4, <2>1 DEF SaveUpdate, Reply, Refuse, Inv, Read, At, Ids
  <2> QED
    BY <1>0, <1>6, <2>1, <2>2 DEF Grows, Tables
<1>5. CASE SoftDelete(c)
  <2> DEFINE x == [rows[req[c].id] EXCEPT !.live = FALSE]
  <2>1. rows' = [rows EXCEPT ![req[c].id] = x] /\ req[c].id \in DOMAIN rows /\ entity' = entity
    BY <1>5 DEF SoftDelete, Reply, Inv, Read, At, Ids
  <2>2. rows[req[c].id] \in Row
    BY <2>1, RowType DEF Ids
  <2>3. x \in Row
    BY <2>2
  <2> QED
    BY <1>0, <1>6, <2>1, <2>3 DEF Grows, Tables
<1> QED
  BY <1>2, <1>3, <1>4, <1>5

\* Every step keeps the invariant.
LEMMA NextInv == Inv /\ [Next]_vars => Inv'
<1> SUFFICES ASSUME Inv, [Next]_vars
             PROVE  Inv'
  OBVIOUS
<1>1. CASE UNCHANGED vars
  <2>1. UNCHANGED <<entity, rows, req, pc, copy, seen>>
    BY <1>1 DEF vars
  <2>2. TypeOK'
    BY <2>1 DEF Inv, TypeOK, ClientOK
  <2>3. \A c \in Clients : Read(c)'
    <3>1. \A old, body : Merge(old, body)' = Merge(old, body)
      BY <2>1 DEF Merge
    <3> QED
      BY <2>1, <3>1 DEF Inv, Read, Ids
  <2> QED
    BY <2>1, <2>2, <2>3 DEF Inv
<1>2. ASSUME NEW c \in Clients, Client(c)
      PROVE  Inv'
  <2>1. CASE Call(c)
    BY <2>1, CallKeeps
  <2>2. CASE Create(c) \/ SaveUpdate(c) \/ SoftDelete(c)
    <3>1. \E a : Reply(c, a)
      BY <2>2 DEF Create, SaveUpdate, SoftDelete, Refuse
    <3> QED
      BY <2>2, <3>1, WritesGrow, ReplyKeeps
  <2>3. CASE Absent(c) \/ Get(c) \/ ReadPage(c) \/ Fail(c) \/ (List(c) /\ req[c].size > MaxPageSize)
    <3>1. UNCHANGED rows /\ \E a : Reply(c, a)
      BY <2>3 DEF Absent, Get, ReadPage, Fail, List, Refuse
    <3>2. Grows
      BY <3>1 DEF Grows, Inv, TypeOK, Tables, Reply
    <3> QED
      BY <3>1, <3>2, ReplyKeeps
  <2>4. CASE Update(c)
    <3>1. /\ Proceed(c, "save", Merge(rows[req[c].id].item, req[c].body))
          /\ At(c, "called", "update") /\ Lookup(req[c].id) = "found"
      BY <2>4 DEF Update, CalledFor
    <3>2. req[c].id \in Ids /\ rows[req[c].id].live
      BY <3>1 DEF Lookup, Found
    <3>3. rows[req[c].id].item \in Items(entity) /\ req[c].body \in Items(entity)
      <4>1. rows[req[c].id] \in [item : Items(entity), live : BOOLEAN]
        BY <3>2, RowType
      <4> QED
        BY <3>1, <4>1, Asked DEF At
    <3>4. Merge(rows[req[c].id].item, req[c].body) \in Items(entity)
      BY <3>3, MergeType
    <3>5. /\ pc'[c] = "save" /\ copy'[c] = Merge(rows[req[c].id].item, req[c].body)
          /\ UNCHANGED <<entity, rows, req, seen>>
      BY <3>1 DEF Proceed, Inv
    <3>6. rows \in seen[c] /\ req[c] # NoRequest
      BY <3>1, Asked DEF At, Inv, TypeOK, ClientOK
    <3>7. ClientOK(c)'
      BY <3>1, <3>4, <3>5, <3>6 DEF ClientOK, At, Items, Columns
    <3>8. copy'[c] = Merge(rows[req[c].id].item, req[c].body)'
      BY <3>5 DEF Merge
    <3>9. Read(c)'
      BY <3>2, <3>5, <3>6, <3>8 DEF Read, Ids
    <3> QED
      BY <3>1, <3>7, <3>9, ProceedKeeps DEF Points
  <2>5. CASE Delete(c)
    <3>1. /\ Proceed(c, "delete", <<>>)
          /\ At(c, "called", "delete") /\ Lookup(req[c].id) = "found"
      BY <2>5 DEF Delete, CalledFor
    <3>2. req[c].id \in Ids /\ rows[req[c].id].live
      BY <3>1 DEF Lookup, Found
    <3>3. /\ pc'[c] = "delete" /\ copy'[c] = <<>>
          /\ UNCHANGED <<entity, rows, req, seen>>
      BY <3>1 DEF Proceed, Inv
    <3>4. rows \in seen[c] /\ req[c] # NoRequest
      BY <3>1, Asked DEF At, Inv, TypeOK, ClientOK
    <3>5. ClientOK(c)' /\ Read(c)'
      BY <3>1, <3>2, <3>3, <3>4 DEF ClientOK, Read, At, Ids
    <3> QED
      BY <3>1, <3>5, ProceedKeeps DEF Points
  <2>6. CASE List(c) /\ ~ req[c].size > MaxPageSize
    <3>1. At(c, "called", "list") /\ Proceed(c, "page", <<Cardinality(Live(rows))>>)
      BY <2>6 DEF List
    <3>2. /\ pc'[c] = "page" /\ copy'[c] = <<Cardinality(Live(rows))>>
          /\ UNCHANGED <<entity, rows, req, seen>>
      BY <3>1 DEF Proceed, Inv
    <3>3. rows \in seen[c] /\ req[c] # NoRequest
      BY <3>1, Asked DEF At, Inv, TypeOK, ClientOK
    <3>4. req[c].size <= MaxPageSize
      BY <2>6, <3>1, Asked, PagingAssumption DEF At
    <3>5. copy'[c] \in {<<n>> : n \in 0 .. Len(rows')}
      BY <3>2, Counted
    <3>6. ClientOK(c)'
      BY <3>1, <3>2, <3>3, <3>5 DEF ClientOK, At
    <3>7. Read(c)'
      BY <3>2, <3>3, <3>4 DEF Read
    <3> QED
      BY <3>1, <3>6, <3>7, ProceedKeeps DEF Points
  <2> QED
    BY <1>2, <2>1, <2>2, <2>3, <2>4, <2>5, <2>6 DEF Client
<1> QED
  BY <1>1, <1>2 DEF Next, Finished

\* An offset that is an int is not changed.
LEMMA OffsetKept ==
  ASSUME NEW r, r.page \in Nat, r.size \in Nat
  PROVE  /\ Offset(r) \in 0 .. Wrap - 1
         /\ (PageOf(r) - 1) * SizeOf(r) < Wrap => Offset(r) = (PageOf(r) - 1) * SizeOf(r)
<1> DEFINE p == (PageOf(r) - 1) * SizeOf(r)
<1>1. PageOf(r) - 1 \in Nat /\ SizeOf(r) \in Nat
  BY PagingAssumption DEF PageOf, SizeOf
<1>2. p \in Nat
  BY <1>1
<1>3. Wrap \in Nat \ {0}
  BY PagingAssumption
<1> HIDE DEF p
<1>4. p % (2 * Wrap) \in Nat
  BY <1>2, <1>3
<1>5. p < Wrap => p % (2 * Wrap) = p
  BY <1>2, <1>3
<1>6. Offset(r) = IF p % (2 * Wrap) < Wrap THEN p % (2 * Wrap) ELSE 0
  BY DEF Offset, p
<1> QED
  BY <1>2, <1>3, <1>4, <1>5, <1>6 DEF p

\* CatalogSpec is about the same columns, requests and pages.
LEMMA SameSchema ==
  /\ Promise!Schema = Schema
  /\ \A e : Promise!Columns(e) = Columns(e) /\ Promise!Requests(e) = Requests(e)
  /\ \A e, body : Promise!Named(e, body) = Named(e, body)
  /\ \A table : Promise!Live(table) = Live(table)
  /\ \A r : Promise!PageOf(r) = PageOf(r) /\ Promise!SizeOf(r) = SizeOf(r)
  /\ \A S : Promise!Cardinality(S) = Cardinality(S)
  /\ \A e, table : Promise!Orders(e, table) = Orders(e, table)
  /\ \A table, order, offset, size :
       Promise!Slice(table, order, offset, size) = Slice(table, order, offset, size)
<1>1. Promise!Schema = Schema
  BY DEF Promise!Schema, Schema, Promise!Classroom, Classroom, Promise!Teacher, Teacher,
         Promise!Class, Class, Promise!Course, Course, Promise!TimeSlot, TimeSlot
<1>2. \A e : Promise!Columns(e) = Columns(e) /\ Promise!Requests(e) = Requests(e)
  BY <1>1 DEF Promise!Columns, Columns, Promise!Requests, Requests
<1>3. \A e, body : Promise!Named(e, body) = Named(e, body)
  BY <1>1, <1>2 DEF Promise!Named, Named, Promise!Blank, Blank
<1>4. \A table : Promise!Live(table) = Live(table)
  BY DEF Promise!Live, Live
<1>5. \A r : Promise!PageOf(r) = PageOf(r) /\ Promise!SizeOf(r) = SizeOf(r)
  BY DEF Promise!PageOf, PageOf, Promise!SizeOf, SizeOf
<1>6. \A S : Promise!Cardinality(S) = Cardinality(S)
  BY Zenon DEF Promise!Cardinality, Cardinality, Promise!IsFiniteSet, IsFiniteSet
<1>7. \A S, T : Promise!Injection(S, T) = Injection(S, T)
  BY DEF Promise!Injection, Injection, Promise!IsInjective, IsInjective
<1>8. \A e, table, i, j : Promise!Before(e, table, i, j) <=> Before(e, table, i, j)
  BY DEF Promise!Before, Before
<1>9. \A e, table : Promise!Orders(e, table) = Orders(e, table)
  BY <1>4, <1>6, <1>7, <1>8 DEF Promise!Orders, Orders
<1>10. \A table, order, offset, size :
        Promise!Slice(table, order, offset, size) = Slice(table, order, offset, size)
  BY DEF Promise!Slice, Slice
<1> QED
  BY <1>1, <1>2, <1>3, <1>4, <1>5, <1>6, <1>9, <1>10

\* Every step of Catalog is one of CatalogSpec or leaves what it promises alone.
LEMMA Simulation == Inv /\ [Next]_vars => [Promise!Next]_(Promise!vars)
<1> SUFFICES ASSUME Inv, [Next]_vars
             PROVE  [Promise!Next]_(Promise!vars)
  OBVIOUS
<1> USE DEF NoRequest, Promise!Nothing
<1>1. CASE UNCHANGED vars
  BY <1>1 DEF vars, Promise!vars
<1>2. ASSUME NEW c \in Clients, Client(c)
      PROVE  Promise!Next \/ UNCHANGED Promise!vars
  <2> DEFINE r == req[c]
  <2>0. \A a : Reply(c, a) => Promise!Reply(c, a)
    BY DEF Reply, Promise!Reply
  <2>1. \A why : Refuse(c, why) => Promise!Refuse(c, why)
    BY <2>0 DEF Refuse, Promise!Refuse
  <2>2. CASE Call(c)
    BY <2>2, SameSchema DEF Call, Promise!Call, Promise!Next, Inv, TypeOK, ClientOK
  <2>3. ASSUME pc[c] # "idle", r # NoRequest
        PROVE  Promise!Handle(c) => Promise!Next
    BY DEF Promise!Next
  <2>4. CASE Fail(c)
    <3>1. Refuse(c, "error") /\ r # NoRequest
      BY <2>4, Asked DEF Fail
    <3> QED
      BY <2>1, <3>1 DEF Promise!Handle, Promise!Next
  <2>5. CASE Create(c)
    <3>1. pc[c] = "called" /\ r.op = "create" /\ r # NoRequest
      BY <2>5, Asked DEF Create, At
    <3>2. Promise!Malformed(r) <=> ~ Binds(r.body)
      BY <3>1, SameSchema DEF Promise!Malformed, Binds
    <3>3. Clashes(0, r.body) <=> Promise!Taken(0, r.body)
      BY SameSchema DEF Clashes, Promise!Taken, Ids
    <3>4. CASE ~ Binds(r.body)
      BY <2>1, <2>5, <3>1, <3>2, <3>4 DEF Create, Promise!Handle, Promise!Next
    <3>5. CASE Binds(r.body)
      <4>1. Promise!Create(c, r)
        BY <2>0, <2>1, <2>5, <3>3, <3>5 DEF Create, Promise!Create
      <4> QED
        BY <3>1, <3>2, <3>5, <4>1 DEF Promise!Handle, Promise!Next
    <3> QED
      BY <3>4, <3>5
  <2>6. CASE Absent(c)
    <3>1. /\ pc[c] = "called" /\ r.op \in {"get", "update", "delete"} /\ r # NoRequest
          /\ r.id \in Nat
      BY <2>6, Asked DEF Absent
    <3>2. Promise!Malformed(r) <=> r.id = 0
      BY <3>1 DEF Promise!Malformed
    <3>3. CASE r.id = 0
      <4>1. Refuse(c, "bad_request")
        BY <2>6, <3>3 DEF Absent, Lookup
      <4> QED
        BY <2>1, <3>1, <3>2, <3>3, <4>1 DEF Promise!Handle, Promise!Next
    <3>4. CASE r.id # 0
      <4>1. Refuse(c, "not_found") /\ ~ Promise!Exists(rows, r.id)
        BY <2>6, <3>4 DEF Absent, Lookup, Found, Ids, Promise!Exists
      <4> QED
        BY <2>1, <3>1, <3>2, <3>4, <4>1 DEF Promise!Handle, Promise!Next
    <3> QED
      BY <3>3, <3>4
  <2>7. CASE Get(c)
    <3>1. /\ r.op = "get" /\ r # NoRequest /\ Lookup(r.id) = "found" /\ UNCHANGED rows
          /\ Reply(c, <<"ok", rows[r.id].item>>)
      BY <2>7, Asked DEF Get, CalledFor, At
    <3>2. ~ Promise!Malformed(r) /\ Promise!Exists(rows, r.id)
      BY <3>1 DEF Lookup, Found, Ids, Promise!Exists, Promise!Malformed
    <3> QED
      BY <2>0, <3>1, <3>2 DEF Promise!Get, Promise!Handle, Promise!Next
  <2>8. CASE Update(c) \/ Delete(c) \/ (List(c) /\ ~ r.size > MaxPageSize)
    BY <2>8 DEF Update, Delete, List, Proceed, Promise!vars
  <2>9. CASE List(c) /\ r.size > MaxPageSize
    <3>1. r.op = "list" /\ r # NoRequest /\ Refuse(c, "bad_request")
      BY <2>9, Asked DEF List, At
    <3> QED
      BY <2>1, <2>9, <3>1 DEF Promise!Malformed, Promise!Handle, Promise!Next
  <2>10. CASE SaveUpdate(c)
    <3>1. pc[c] = "save" /\ r.op = "update" /\ r # NoRequest /\ r.id \in Nat
      BY <2>10, Asked DEF SaveUpdate, At
    <3>2. PICK old \in seen[c] : /\ r.id \in DOMAIN old /\ old[r.id].live
                                /\ copy[c] = Merge(old[r.id].item, r.body)
      BY <3>1 DEF Inv, Read
    <3>3. r.id # 0
      BY <3>1 DEF Inv, Read, TypeOK, Tables, Ids
    <3>4. copy[c] = Promise!Merged(old[r.id].item, r.body)
      BY <3>2, SameSchema DEF Merge, Promise!Merged
    <3>5. Clashes(r.id, copy[c]) <=> Promise!Taken(r.id, copy[c])
      BY SameSchema DEF Clashes, Promise!Taken, Ids
    <3>6. Promise!Update(c, r)
      <4>1. Promise!Exists(old, r.id)
        BY <3>2 DEF Promise!Exists
      <4>2. IF Promise!Taken(r.id, copy[c]) THEN Promise!Refuse(c, "conflict")
            ELSE /\ rows' = [rows EXCEPT ![r.id] = [item |-> copy[c], live |-> TRUE]]
                 /\ Promise!Reply(c, <<"ok", copy[c]>>)
        BY <2>0, <2>1, <2>10, <3>5 DEF SaveUpdate, Save
      <4> QED
        BY <3>4, <4>1, <4>2 DEF Promise!Update
    <3>7. ~ Promise!Malformed(r)
      BY <3>1, <3>3 DEF Promise!Malformed
    <3> QED
      BY <3>1, <3>6, <3>7 DEF Promise!Handle, Promise!Next
  <2>11. CASE SoftDelete(c)
    <3>1. pc[c] = "delete" /\ r.op = "delete" /\ r # NoRequest /\ r.id \in Nat
      BY <2>11, Asked DEF SoftDelete, At
    <3>2. r.id \in Ids /\ \E old \in seen[c] : Promise!Exists(old, r.id)
      BY <3>1 DEF Inv, Read, Promise!Exists
    <3>3. ~ Promise!Malformed(r)
      BY <3>1, <3>2 DEF Promise!Malformed, Inv, TypeOK, Tables, Ids
    <3>4. Promise!Delete(c, r)
      BY <2>0, <2>11, <3>2 DEF SoftDelete, Promise!Delete
    <3> QED
      BY <3>1, <3>3, <3>4 DEF Promise!Handle, Promise!Next
  <2>12. CASE ReadPage(c)
    <3>1. /\ pc[c] = "page" /\ r.op = "list" /\ r # NoRequest
          /\ r.page \in Nat /\ r.size \in Nat /\ UNCHANGED rows
      BY <2>12, Asked DEF ReadPage, At
    <3>2. PICK old \in seen[c] : copy[c] = <<Cardinality(Live(old))>>
      BY <3>1 DEF Inv, Read
    <3>3. ~ Promise!Malformed(r)
      BY <3>1, PagingAssumption DEF Promise!Malformed, Inv, Read
    <3>4. PICK order \in Orders(entity, rows) :
            Reply(c, <<"ok", Slice(rows, order, Offset(r), SizeOf(r)), copy[c][1]>>)
      BY <2>12 DEF ReadPage
    <3>5. Promise!Reply(c, <<"ok", Slice(rows, order, Offset(r), SizeOf(r)), Cardinality(Live(old))>>)
      BY <2>0, <3>2, <3>4
    <3>6. Promise!List(c, r)
      BY <3>1, <3>5, OffsetKept, SameSchema DEF Promise!List
    <3> QED
      BY <3>1, <3>3, <3>6 DEF Promise!Handle, Promise!Next
  <2> QED
    BY <1>2, <2>2, <2>4, <2>5, <2>6, <2>7, <2>8, <2>9, <2>10, <2>11, <2>12 DEF Client
<1> QED
  BY <1>1, <1>2 DEF Next, Finished

\* Types, and that a client holds a copy or a total only between the two calls
\* of its request, for any number of clients.
THEOREM CatalogTypes == Spec => []TypeOK
<1>1. Inv => TypeOK
  BY DEF Inv
<1> QED
  BY <1>1, InitInv, NextInv, PTL DEF Spec

\* The five services keep the promise of CatalogSpec, with any number of
\* clients that change the same records, and any call failing.
THEOREM CatalogPromiseKept == Spec => ImplementsCatalog
<1>1. Init => Promise!Init
  BY SameSchema DEF Init, Promise!Init, NoRequest, Promise!Nothing
<1> QED
  BY <1>1, InitInv, NextInv, Simulation, PTL DEF Spec, ImplementsCatalog, Promise!Spec
===============================================================================
