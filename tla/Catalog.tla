------------------------------- MODULE Catalog -------------------------------
(***************************************************************************)
(* Classrooms, teachers, classes, courses and time slots: one table each,  *)
(* with the same four handlers.  The tables are independent, so the state  *)
(* is one of them, entity says which.  Each database call is a step of its *)
(* own: an update reads the row, merges the body into its copy and saves   *)
(* the whole copy; no transaction spans the two.                           *)
(***************************************************************************)
EXTENDS CatalogSchema

CONSTANTS
  Clients,      \* concurrent requests
  Duties,       \* which operations a client calls
  Initial,      \* what the tables may hold at the start, by table
  MaxRequests,  \* bound: requests in all
  Faults        \* may a database call fail, or a request lose its context?

ASSUME InitialAssumption == \A e \in DOMAIN Schema : Initial[e] \subseteq Tables(e)
ASSUME RequestsAssumption == MaxRequests \in Nat
ASSUME FaultsAssumption == Faults \in BOOLEAN

VARIABLES
  entity,    \* which of the five tables
  rows,      \* its rows, by id, with deleted_at
  req, pc,   \* each client's request and its progress
  copy,      \* what it has read: a row with the body merged, or a total
  answer,    \* the last answer it got
  requests,  \* how many have been made
  seen       \* history: the tables there have been since its call

vars == <<entity, rows, req, pc, copy, answer, requests, seen>>

Ids == DOMAIN rows
NoRequest == [op |-> "none"]

Init ==
  /\ entity \in DOMAIN Schema
  /\ rows \in Initial[entity] /\ requests = 0
  /\ req = [c \in Clients |-> NoRequest]
  /\ pc = [c \in Clients |-> "idle"]
  /\ copy = [c \in Clients |-> <<>>]
  /\ answer = [c \in Clients |-> <<"none">>]
  /\ seen = [c \in Clients |-> {}]

Call(c) ==
  /\ pc[c] = "idle" /\ requests < MaxRequests
  /\ \E r \in Requests(entity) : r.op \in Duties[c] /\ req' = [req EXCEPT ![c] = r]
  /\ pc' = [pc EXCEPT ![c] = "called"]
  /\ answer' = [answer EXCEPT ![c] = <<"none">>]
  /\ requests' = requests + 1
  /\ seen' = [seen EXCEPT ![c] = {rows}]
  /\ UNCHANGED <<entity, rows, copy>>

Reply(c, a) ==
  /\ pc' = [pc EXCEPT ![c] = "idle"]
  /\ req' = [req EXCEPT ![c] = NoRequest]
  /\ copy' = [copy EXCEPT ![c] = <<>>]
  /\ answer' = [answer EXCEPT ![c] = a]
  /\ seen' = [k \in Clients |-> IF req'[k] = NoRequest THEN {} ELSE seen[k] \cup {rows'}]
  /\ UNCHANGED <<entity, requests>>

Refuse(c, why) == UNCHANGED rows /\ Reply(c, <<why>>)

Proceed(c, point, item) ==
  /\ pc' = [pc EXCEPT ![c] = point]
  /\ copy' = [copy EXCEPT ![c] = item]
  /\ UNCHANGED <<entity, rows, req, answer, requests, seen>>

-------------------------------------------------------------------------------
(* The table.                                                              *)

\* GetByID: deleted rows are not found.
Found(id) == id \in Ids /\ rows[id].live

\* Mutant: deleted rows free their code.
ClashesLive(id, item) ==
  \E j \in Ids \ {id} : rows[j].live /\
    \E col \in Schema[entity].unique : rows[j].item[col] = item[col]

\* The unique index covers every row of the table, deleted ones too.
Clashes(id, item) ==
  \E j \in Ids \ {id} : \E col \in Schema[entity].unique : rows[j].item[col] = item[col]

\* gorm's Save: all columns of the live row, or, when there is none, an insert
\* that on conflict overwrites the deleted row and clears deleted_at.
Save(id, item) == rows' = [rows EXCEPT ![id] = [item |-> item, live |-> TRUE]]

-------------------------------------------------------------------------------
(* The handlers.                                                           *)

\* ShouldBindJSON: every required column is there.
Binds(body) == Schema[entity].required \subseteq Named(entity, body)

\* parseID, then GetByID.
Lookup(id) == IF id = 0 THEN "bad_request" ELSE IF Found(id) THEN "found" ELSE "not_found"

At(c, point, op) == pc[c] = point /\ req[c].op = op

Create(c) ==
  LET body == req[c].body IN
    /\ At(c, "called", "create")
    /\ IF ~ Binds(body) THEN Refuse(c, "bad_request")
       ELSE IF Clashes(0, body) THEN Refuse(c, "conflict")
       ELSE /\ rows' = Append(rows, [item |-> body, live |-> TRUE])
            /\ Reply(c, <<"ok", body>>)

Absent(c) ==
  /\ pc[c] = "called" /\ req[c].op \in {"get", "update", "delete"}
  /\ Lookup(req[c].id) # "found" /\ Refuse(c, Lookup(req[c].id))

CalledFor(c, op) == At(c, "called", op) /\ Lookup(req[c].id) = "found"

Get(c) ==
  CalledFor(c, "get") /\ UNCHANGED rows /\ Reply(c, <<"ok", rows[req[c].id].item>>)

\* Mutant: only the named columns are kept.
MergeNamed(item, body) == [col \in Named(entity, body) |-> body[col]]

\* The ifs of Update: a text unless empty, a number or a list unless nil.
Merge(item, body) ==
  [col \in Columns(entity) |-> IF col \in Named(entity, body)
                               THEN body[col] ELSE item[col]]

Update(c) ==
  CalledFor(c, "update") /\ Proceed(c, "save", Merge(rows[req[c].id].item, req[c].body))

SaveUpdate(c) ==
  /\ At(c, "save", "update")
  /\ IF Clashes(req[c].id, copy[c]) THEN Refuse(c, "conflict")
     ELSE Save(req[c].id, copy[c]) /\ Reply(c, <<"ok", copy[c]>>)

Delete(c) == CalledFor(c, "delete") /\ Proceed(c, "delete", <<>>)

SoftDelete(c) ==
  /\ At(c, "delete", "delete")
  /\ rows' = [rows EXCEPT ![req[c].id].live = FALSE]
  /\ Reply(c, <<"ok">>)

\* List: the rows are counted, then a page of them is read.  gorm leaves an
\* offset that is not positive out; an int wraps around.
Offset(r) ==
  LET product == ((PageOf(r) - 1) * SizeOf(r)) % (2 * Wrap)
  IN  IF product < Wrap THEN product ELSE 0

List(c) ==
  /\ At(c, "called", "list")
  /\ IF req[c].size > MaxPageSize THEN Refuse(c, "bad_request")
     ELSE Proceed(c, "page", <<Cardinality(Live(rows))>>)

\* Mutant: deleted rows are on the page.
ReadPageOfAll(c) ==
  /\ At(c, "page", "list") /\ UNCHANGED rows
  /\ LET all == [i \in Ids |-> i]
     IN  Reply(c, <<"ok", Slice(rows, all, Offset(req[c]), SizeOf(req[c])), copy[c][1]>>)

ReadPage(c) ==
  /\ At(c, "page", "list") /\ UNCHANGED rows
  /\ \E order \in Orders(entity, rows) :
       Reply(c, <<"ok", Slice(rows, order, Offset(req[c]), SizeOf(req[c])), copy[c][1]>>)

\* A database call fails: the one write of a request is its last call.
Fail(c) == Faults /\ pc[c] # "idle" /\ Refuse(c, "error")

Client(c) ==
  Call(c) \/ Create(c) \/ Absent(c) \/ Get(c) \/ Update(c) \/ SaveUpdate(c) \/ Delete(c)
    \/ SoftDelete(c) \/ List(c) \/ ReadPage(c) \/ Fail(c)

\* Every request the model allows has been made and answered.
Finished ==
  requests = MaxRequests /\ (\A c \in Clients : pc[c] = "idle") /\ UNCHANGED vars

Next == Finished \/ \E c \in Clients : Client(c)

Spec == Init /\ [][Next]_vars

-------------------------------------------------------------------------------
(* Properties.                                                             *)

\* Rows and copies have every column of the table and no other, a client holds
\* a copy or a total only between the two calls of its request, and knows the
\* table as it is now.
ClientOK(c) ==
  /\ (req[c] = NoRequest) = (pc[c] = "idle")
  /\ pc[c] # "idle" => rows \in seen[c]
  /\ CASE pc[c] = "save" -> req[c].op = "update" /\ copy[c] \in Items(entity)
       [] pc[c] = "page" -> req[c].op = "list" /\ copy[c] \in {<<n>> : n \in 0 .. Len(rows)}
       [] pc[c] = "delete" -> req[c].op = "delete" /\ copy[c] = <<>>
       [] OTHER -> pc[c] \in {"idle", "called"} /\ copy[c] = <<>>

TypeOK ==
  /\ entity \in DOMAIN Schema /\ rows \in Tables(entity)
  /\ req \in [Clients -> Requests(entity) \cup {NoRequest}]
  /\ \A c \in Clients : ClientOK(c)

\* Create, Update, Get, Delete and List of the five services, each of one or
\* two calls, answer as CatalogSpec promises, for any number of clients that
\* change records at the same time.
Promise == INSTANCE CatalogSpec WITH records <- rows
ImplementsCatalog == Promise!Spec
===============================================================================
