----------------------------- MODULE CatalogSpec -----------------------------
(***************************************************************************)
(* What a catalogue promises its clients, any number of them.  Create, Get *)
(* and every refusal take effect at one moment.  An update merges the      *)
(* columns it names into some version the record had since the call, and   *)
(* leaves that as the record, which is not deleted then even if it was     *)
(* before; so with nobody else changing the record it is atomic, and       *)
(* otherwise it may undo what others did.  A delete needs a record that was*)
(* there at some moment since the call.  A list shows one page as it is,   *)
(* beside a total as it was at some moment since the call.  A code once    *)
(* used is used for ever by its record, deleted or not, and a request that *)
(* fails changes nothing.                                                  *)
(***************************************************************************)
EXTENDS CatalogSchema

CONSTANTS
  Clients,
  Duties,   \* which operations a client calls
  Initial   \* what the tables may hold at the start, by table

VARIABLES
  entity, records, req, answer,
  seen      \* the tables there have been since each client's call

vars == <<entity, records, req, answer, seen>>

Nothing == [op |-> "none"]
Exists(table, id) == id \in DOMAIN table /\ table[id].live

\* Does another record have, or did it have, a unique value of the item?
Taken(id, item) ==
  \E col \in Schema[entity].unique, j \in DOMAIN records \ {id} :
    records[j].item[col] = item[col]

Merged(item, body) ==
  [col \in Columns(entity) |-> IF col \in Named(entity, body)
                               THEN body[col] ELSE item[col]]

Init ==
  /\ entity \in DOMAIN Schema /\ records \in Initial[entity]
  /\ req = [c \in Clients |-> Nothing]
  /\ answer = [c \in Clients |-> <<"none">>]
  /\ seen = [c \in Clients |-> {}]

Call(c) ==
  /\ req[c] = Nothing
  /\ \E r \in Requests(entity) : r.op \in Duties[c] /\ req' = [req EXCEPT ![c] = r]
  /\ answer' = [answer EXCEPT ![c] = <<"none">>]
  /\ seen' = [seen EXCEPT ![c] = {records}]
  /\ UNCHANGED <<entity, records>>

Reply(c, a) ==
  /\ req' = [req EXCEPT ![c] = Nothing]
  /\ answer' = [answer EXCEPT ![c] = a]
  /\ seen' = [k \in Clients |-> IF req'[k] = Nothing THEN {} ELSE seen[k] \cup {records'}]
  /\ UNCHANGED entity

Refuse(c, why) == UNCHANGED records /\ Reply(c, <<why>>)

Malformed(r) ==
  CASE r.op = "create" -> ~ Schema[entity].required \subseteq Named(entity, r.body)
    [] r.op = "list" -> r.size > MaxPageSize
    [] OTHER -> r.id = 0

Create(c, r) ==
  IF Taken(0, r.body) THEN Refuse(c, "conflict")
  ELSE /\ records' = Append(records, [item |-> r.body, live |-> TRUE])
       /\ Reply(c, <<"ok", r.body>>)

Get(c, r) ==
  /\ Exists(records, r.id) /\ UNCHANGED records
  /\ Reply(c, <<"ok", records[r.id].item>>)

Update(c, r) ==
  \E old \in seen[c] :
    /\ Exists(old, r.id)
    /\ LET item == Merged(old[r.id].item, r.body)
       IN  IF Taken(r.id, item) THEN Refuse(c, "conflict")
           ELSE /\ records' = [records EXCEPT ![r.id] = [item |-> item, live |-> TRUE]]
                /\ Reply(c, <<"ok", item>>)

Delete(c, r) ==
  /\ \E old \in seen[c] : Exists(old, r.id)
  /\ records' = [records EXCEPT ![r.id].live = FALSE]
  /\ Reply(c, <<"ok">>)

\* A page whose offset is no int is another page.
List(c, r) ==
  /\ UNCHANGED records
  /\ \E old \in seen[c], order \in Orders(entity, records), offset \in 0 .. Wrap - 1 :
       /\ (PageOf(r) - 1) * SizeOf(r) < Wrap => offset = (PageOf(r) - 1) * SizeOf(r)
       /\ Reply(c, <<"ok", Slice(records, order, offset, SizeOf(r)), Cardinality(Live(old))>>)

Handle(c) ==
  LET r == req[c] IN
    /\ r # Nothing
    /\ \/ Refuse(c, "error")
       \/ Malformed(r) /\ Refuse(c, "bad_request")
       \/ /\ ~ Malformed(r)
          /\ \/ r.op = "create" /\ Create(c, r)
             \/ r.op = "list" /\ List(c, r)
             \/ r.op = "get" /\ Get(c, r)
             \/ r.op = "update" /\ Update(c, r)
             \/ r.op = "delete" /\ Delete(c, r)
             \/ r.op \in {"get", "update", "delete"} /\ ~ Exists(records, r.id)
                  /\ Refuse(c, "not_found")

Next == \E c \in Clients : Call(c) \/ Handle(c)

Spec == Init /\ [][Next]_vars
===============================================================================
