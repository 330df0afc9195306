---------------------------- MODULE Persistence ----------------------------
(***************************************************************************)
(* The Prisma persistence of nets and runs:                                *)
(*   src/cmd/petri/app/models/net.server.ts       (nets)                   *)
(*   src/cmd/petri/app/models/net.prisma.server.ts (netService.create)     *)
(*   src/cmd/petri/app/models/net.run.server.ts   (runs, actions, constants)*)
(* Each exported function parses its input with zod and then makes ONE     *)
(* Prisma call, which the database applies atomically (a nested write is   *)
(* one transaction), so each function is one action here.                 *)
(*                                                                         *)
(* The database is a set of tables, each a function from the ids of its   *)
(* rows to the row.  Devices, events and their fields are rows no code     *)
(* under src/ writes; they are the constants Devices, Events and FieldsOf. *)
(* Prisma semantics the model relies on:                                   *)
(*  - a nested connect to a missing row, and update or delete of a missing *)
(*    row, throw and write nothing;                                        *)
(*  - a scalar foreign key to a missing row throws (P2003);                *)
(*  - a nested update/delete inside parent.update only reaches rows        *)
(*    related to that parent, and throws otherwise;                        *)
(*  - deleting a row another row requires follows the relation's           *)
(*    onDelete, which lives in the schema, not in src/: OnDeleteRun and    *)
(*    OnDeleteConstant say which ("Restrict" is Prisma's default);         *)
(*  - Action.runs is a list: actions and runs are many-to-many, so         *)
(*    deleting a run deletes only the links to its actions.                *)
(* Formats: net ids come from createId() (cuid2, first letter random);     *)
(* CuidV1 is the subset that z.string().cuid() accepts (first letter c).   *)
(* Every other id the model uses is a valid cuid.                          *)
(***************************************************************************)
EXTENDS Naturals, Sequences, FiniteSets, TLC

CONSTANTS
  Users,            \* authors (user ids)
  NetIds,           \* ids createId() may return for a new net
  CuidV1,           \* the net ids z.string().cuid() accepts
  RowIds,           \* ids the database gives new runs, actions, constants
  Devices,          \* device rows
  Events,           \* event rows
  FieldsOf,         \* FieldsOf[e]: the field rows of event e
  Missing,          \* a well-formed id of no row
  Names,            \* names callers give nets and runs
  Values,           \* constant values
  NoValue,          \* an optional input left undefined
  OnDeleteRun,      \* schema: Run.net onDelete, "Restrict" or "Cascade"
  OnDeleteConstant  \* schema: Constant.action onDelete

Fields == UNION { FieldsOf[e] : e \in Events }

ASSUME CuidV1 \subseteq NetIds
ASSUME Missing \notin NetIds \cup RowIds \cup Devices \cup Events \cup Fields
ASSUME {OnDeleteRun, OnDeleteConstant} \subseteq {"Restrict", "Cascade"}

VARIABLES
  nets,       \* Net rows:      id -> [author, name]
  runs,       \* Run rows:      id -> [net, name]
  actions,    \* Action rows:   id -> [runs, device, event]
  consts,     \* Constant rows: id -> [action, field, value]
  used,       \* every id the database or createId() has handed out
  call,       \* the last call and its arguments
  result      \* what it returned ("ok", or a list/row) or threw

vars == << nets, runs, actions, consts, used, call, result >>
tables == << nets, runs, actions, consts, used >>

\* Add row r under id to table t.
Insert(t, id, r) == [x \in DOMAIN t \cup {id} |-> IF x = id THEN r ELSE t[x]]
\* Table t without the rows of ids.
Drop(t, ids) == [x \in DOMAIN t \ ids |-> t[x]]

Done(c) == call' = c /\ result' = "ok"
Fail(c, err) == call' = c /\ result' = err /\ UNCHANGED tables
Read(c, r) == call' = c /\ result' = r /\ UNCHANGED tables

\* The i-th id the database hands out next (ids are never reused).
NewIds(k) == CHOOSE s \in [1 .. k -> RowIds \ used] :
               \A i, j \in 1 .. k : i # j => s[i] # s[j]
CanIssue(k) == Cardinality(RowIds \ used) >= k

\* An action input {deviceId, eventID, constants}: at most one constant.
\* A missing device takes the same path as a missing event (a nested
\* connect to no row), so only the event ranges over a missing id.
ConstInputs == { << >> } \cup
               { << [field |-> f, value |-> v] >> : f \in Fields \cup {Missing}, v \in Values }
ActionInputs == [device : Devices, event : Events \cup {Missing},
                 constants : ConstInputs]

\* The database accepts the nested create of an action: the device and the
\* event it connects exist, and so does the field of each constant.
ActionOk(a) ==
  /\ a.device \in Devices /\ a.event \in Events
  /\ \A i \in DOMAIN a.constants : a.constants[i].field \in Fields

\* The number of rows the nested create of action input a writes.
RowsOf(a) == 1 + Len(a.constants)

\* The nested create of action input a for the runs rs, with ids s: the
\* action gets s[1], its constant (if any) s[2].
CreateAction(a, rs, s) ==
  /\ actions' = Insert(actions, s[1], [runs |-> rs, device |-> a.device, event |-> a.event])
  /\ consts' = IF a.constants = << >> THEN consts
               ELSE Insert(consts, s[2], [action |-> s[1],
                                         field |-> a.constants[1].field,
                                         value |-> a.constants[1].value])
-----------------------------------------------------------------------------
(***************************************************************************)
(* net.server.ts and netService.create                                     *)
(***************************************************************************)

\* createNet: a Net row with a createId() id.
CreateNet(u, name) ==
  \E id \in NetIds \ used :
    /\ nets' = Insert(nets, id, [author |-> u, name |-> name])
    /\ used' = used \cup {id}
    /\ Done([op |-> "createNet", net |-> id])
    /\ UNCHANGED << runs, actions, consts >>

\* netService.create: the same row; the net it returns is converted from
\* the created row, whose places, transitions and arcs are empty.
ServiceCreate(u, name) ==
  \E id \in NetIds \ used :
    /\ nets' = Insert(nets, id, [author |-> u, name |-> name])
    /\ used' = used \cup {id}
    /\ Done([op |-> "create", net |-> id])
    /\ UNCHANGED << runs, actions, consts >>

\* updateNet: by id alone (no author); an undefined id cannot select a row.
UpdateNet(id, name) ==
  LET c == [op |-> "updateNet", net |-> id]
  IN CASE id = NoValue            -> Fail(c, "PrismaError")
       [] id \notin DOMAIN nets   -> Fail(c, "PrismaError")
       [] OTHER -> /\ nets' = [nets EXCEPT ![id].name = IF name = NoValue THEN @ ELSE name]
                   /\ Done(c)
                   /\ UNCHANGED << runs, actions, consts, used >>

\* getNet: findFirstOrThrow where {id, authorID}.
GetNet(u, id) ==
  Read([op |-> "getNet", net |-> id],
       IF id \in DOMAIN nets /\ nets[id].author = u THEN "ok" ELSE "PrismaError")

\* getNetListItems / getNetsWithEvents / getNetsWithDevice: the author's
\* nets, filtered.  No code under src/ writes children, transitions or
\* device links, so the last two filters select nothing.
GetNetListItems(u) ==
  Read([op |-> "getNetListItems", net |-> NoValue], "list")
GetNetsWithEvents(u) == Read([op |-> "getNetsWithEvents", net |-> NoValue], "list")
GetNetsWithDevice(u) == Read([op |-> "getNetsWithDevice", net |-> NoValue], "list")

DeleteNet(u, id) ==
  LET c == [op |-> "deleteNet", net |-> id]
      hit == { x \in DOMAIN nets : x = id /\ nets[x].author = u }
      deps == { r \in DOMAIN runs : runs[r].net \in hit }
  IN IF deps # {} /\ OnDeleteRun = "Restrict"
     THEN Fail(c, "PrismaError")
     ELSE /\ nets' = Drop(nets, hit)
          /\ runs' = Drop(runs, deps)
          /\ actions' = [a \in DOMAIN actions |->
                           [actions[a] EXCEPT !.runs = @ \ deps]]
          /\ Done(c)
          /\ UNCHANGED << consts, used >>
-----------------------------------------------------------------------------
(***************************************************************************)
(* net.run.server.ts.  The zod schemas check every id with .cuid().  A run *)
(* input carries at most one action input, as a bulk create is the same as *)
(* one create per input within one transaction.                            *)
(***************************************************************************)
ZodRejects(netID) == netID \in NetIds \ CuidV1

\* addRun: the Run row, connected to its net, with its actions and their
\* constants created in the same nested write.
AddRun(netID, name, acts) ==
  LET c == [op |-> "addRun", net |-> netID, arg |-> acts]
      k == IF acts = << >> THEN 1 ELSE 1 + RowsOf(acts[1])
      s == NewIds(k)
  IN CASE ZodRejects(netID) -> Fail(c, "ZodError")
       [] netID \notin DOMAIN nets \/ (acts # << >> /\ ~ActionOk(acts[1]))
                                -> Fail(c, "PrismaError")
       [] OTHER -> /\ CanIssue(k)
                   /\ runs' = Insert(runs, s[1], [net |-> netID, name |-> name])
                   /\ IF acts = << >> THEN UNCHANGED << actions, consts >>
                      ELSE CreateAction(acts[1], {s[1]}, SubSeq(s, 2, k))
                   /\ used' = used \cup { s[i] : i \in 1 .. k }
                   /\ Done(c)
                   /\ UNCHANGED nets

\* updateRun: name left undefined is left alone.
UpdateRun(run, name) ==
  LET c == [op |-> "updateRun", run |-> run]
  IN IF run \notin DOMAIN runs THEN Fail(c, "PrismaError")
     ELSE /\ runs' = [runs EXCEPT ![run].name = IF name = NoValue THEN @ ELSE name]
          /\ Done(c)
          /\ UNCHANGED << nets, actions, consts, used >>

\* removeRun: run.delete; only the links of its actions to it go.
RemoveRun(run) ==
  LET c == [op |-> "removeRun", run |-> run]
  IN IF run \notin DOMAIN runs THEN Fail(c, "PrismaError")
     ELSE /\ runs' = Drop(runs, {run})
          /\ actions' = [a \in DOMAIN actions |-> [actions[a] EXCEPT !.runs = @ \ {run}]]
          /\ Done(c)
          /\ UNCHANGED << nets, consts, used >>

\* addActionToRun: an action connected to the run, device and event.
AddActionToRun(run, a) ==
  LET c == [op |-> "addActionToRun", run |-> run, arg |-> a]
      s == NewIds(RowsOf(a))
  IN IF run \notin DOMAIN runs \/ ~ActionOk(a) THEN Fail(c, "PrismaError")
     ELSE /\ CanIssue(RowsOf(a))
          /\ CreateAction(a, {run}, s)
          /\ used' = used \cup { s[i] : i \in DOMAIN s }
          /\ Done(c)
          /\ UNCHANGED << nets, runs >>

\* Mutation: the action deleted and its constants left behind.
RemoveActionFromRunLeavingConstants(run, act) ==
  LET c == [op |-> "removeActionFromRun", run |-> run, action |-> act]
  IN IF run \notin DOMAIN runs \/ act \notin DOMAIN actions \/ run \notin actions[act].runs
     THEN Fail(c, "PrismaError")
     ELSE /\ actions' = Drop(actions, {act})
          /\ Done(c)
          /\ UNCHANGED << nets, runs, consts, used >>

\* removeActionFromRun: run.update with a nested delete of the action,
\* which must be linked to the run; the action's constants follow the
\* schema's onDelete.
RemoveActionFromRun(run, act) ==
  LET c == [op |-> "removeActionFromRun", run |-> run, action |-> act]
      deps == { x \in DOMAIN consts : consts[x].action = act }
  IN CASE run \notin DOMAIN runs                        -> Fail(c, "PrismaError")
       [] act \notin DOMAIN actions                     -> Fail(c, "PrismaError")
       [] run \notin actions[act].runs                  -> Fail(c, "PrismaError")
       [] deps # {} /\ OnDeleteConstant = "Restrict"    -> Fail(c, "PrismaError")
       [] OTHER -> /\ actions' = Drop(actions, {act})
                   /\ consts' = Drop(consts, deps)
                   /\ Done(c)
                   /\ UNCHANGED << nets, runs, used >>

\* addConstant: a constant connected to a field and an action.
AddConstant(field, value, act) ==
  LET c == [op |-> "addConstant", action |-> act, field |-> field]
      id == NewIds(1)[1]
  IN IF field \notin Fields \/ act \notin DOMAIN actions THEN Fail(c, "PrismaError")
     ELSE /\ CanIssue(1)
          /\ consts' = Insert(consts, id, [action |-> act, field |-> field, value |-> value])
          /\ used' = used \cup {id}
          /\ Done(c)
          /\ UNCHANGED << nets, runs, actions >>

\* The constant cid is one of the action's (what a nested where requires).
OfAction(act, cid) ==
  act \in DOMAIN actions /\ cid \in DOMAIN consts /\ consts[cid].action = act

\* updateConstant: action.update with a nested update of the constant.
UpdateConstant(act, cid, value) ==
  LET c == [op |-> "updateConstant", action |-> act, const |-> cid]
  IN IF ~OfAction(act, cid) THEN Fail(c, "PrismaError")
     ELSE /\ consts' = [consts EXCEPT ![cid].value = value]
          /\ Done(c)
          /\ UNCHANGED << nets, runs, actions, used >>

\* removeConstant: action.update with a nested delete of the constant.
RemoveConstant(act, cid) ==
  LET c == [op |-> "removeConstant", action |-> act, const |-> cid]
  IN IF ~OfAction(act, cid) THEN Fail(c, "PrismaError")
     ELSE /\ consts' = Drop(consts, {cid})
          /\ Done(c)
          /\ UNCHANGED << nets, runs, actions, used >>

\* getRunDetails: findUniqueOrThrow.  listRuns: the net's runs.
GetRunDetails(run) ==
  Read([op |-> "getRunDetails", run |-> run],
       IF run \in DOMAIN runs THEN "ok" ELSE "PrismaError")
ListRuns(netID) ==
  Read([op |-> "listRuns", net |-> netID],
       IF ZodRejects(netID) THEN "ZodError" ELSE "list")
-----------------------------------------------------------------------------
Init ==
  /\ nets = << >> /\ runs = << >> /\ actions = << >> /\ consts = << >>
  /\ used = {}
  /\ call = [op |-> "none"] /\ result = "ok"

NetArgs == NetIds \cup {Missing}
\* Row ids not handed out yet are the ids of no row.
RowArgs == RowIds
RunInputs == { << >> } \cup { << a >> : a \in ActionInputs }

Next ==
  \/ \E u \in Users, nm \in Names : CreateNet(u, nm) \/ ServiceCreate(u, nm)
  \/ \E id \in NetArgs \cup {NoValue}, nm \in Names \cup {NoValue} : UpdateNet(id, nm)
  \/ \E u \in Users, id \in NetArgs : GetNet(u, id) \/ DeleteNet(u, id)
  \/ \E u \in Users : GetNetListItems(u) \/ GetNetsWithEvents(u) \/ GetNetsWithDevice(u)
  \/ \E id \in NetArgs, nm \in Names, acts \in RunInputs : AddRun(id, nm, acts)
  \/ \E r \in RowArgs, nm \in Names \cup {NoValue} : UpdateRun(r, nm)
  \/ \E r \in RowArgs : RemoveRun(r) \/ GetRunDetails(r)
  \/ \E r \in RowArgs, a \in ActionInputs : AddActionToRun(r, a)
  \/ \E r, a \in RowArgs : RemoveActionFromRun(r, a)
  \/ \E f \in Fields \cup {Missing}, v \in Values, a \in RowArgs : AddConstant(f, v, a)
  \/ \E a, x \in RowArgs, v \in Values : UpdateConstant(a, x, v) \/ RemoveConstant(a, x)
  \/ \E id \in NetArgs : ListRuns(id)

Spec == Init /\ [][Next]_vars
-----------------------------------------------------------------------------
(***************************************************************************)
(* Properties.                                                             *)
(***************************************************************************)
Results == {"ok", "list", "ZodError", "PrismaError"}

TypeOK ==
  /\ \A n \in DOMAIN nets : nets[n] \in [author : Users, name : Names]
  /\ \A r \in DOMAIN runs : runs[r] \in [net : NetIds, name : Names]
  /\ \A a \in DOMAIN actions :
       actions[a] \in [runs : SUBSET DOMAIN runs, device : Devices, event : Events]
  /\ \A x \in DOMAIN consts : consts[x] \in [action : DOMAIN actions, field : Fields,
                                             value : Values]
  /\ DOMAIN nets \cup DOMAIN runs \cup DOMAIN actions \cup DOMAIN consts \subseteq used
  /\ result \in Results

RunsAddableToEveryNet ==
  [][call'.op = "addRun" /\ call'.net \in DOMAIN nets => result' # "ZodError"]_vars

=============================================================================
