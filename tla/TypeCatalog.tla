---------------------------- MODULE TypeCatalog ----------------------------
(***************************************************************************)
(* The user type catalog, src/cmd/petri/app/models/type.ts: Type rows in   *)
(* the database, written through Prisma.  Every exported function but      *)
(* seedGlobalTypes makes one Prisma call (one atomic step);                *)
(* seedGlobalTypes awaits one create per entry of GLOBAL_TYPES, so other   *)
(* requests, and other seedGlobalTypes calls (Seeders), run between its    *)
(* creates.                                                                *)
(*                                                                         *)
(* Ids: the database never runs out of them, but TypeIds is finite; the    *)
(* ids the running seeds still need are held back from createType and     *)
(* from starting another seed, so that the pool's bound never blocks an   *)
(* awaited create the code would complete.                                 *)
(*                                                                         *)
(* A row is [name, scope, userId, deletable]; descriptions are left out.  *)
(* The schema is not under src/: DeletableDefault is its default for      *)
(* deletable, which createType does not set.  No code under src/ writes a *)
(* Field that refers to a type, so no foreign key restricts a delete.     *)
(***************************************************************************)
EXTENDS Naturals, Sequences, FiniteSetsExt

CONSTANTS
  Users,              \* user ids
  Seeders,            \* concurrent seedGlobalTypes calls
  TypeIds,            \* ids the database gives new Type rows
  GlobalNames,        \* the names of GLOBAL_TYPES, in order
  Names,              \* names callers give their types
  DeletableDefault,   \* schema default of Type.deletable
  NoValue             \* an optional input left undefined

Scopes == {"GLOBAL", "USER"}

ASSUME DeletableDefault \in BOOLEAN

VARIABLES
  types,      \* Type rows: id -> [name, scope, userId, deletable]
  used,       \* ids handed out
  seeding,    \* seeding[s]: 0, or the index in GLOBAL_TYPES of seeder s's next create
  call,       \* the last call
  result      \* what it returned or threw

vars == << types, used, seeding, call, result >>

Insert(t, id, r) == [x \in DOMAIN t \cup {id} |-> IF x = id THEN r ELSE t[x]]
Fresh == CHOOSE id \in TypeIds \ used : TRUE

\* Ids the running seeds will still create rows with.
Reserved == MapThenSumSet(LAMBDA s : IF seeding[s] = 0 THEN 0
                                     ELSE Len(GlobalNames) - seeding[s] + 1, Seeders)
FreeIds == Cardinality(TypeIds \ used)

\* A request other than the seeding: the seeding's progress is left alone.
Done(c) == call' = c /\ result' = "ok" /\ UNCHANGED seeding
Fail(c, err) == call' = c /\ result' = err /\ UNCHANGED << types, used, seeding >>

\* seedGlobalTypes is called by seeder s.
SeedGlobalTypes(s) ==
  /\ seeding[s] = 0
  /\ FreeIds >= Reserved + Len(GlobalNames)
  /\ seeding' = [seeding EXCEPT ![s] = 1]
  /\ call' = [op |-> "seedGlobalTypes", seeder |-> s] /\ result' = "pending"
  /\ UNCHANGED << types, used >>

\* Mutation: the loop awaits a create but does not move to the next entry.
SeedCreateSameEntry(s) ==
  /\ seeding[s] > 0
  /\ used # TypeIds
  /\ types' = Insert(types, Fresh, [name |-> GlobalNames[seeding[s]], scope |-> "GLOBAL",
                                    userId |-> NoValue, deletable |-> FALSE])
  /\ used' = used \cup {Fresh}
  /\ UNCHANGED seeding
  /\ call' = [op |-> "seedGlobalTypes", seeder |-> s] /\ result' = "pending"

\* One iteration of s's loop: the awaited prisma.type.create of the next
\* global type with deletable: false resolves; after the last one the call
\* returns the globals record.
SeedCreate(s) ==
  /\ seeding[s] > 0
  /\ used # TypeIds
  /\ types' = Insert(types, Fresh, [name |-> GlobalNames[seeding[s]], scope |-> "GLOBAL",
                                    userId |-> NoValue, deletable |-> FALSE])
  /\ used' = used \cup {Fresh}
  /\ seeding' = [seeding EXCEPT ![s] = IF @ = Len(GlobalNames) THEN 0 ELSE @ + 1]
  /\ call' = [op |-> "seedGlobalTypes", seeder |-> s]
  /\ result' = IF seeding[s] = Len(GlobalNames) THEN "ok" ELSE "pending"

\* createType: the caller's input as the row, deletable by default.
CreateType(name, scope, user) ==
  /\ FreeIds > Reserved
  /\ types' = Insert(types, Fresh, [name |-> name, scope |-> scope, userId |-> user,
                                    deletable |-> DeletableDefault])
  /\ used' = used \cup {Fresh}
  /\ Done([op |-> "createType"])

\* getType: findUnique (null when absent).  getTypes: findMany by scope.
GetType(id) ==
  /\ call' = [op |-> "getType", id |-> id]
  /\ result' = IF id \in DOMAIN types THEN "ok" ELSE "null"
  /\ UNCHANGED << types, used, seeding >>
GetTypes(scopes) ==
  /\ call' = [op |-> "getTypes"] /\ result' = "list"
  /\ UNCHANGED << types, used, seeding >>

\* Mutation: fields left undefined written as well (null for undefined).
UpdateTypeAllFields(id, name, scope) ==
  LET c == [op |-> "updateType", id |-> id]
  IN IF id \notin DOMAIN types THEN Fail(c, "PrismaError")
     ELSE /\ types' = [types EXCEPT ![id].name = name, ![id].scope = scope]
          /\ Done(c)
          /\ UNCHANGED used

\* updateType: update where {id}, with whichever of name and scope is given.
UpdateType(id, name, scope) ==
  LET c == [op |-> "updateType", id |-> id]
  IN IF id \notin DOMAIN types THEN Fail(c, "PrismaError")
     ELSE /\ types' = [types EXCEPT ![id].name  = IF name = NoValue THEN @ ELSE name,
                                   ![id].scope = IF scope = NoValue THEN @ ELSE scope]
          /\ Done(c)
          /\ UNCHANGED used

\* deleteType(typeID, authorID): delete where {id}; authorID is not read.
DeleteType(id, author) ==
  LET c == [op |-> "deleteType", id |-> id, author |-> author]
  IN IF id \notin DOMAIN types THEN Fail(c, "PrismaError")
     ELSE /\ types' = [x \in DOMAIN types \ {id} |-> types[x]]
          /\ Done(c)
          /\ UNCHANGED used

Init ==
  /\ types = << >> /\ used = {} /\ seeding = [s \in Seeders |-> 0]
  /\ call = [op |-> "none"] /\ result = "ok"

Next ==
  \/ \E s \in Seeders : SeedGlobalTypes(s) \/ SeedCreate(s)
  \/ \E nm \in Names, sc \in Scopes, u \in Users \cup {NoValue} : CreateType(nm, sc, u)
  \/ \E id \in TypeIds : GetType(id)
  \/ \E sc \in SUBSET Scopes : GetTypes(sc)
  \/ \E id \in TypeIds, nm \in Names \cup {NoValue}, sc \in Scopes \cup {NoValue} :
       UpdateType(id, nm, sc)
  \/ \E id \in TypeIds, u \in Users : DeleteType(id, u)

Spec == Init /\ [][Next]_vars
-----------------------------------------------------------------------------
(***************************************************************************)
(* Properties.                                                             *)
(***************************************************************************)
TypeOK ==
  /\ \A id \in DOMAIN types :
       types[id] \in [name : Names \cup {GlobalNames[i] : i \in DOMAIN GlobalNames}, scope : Scopes,
                     userId : Users \cup {NoValue}, deletable : BOOLEAN]
  /\ DOMAIN types \subseteq used /\ used \subseteq TypeIds
  /\ seeding \in [Seeders -> 0 .. Len(GlobalNames)]
=============================================================================
