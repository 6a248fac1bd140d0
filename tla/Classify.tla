------------------------------ MODULE Classify ------------------------------
(***************************************************************************)
(* Structural classification of GraphQL bodies (src/src/classify.rs).      *)
(*                                                                         *)
(* A body is [json, requests]: whether serde_json reads it as a request or *)
(* a batch, and the requests in it.  A request is a parsed document,       *)
(*   [parses, operations, operation_name]                                  *)
(* with operations [name, kind, top_level_fields].  The operations of a    *)
(* document are a set: the code iterates over a HashMap, in no particular  *)
(* order.  top_level_fields is what collect_top_fields gathers; that walk  *)
(* is the module SelectionWalk.                                            *)
(***************************************************************************)
EXTENDS Principals

CONSTANTS
    Fields,         \* GraphQL root fields
    OperationNames  \* names of operations in documents

(* OperationInfo and Classification; OperationKind is the kind field. *)
OperationInfo ==
    [name : OperationNames \cup {None}, kind : {"query", "mutation", "subscription"},
     top_level_fields : SUBSET Fields]

ClassificationType == [operations : SUBSET OperationInfo, scope : Scope]

(* OperationKind::scope. *)
KindScope(kind) == IF kind = "mutation" THEN "write" ELSE "read"

(* Mutant: when operationName names none of the operations, only the first *)
(* one is looked at, which is a query if there is one.                     *)
ToClassifyFirst(req) ==
    LET matched == {op \in req.operations :
                       req.operation_name = None \/ op.name = req.operation_name}
        first == CHOOSE op \in req.operations :
                    op.kind = "query" \/ \A other \in req.operations : other.kind # "query"
    IN  IF matched = {} /\ req.operations # {} THEN {first} ELSE matched

(* The operations of one document that could run: the one operationName    *)
(* names, or all of them when it names none.                               *)
ToClassify(req) ==
    LET matched == {op \in req.operations :
                       req.operation_name = None \/ op.name = req.operation_name}
    IN  IF matched = {} THEN req.operations ELSE matched

(* classify returns Ok: JSON, a non-empty batch, every document parses and *)
(* has an operation.                                                       *)
Classifiable(body) ==
    /\ body.json
    /\ body.requests # {}
    /\ \A req \in body.requests : req.parses /\ ToClassify(req) # {}

(* The Ok value of classify: all operations of the batch, and the highest  *)
(* scope any of them demands.                                              *)
Classification(body) ==
    LET operations == UNION {ToClassify(req) : req \in body.requests}
    IN  [operations |-> operations,
         scope |-> IF \E op \in operations : KindScope(op.kind) = "write"
                   THEN "write" ELSE "read"]

(***************************************************************************)
(* Reference: the operations of the same document that a GraphQL server    *)
(* may run.  With an operationName that names one, that one.  Without one, *)
(* or with one that names none, the GraphQL specification asks the server  *)
(* to run the only operation, or to refuse; but the classifier relies on   *)
(* no such thing ("so a stale/forged name can't dodge classification"), so *)
(* this server may run any of them.  A document that does not parse runs   *)
(* nothing.                                                                *)
(***************************************************************************)
Executable(req) ==
    LET named == {op \in req.operations : op.name # None /\ op.name = req.operation_name}
    IN  IF ~req.parses THEN {}
        ELSE IF named # {} THEN named
        ELSE req.operations

(* What it may run for a body: every document of the batch on its own. *)
ExecutableOperations(body) ==
    IF body.json THEN UNION {Executable(req) : req \in body.requests} ELSE {}
=============================================================================
