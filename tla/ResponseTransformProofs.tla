---------------------- MODULE ResponseTransformProofs -----------------------
(***************************************************************************)
(* Proofs about ResponseTransform for any pipelines, bodies and date       *)
(* formats. Two inductive invariants follow the pipeline operation by      *)
(* operation: what the document still has of the fields of the response    *)
(* that no operation names, and that the document is the one obtained by   *)
(* skipping the operations that warned.                                    *)
(***************************************************************************)
EXTENDS ResponseTransform, TLAPS

(* Inserting a field changes no other field (Map::insert).                 *)
LEMMA InsertIs ==
    ASSUME NEW d, NEW f, NEW v, NEW r, r = Insert(d, f, v)
    PROVE  /\ r.t = "obj" /\ DOMAIN r.m = DOMAIN d.m \cup {f}
           /\ \A g \in DOMAIN d.m : g # f => r.m[g] = d.m[g]
BY DEF Insert, Obj, With

(* An operation that makes document e of document d leaves the fields it   *)
(* does not name: they are kept with their values, unless it is a          *)
(* select_fields that does not list them, and none appears.                *)
Leaves(op, d, e) ==
    /\ e.t = "obj"
    /\ \A f : f \notin Names(op) =>
         /\ f \in DOMAIN e.m <=> f \in DOMAIN d.m /\ (op.op = "select_fields" => f \in op.fields)
         /\ f \in DOMAIN e.m => e.m[f] = d.m[f]

(* An operation that gives back the document leaves every field.           *)
LEMMA SameLeaves ==
    ASSUME NEW d, NEW op, d.t = "obj", op.op # "select_fields"
    PROVE  Leaves(op, d, d)
BY DEF Leaves

(* An operation that inserts a field it names leaves the others.           *)
LEMMA InsertLeaves ==
    ASSUME NEW d, NEW op, NEW f, NEW v, d.t = "obj", op.op # "select_fields", f \in Names(op)
    PROVE  Leaves(op, d, Insert(d, f, v))
<1>1. PICK r : r = Insert(d, f, v)
  OBVIOUS
<1>2. Leaves(op, d, r)
  BY <1>1, InsertIs DEF Leaves
<1>3. QED
  BY <1>1, <1>2

(* Four of the operations name the one field they work on.                 *)
LEMMA OneField ==
    ASSUME NEW op, op.op \in {"type_coerce", "arithmetic", "string_op", "array_flatten"}
    PROVE  op.field \in Names(op)
BY DEF Names

(* type_coerce, arithmetic, string_op and array_flatten leave every field  *)
(* but theirs (transform.rs).                                              *)
LEMMA OneFieldLeaves ==
    ASSUME NEW d, NEW op, d.t = "obj", op.op \in {"type_coerce", "arithmetic", "string_op", "array_flatten"}
    PROVE  /\ op.op = "type_coerce" => Leaves(op, d, type_coerce(d, op).doc)
           /\ op.op = "arithmetic" => Leaves(op, d, arithmetic(d, op).doc)
           /\ op.op = "string_op" => Leaves(op, d, string_op(d, op).doc)
           /\ op.op = "array_flatten" => Leaves(op, d, array_flatten(d, op).doc)
<1> op.op # "select_fields"
  OBVIOUS
<1>0. Leaves(op, d, d)
  BY SameLeaves
<1>1. \A v : Leaves(op, d, Insert(d, op.field, v))
  BY InsertLeaves, OneField
<1> DEFINE Kept(r) == r.doc = d \/ \E v : r.doc = Insert(d, op.field, v)
<1>2. Kept(type_coerce(d, op))
  BY Zenon DEF type_coerce, Done, Warned, Panicked
<1>3. Kept(arithmetic(d, op))
  BY DEF arithmetic, Done, Warned
<1>4. Kept(string_op(d, op))
  BY DEF string_op, Done, Warned
<1>5. Kept(array_flatten(d, op))
  BY Zenon DEF array_flatten, Done, Warned
<1>6. QED
  BY <1>0, <1>1, <1>2, <1>3, <1>4, <1>5

(* jsonpath_extract leaves every field but its target.                     *)
LEMMA ExtractLeaves ==
    ASSUME NEW d, NEW op, d.t = "obj", op.op = "jsonpath_extract"
    PROVE  Leaves(op, d, jsonpath_extract(d, op).doc)
<1> op.op # "select_fields"
  OBVIOUS
<1>0. Leaves(op, d, d)
  BY SameLeaves
<1>1. op.target_field \in Names(op)
  BY DEF Names
<1>2. \A v : Leaves(op, d, Insert(d, op.target_field, v))
  BY <1>1, InsertLeaves
<1>3. \/ jsonpath_extract(d, op).doc = d
      \/ \E v : jsonpath_extract(d, op).doc = Insert(d, op.target_field, v)
  BY DEF jsonpath_extract, Done, Warned
<1>4. QED
  BY <1>0, <1>2, <1>3

(* field_rename leaves every field but the one it renames and the one it   *)
(* overwrites.                                                             *)
LEMMA RenameLeaves ==
    ASSUME NEW d, NEW op, d.t = "obj", op.op = "field_rename"
    PROVE  Leaves(op, d, field_rename(d, op).doc)
<1> op.op # "select_fields"
  OBVIOUS
<1>1. Names(op) = {op.from, op.to}
  BY DEF Names
<1>2. CASE HasField(d, op.from)
  <2>1. op.from \in DOMAIN d.m
    BY <1>2 DEF HasField
  <2>2. PICK r : r = Obj(With(Without(d.m, {op.from}), op.to, d.m[op.from]))
    OBVIOUS
  <2>3. Leaves(op, d, r)
    <3>1. /\ r.t = "obj" /\ DOMAIN r.m = (DOMAIN d.m \ {op.from}) \cup {op.to}
          /\ \A h \in DOMAIN d.m : h \notin {op.from, op.to} => r.m[h] = d.m[h]
      BY <2>2 DEF With, Without, Obj
    <3>2. QED
      BY <1>1, <3>1 DEF Leaves
  <2>4. field_rename(d, op).doc = r
    BY <1>2, <2>2 DEF field_rename, Done
  <2>5. QED
    BY <2>3, <2>4
<1>3. CASE ~HasField(d, op.from)
  BY <1>3, SameLeaves DEF field_rename, Warned
<1>4. QED
  BY <1>2, <1>3

(* select_fields and drop_fields leave the values of the fields they do not*)
(* remove.                                                                 *)
LEMMA FieldsLeave ==
    ASSUME NEW d, NEW op, d.t = "obj"
    PROVE  /\ op.op = "select_fields" => Leaves(op, d, select_fields(d, op).doc)
           /\ op.op = "drop_fields" => Leaves(op, d, drop_fields(d, op).doc)
<1>1. ASSUME op.op = "select_fields" PROVE Leaves(op, d, select_fields(d, op).doc)
  <2>1. PICK r : r = Obj(Without(d.m, DOMAIN d.m \ op.fields))
    OBVIOUS
  <2>2. Leaves(op, d, r)
    <3>1. r.t = "obj" /\ DOMAIN r.m = DOMAIN d.m \ (DOMAIN d.m \ op.fields) /\ \A g \in DOMAIN r.m : r.m[g] = d.m[g]
      BY <2>1 DEF Without, Obj
    <3>2. QED
      BY <1>1, <3>1 DEF Leaves
  <2>3. select_fields(d, op).doc = r
    BY <2>1 DEF select_fields, Done
  <2>4. QED
    BY <2>2, <2>3
<1>2. ASSUME op.op = "drop_fields" PROVE Leaves(op, d, drop_fields(d, op).doc)
  <2>1. PICK r : r = Obj(Without(d.m, op.fields))
    OBVIOUS
  <2>2. Names(op) = op.fields
    BY <1>2 DEF Names
  <2>3. Leaves(op, d, r)
    <3>1. r.t = "obj" /\ DOMAIN r.m = DOMAIN d.m \ op.fields /\ \A g \in DOMAIN r.m : r.m[g] = d.m[g]
      BY <2>1 DEF Without, Obj
    <3>2. QED
      BY <1>2, <2>2, <3>1 DEF Leaves
  <2>4. drop_fields(d, op).doc = r
    BY <2>1 DEF drop_fields, Done
  <2>5. QED
    BY <2>3, <2>4
<1>3. QED
  BY <1>1, <1>2

(* The operations of a pipeline.                                           *)
OpNames == {"jsonpath_extract", "field_rename", "type_coerce", "arithmetic", "string_op",
            "array_flatten", "select_fields", "drop_fields"}

(* So every operation leaves the fields it does not name (transform.rs,    *)
(* apply).                                                                 *)
LEMMA AppliedLeaves ==
    ASSUME NEW d, NEW op, op.op \in OpNames, d.t = "obj"
    PROVE  Leaves(op, d, Applied(d, op).doc)
<1>1. CASE op.op \in {"type_coerce", "arithmetic", "string_op", "array_flatten"}
  BY <1>1, OneFieldLeaves DEF Applied
<1>2. CASE op.op = "jsonpath_extract"
  BY <1>2, ExtractLeaves DEF Applied
<1>3. CASE op.op = "field_rename"
  BY <1>3, RenameLeaves DEF Applied
<1>4. CASE op.op \in {"select_fields", "drop_fields"}
  BY <1>4, FieldsLeave DEF Applied
<1>5. QED
  BY <1>1, <1>2, <1>3, <1>4 DEF OpNames

(* An operation that leaves a warning gives back the document as it was    *)
(* (transform.rs:10-11): each returns before it has changed anything.      *)
LEMMA WarnedChangesNothing ==
    ASSUME NEW d, NEW op, op.op \in OpNames, Applied(d, op).end = "warned"
    PROVE  Applied(d, op).doc = d
<1>1. jsonpath_extract(d, op).end = "warned" => jsonpath_extract(d, op).doc = d
  BY DEF jsonpath_extract, Done, Warned
<1>2. field_rename(d, op).end = "warned" => field_rename(d, op).doc = d
  BY DEF field_rename, Done, Warned
<1>3. type_coerce(d, op).end = "warned" => type_coerce(d, op).doc = d
  BY DEF type_coerce, Done, Warned, Panicked
<1>4. arithmetic(d, op).end = "warned" => arithmetic(d, op).doc = d
  BY DEF arithmetic, Done, Warned
<1>5. string_op(d, op).end = "warned" => string_op(d, op).doc = d
  BY DEF string_op, Done, Warned
<1>6. array_flatten(d, op).end = "warned" => array_flatten(d, op).doc = d
  BY Zenon DEF array_flatten, Done, Warned
<1>7. select_fields(d, op).end = "warned" => select_fields(d, op).doc = d
  BY DEF select_fields, Done, Warned
<1>8. drop_fields(d, op).end # "warned"
  BY DEF drop_fields, Done
<1>9. QED
  BY <1>1, <1>2, <1>3, <1>4, <1>5, <1>6, <1>7, <1>8 DEF Applied, OpNames

-----------------------------------------------------------------------------
(* The body was accepted, and the loop of apply has begun.                 *)
Started == stage \in {"running", "answered", "panicked"}

(* Where the loop is: the operations before the next one ran, and only     *)
(* those can have left a warning.                                          *)
PlaceInv ==
    /\ call \in Calls /\ next \in Nat \ {0} /\ next <= Len(call.ops) + 1
    /\ warnings \subseteq 1 .. next - 1
    /\ stage \in {"config", "compiled"} => next = 1
    /\ stage = "answered" => next = Len(call.ops) + 1
    /\ stage = "running" /\ next = 1 => doc = call.body.doc

(* The document has the fields of the response that no operation so far    *)
(* names and that every select_fields so far lists, and of the fields no   *)
(* operation names it has no others.                                       *)
Untouched ==
    Started /\ call.body.doc.t = "obj" =>
        /\ doc.t = "obj"
        /\ \A f : (\A i \in 1 .. next - 1 : f \notin Names(call.ops[i])) =>
             /\ f \in DOMAIN doc.m
                  <=> f \in DOMAIN call.body.doc.m /\ \A i \in 1 .. next - 1 :
                        call.ops[i].op = "select_fields" => f \in call.ops[i].fields
             /\ f \in DOMAIN doc.m => doc.m[f] = call.body.doc.m[f]

(* The documents h are those of the first n operations, leaving out the    *)
(* ones that warned.                                                       *)
Follows(h, n) ==
    /\ h[0] = call.body.doc
    /\ \A i \in 1 .. n : h[i] = IF i \in warnings THEN h[i - 1] ELSE Applied(h[i - 1], call.ops[i]).doc

(* There is one such run of the operations so far, and every such run ends *)
(* in the document: this is what induction over the pipeline would show,   *)
(* carried along as an invariant.                                          *)
Retraced ==
    Started => /\ \E h : h = [i \in 0 .. next - 1 |-> h[i]] /\ Follows(h, next - 1)
               /\ \A h : Follows(h, next - 1) => h[next - 1] = doc

(* The inductive invariant of the response stage.                          *)
PipelineInv == PlaceInv /\ Untouched /\ Retraced

(* One turn of the loop of apply, whatever the operation.                  *)
Loop ==
    /\ stage = "running" /\ next <= Len(call.ops) /\ Current.op \in OpNames
    /\ Turn(Applied(doc, Current))

(* A step compiles the pipeline, receives the body, wraps the result or is *)
(* one turn of the loop.                                                   *)
LEMMA OneTurn == Next => new \/ Receive \/ Wrap \/ Loop
<1>1. JsonpathExtract => Loop
  BY DEF JsonpathExtract, Due, Loop, Applied, OpNames
<1>2. FieldRename => Loop
  BY DEF FieldRename, Due, Loop, Applied, OpNames
<1>3. TypeCoerce => Loop
  BY DEF TypeCoerce, Due, Loop, Applied, OpNames
<1>4. Arithmetic => Loop
  BY DEF Arithmetic, Due, Loop, Applied, OpNames
<1>5. StringOp => Loop
  BY DEF StringOp, Due, Loop, Applied, OpNames
<1>6. ArrayFlatten => Loop
  BY DEF ArrayFlatten, Due, Loop, Applied, OpNames
<1>7. SelectFields => Loop
  BY DEF SelectFields, Due, Loop, Applied, OpNames
<1>8. DropFields => Loop
  BY DEF DropFields, Due, Loop, Applied, OpNames
<1>9. QED
  BY <1>1, <1>2, <1>3, <1>4, <1>5, <1>6, <1>7, <1>8 DEF Next

(* The invariant holds before the pipeline is compiled.                    *)
LEMMA PipelineInitially == PipelinesValid /\ Init => PipelineInv
BY DEF PipelinesValid, Init, PipelineInv, PlaceInv, Untouched, Retraced, Started

(* Receiving the body, accepted or refused, establishes the invariant: no  *)
(* operation has run.                                                      *)
LEMMA ReceiveKeeps ==
    ASSUME PipelineInv, PipelinesValid, Receive
    PROVE  PipelineInv'
<1>0. /\ call' = call /\ next' = 1 /\ next = 1 /\ warnings' = warnings /\ warnings = {}
  BY DEF PipelineInv, PlaceInv, Receive
<1>1. Started' => doc' = call.body.doc
  BY DEF Receive, Started
<1>2. PlaceInv'
  BY <1>0, <1>1 DEF PipelineInv, PlaceInv, Receive, PipelinesValid
<1>3. Untouched'
  <2>1. 1 .. next' - 1 = {}
    BY <1>0
  <2>2. QED
    BY <1>0, <1>1, <2>1 DEF Untouched
<1>4. Retraced'
  <2> SUFFICES ASSUME Started'
               PROVE  /\ \E h : h = [i \in 0 .. next' - 1 |-> h[i]] /\ Follows(h, next - 1)'
                      /\ \A h : Follows(h, next - 1)' => h[next' - 1] = doc'
    BY DEF Retraced
  <2>1. next' - 1 = 0 /\ 1 .. 0 = {}
    BY <1>0
  <2>2. \A h : Follows(h, next - 1)' <=> h[0] = call.body.doc
    BY <1>0, <2>1 DEF Follows
  <2>3. PICK h : h = [i \in 0 .. 0 |-> call.body.doc]
    BY Zenon
  <2>4. h = [i \in 0 .. 0 |-> h[i]] /\ h[0] = call.body.doc
    BY <2>3
  <2>5. QED
    BY <1>1, <2>1, <2>2, <2>4
<1>5. QED
  BY <1>2, <1>3, <1>4 DEF PipelineInv

(* A turn of the loop keeps the fields no operation names.                 *)
LEMMA LoopUntouched ==
    ASSUME PipelineInv, PipelinesValid, Loop
    PROVE  Untouched'
<1>0. /\ call' = call /\ next' = next + 1 /\ next \in Nat \ {0} /\ doc' = Applied(doc, Current).doc
      /\ Started /\ Current.op \in OpNames
  BY DEF PipelineInv, PlaceInv, Loop, Turn, Started
<1>1. SUFFICES ASSUME call.body.doc.t = "obj"
               PROVE  /\ doc'.t = "obj"
                      /\ \A f : (\A i \in 1 .. next : f \notin Names(call.ops[i])) =>
                           /\ f \in DOMAIN doc'.m
                                <=> f \in DOMAIN call.body.doc.m /\ \A i \in 1 .. next :
                                      call.ops[i].op = "select_fields" => f \in call.ops[i].fields
                           /\ f \in DOMAIN doc'.m => doc'.m[f] = call.body.doc.m[f]
  <2>1. next' - 1 = next
    BY <1>0
  <2>2. QED
    BY <1>0, <2>1 DEF Untouched
<1>2. doc.t = "obj"
  BY <1>0, <1>1 DEF PipelineInv, Untouched
<1>3. Leaves(Current, doc, doc')
  BY <1>0, <1>2, AppliedLeaves
<1>4. ASSUME NEW f, \A i \in 1 .. next : f \notin Names(call.ops[i])
      PROVE  /\ f \in DOMAIN doc'.m
                  <=> f \in DOMAIN call.body.doc.m /\ \A i \in 1 .. next :
                        call.ops[i].op = "select_fields" => f \in call.ops[i].fields
             /\ f \in DOMAIN doc'.m => doc'.m[f] = call.body.doc.m[f]
  <2>1. /\ f \in DOMAIN doc'.m <=> f \in DOMAIN doc.m /\ (Current.op = "select_fields" => f \in Current.fields)
        /\ f \in DOMAIN doc'.m => doc'.m[f] = doc.m[f]
    <3>1. f \notin Names(Current)
      BY <1>0, <1>4 DEF Current
    <3>2. QED
      BY <1>3, <3>1 DEF Leaves
  <2>2. /\ f \in DOMAIN doc.m
             <=> f \in DOMAIN call.body.doc.m /\ \A i \in 1 .. next - 1 :
                   call.ops[i].op = "select_fields" => f \in call.ops[i].fields
        /\ f \in DOMAIN doc.m => doc.m[f] = call.body.doc.m[f]
    <3>1. \A i \in 1 .. next - 1 : f \notin Names(call.ops[i])
      BY <1>0, <1>4
    <3>2. QED
      BY <1>0, <1>1, <3>1 DEF PipelineInv, Untouched
  <2>3. \A i : i \in 1 .. next <=> i \in 1 .. next - 1 \/ i = next
    BY <1>0
  <2>4. (\A i \in 1 .. next : call.ops[i].op = "select_fields" => f \in call.ops[i].fields)
          <=> /\ \A i \in 1 .. next - 1 : call.ops[i].op = "select_fields" => f \in call.ops[i].fields
              /\ Current.op = "select_fields" => f \in Current.fields
    BY <2>3, Zenon DEF Current
  <2>5. QED
    BY <2>1, <2>2, <2>4
<1>5. QED
  BY <1>3, <1>4 DEF Leaves

(* A turn of the loop takes the run of the operations that did not warn one*)
(* operation further.                                                      *)
LEMMA LoopRetraced ==
    ASSUME PipelineInv, PipelinesValid, Loop
    PROVE  Retraced'
<1>0. /\ call' = call /\ next' = next + 1 /\ next \in Nat \ {0} /\ doc' = Applied(doc, Current).doc
      /\ Started /\ Current.op \in OpNames /\ warnings \subseteq 1 .. next - 1
      /\ warnings' = IF Applied(doc, Current).end = "warned" THEN warnings \cup {next} ELSE warnings
  BY DEF PipelineInv, PlaceInv, Loop, Turn, Started
<1>1. next' - 1 = next /\ next - 1 \in Nat /\ next # 0
  BY <1>0
<1>2. next \in warnings' => doc' = doc
  BY <1>0, WarnedChangesNothing
<1>3. \A i \in 1 .. next - 1 : i \in warnings' <=> i \in warnings
  BY <1>0
<1>4. \A h : Follows(h, next - 1)' <=>
        /\ Follows(h, next - 1)
        /\ h[next] = IF next \in warnings' THEN h[next - 1] ELSE Applied(h[next - 1], Current).doc
  <2> TAKE h
  <2>1. \A i : i \in 1 .. next <=> i \in 1 .. next - 1 \/ i = next
    BY <1>0
  <2>2. Follows(h, next - 1)' <=>
          /\ h[0] = call.body.doc
          /\ \A i \in 1 .. next : h[i] = IF i \in warnings' THEN h[i - 1] ELSE Applied(h[i - 1], call.ops[i]).doc
    BY <1>0, <1>1 DEF Follows
  <2>3. (\A i \in 1 .. next : h[i] = IF i \in warnings' THEN h[i - 1] ELSE Applied(h[i - 1], call.ops[i]).doc)
          <=> /\ \A i \in 1 .. next - 1 : h[i] = IF i \in warnings' THEN h[i - 1] ELSE Applied(h[i - 1], call.ops[i]).doc
              /\ h[next] = IF next \in warnings' THEN h[next - 1] ELSE Applied(h[next - 1], Current).doc
    BY <2>1, Zenon DEF Current
  <2>4. (\A i \in 1 .. next - 1 : h[i] = IF i \in warnings' THEN h[i - 1] ELSE Applied(h[i - 1], call.ops[i]).doc)
          <=> \A i \in 1 .. next - 1 : h[i] = IF i \in warnings THEN h[i - 1] ELSE Applied(h[i - 1], call.ops[i]).doc
    BY <1>3, Zenon
  <2>5. QED
    BY <2>2, <2>3, <2>4 DEF Follows
<1>5. \A h : Follows(h, next - 1)' => h[next] = doc'
  <2> SUFFICES ASSUME NEW h, Follows(h, next - 1)' PROVE h[next] = doc'
    OBVIOUS
  <2>1. h[next - 1] = doc
    BY <1>0, <1>4 DEF PipelineInv, Retraced
  <2>2. h[next] = IF next \in warnings' THEN h[next - 1] ELSE Applied(h[next - 1], Current).doc
    BY <1>4
  <2>3. QED
    BY <1>0, <1>2, <2>1, <2>2
<1>6. \E h : h = [i \in 0 .. next |-> h[i]] /\ Follows(h, next - 1)'
  <2>1. PICK g : g = [i \in 0 .. next - 1 |-> g[i]] /\ Follows(g, next - 1)
    BY <1>0 DEF PipelineInv, Retraced
  <2>2. g[next - 1] = doc
    BY <1>0, <2>1 DEF PipelineInv, Retraced
  <2>3. PICK h : h = [i \in 0 .. next |-> IF i = next THEN doc' ELSE g[i]]
    BY Zenon
  <2>4. h = [i \in 0 .. next |-> h[i]]
    BY <2>3
  <2>5. h[next] = doc' /\ \A i \in 0 .. next - 1 : h[i] = g[i]
    BY <1>0, <2>3
  <2>6. Follows(h, next - 1)
    <3>1. h[0] = g[0]
      BY <1>0, <2>5
    <3>2. \A i \in 1 .. next - 1 : h[i] = g[i] /\ h[i - 1] = g[i - 1]
      BY <1>0, <2>5
    <3>3. QED
      BY <2>1, <3>1, <3>2 DEF Follows
  <2>7. h[next - 1] = doc
    BY <1>0, <2>2, <2>5
  <2>8. h[next] = IF next \in warnings' THEN h[next - 1] ELSE Applied(h[next - 1], Current).doc
    BY <1>0, <1>2, <2>5, <2>7
  <2>9. QED
    BY <1>4, <2>4, <2>6, <2>8, Zenon
<1>7. QED
  BY <1>1, <1>5, <1>6, Zenon DEF Retraced

(* Every step of the response stage keeps the invariant.                   *)
LEMMA PipelineInductive ==
    ASSUME PipelineInv, PipelinesValid, [Next]_vars
    PROVE  PipelineInv'
<1>1. CASE Receive
  BY <1>1, ReceiveKeeps
<1>2. CASE Loop
  <2>1. PlaceInv'
    <3>1. /\ call' = call /\ next' = next + 1 /\ next <= Len(call.ops)
          /\ warnings' \subseteq warnings \cup {next} /\ stage' \in {"running", "panicked"}
      BY <1>2 DEF Loop, Turn
    <3>2. /\ call \in Calls /\ next \in Nat \ {0} /\ warnings \subseteq 1 .. next - 1
          /\ Len(call.ops) \in Nat
      BY DEF PipelineInv, PlaceInv, PipelinesValid
    <3>3. warnings' \subseteq 1 .. next' - 1
      BY <3>1, <3>2
    <3>4. QED
      BY <3>1, <3>2, <3>3 DEF PlaceInv
  <2>2. QED
    BY <1>2, <2>1, LoopUntouched, LoopRetraced DEF PipelineInv
<1>3. CASE new \/ Wrap \/ UNCHANGED vars
  <2>1. call' = call /\ doc' = doc /\ next' = next /\ warnings' = warnings /\ (Started' => Started)
    BY <1>3 DEF new, Wrap, vars, Started
  <2>2. PlaceInv'
    BY <1>3, <2>1 DEF PipelineInv, PlaceInv, new, Wrap, vars, PipelinesValid
  <2>3. Untouched'
    BY <2>1 DEF PipelineInv, Untouched
  <2>4. Retraced'
    BY <2>1 DEF PipelineInv, Retraced, Follows
  <2>5. QED
    BY <2>2, <2>3, <2>4 DEF PipelineInv
<1>4. QED
  BY <1>1, <1>2, <1>3, OneTurn

(* The invariant gives the property of the fields no operation names.      *)
LEMMA KeptFields == PipelineInv => UnnamedFieldsKept
<1> SUFFICES ASSUME PipelineInv, stage \in {"running", "answered"}, call.body.doc.t = "obj",
                    NEW f \in (DOMAIN call.body.doc.m \cup DOMAIN doc.m) \ UNION {Names(op) : op \in Ran}
             PROVE  IF f \in DOMAIN call.body.doc.m /\ Selected(f)
                      THEN f \in DOMAIN doc.m /\ doc.m[f] = call.body.doc.m[f]
                      ELSE f \notin DOMAIN doc.m
  BY DEF UnnamedFieldsKept
<1>1. \A i \in 1 .. next - 1 : f \notin Names(call.ops[i])
  BY DEF Ran
<1>2. Selected(f) <=> \A i \in 1 .. next - 1 : call.ops[i].op = "select_fields" => f \in call.ops[i].fields
  BY Zenon DEF Selected, Ran
<1>3. QED
  BY <1>1, <1>2 DEF PipelineInv, Untouched, Started

(* The invariant gives the property of the operations that warned, once the*)
(* pipeline is at its end: the recursive definition of that property is a  *)
(* run of the operations.                                                  *)
LEMMA SkippedOps == PipelineInv /\ PipelinesValid => WarnedOpsAreSkipped
<1> SUFFICES ASSUME PipelineInv, PipelinesValid, stage = "answered"
             PROVE  doc = WithoutWarned[Len(call.ops)]
  BY DEF WarnedOpsAreSkipped
<1> DEFINE n == Len(call.ops)
<1>1. n \in Nat /\ next - 1 = n /\ Started
  BY DEF PipelineInv, PlaceInv, PipelinesValid, Started
<1>2. PICK h : h = [i \in 0 .. n |-> h[i]] /\ Follows(h, n)
  BY <1>1 DEF PipelineInv, Retraced
<1> HIDE DEF n
<1>3. h = [i \in 0 .. n |-> IF i = 0 THEN call.body.doc
                            ELSE IF i \in warnings THEN h[i - 1]
                            ELSE Applied(h[i - 1], call.ops[i]).doc]
  <2>1. \A i \in 0 .. n : i = 0 \/ i \in 1 .. n
    BY <1>1
  <2>2. \A i \in 0 .. n : h[i] = IF i = 0 THEN call.body.doc
                                 ELSE IF i \in warnings THEN h[i - 1]
                                 ELSE Applied(h[i - 1], call.ops[i]).doc
    BY <1>2, <2>1, Zenon DEF Follows
  <2>3. QED
    BY <1>2, <2>2
<1>4. WithoutWarned = [i \in 0 .. n |-> IF i = 0 THEN call.body.doc
                            ELSE IF i \in warnings THEN WithoutWarned[i - 1]
                            ELSE Applied(WithoutWarned[i - 1], call.ops[i]).doc]
  BY <1>3, Zenon DEF WithoutWarned, n
<1>5. PICK w : w = WithoutWarned
  OBVIOUS
<1>6. Follows(w, n)
  <2>1. \A i \in 1 .. n : i \in 0 .. n /\ i # 0
    BY <1>1
  <2>2. 0 \in 0 .. n
    BY <1>1
  <2>3. w = [i \in 0 .. n |-> IF i = 0 THEN call.body.doc
                            ELSE IF i \in warnings THEN w[i - 1]
                            ELSE Applied(w[i - 1], call.ops[i]).doc]
    BY <1>4, <1>5, Zenon
  <2>4. \A i \in 0 .. n : w[i] = IF i = 0 THEN call.body.doc
                            ELSE IF i \in warnings THEN w[i - 1]
                            ELSE Applied(w[i - 1], call.ops[i]).doc
    BY <2>3, Zenon
  <2>5. QED
    BY <2>1, <2>2, <2>4 DEF Follows
<1>7. w[n] = doc
  BY <1>1, <1>6 DEF PipelineInv, Retraced
<1>8. QED
  BY <1>5, <1>7 DEF n

(* A field of the response that no operation names is in the document with *)
(* its value, unless a select_fields left it out, and no other field that  *)
(* no operation names appears, for every pipeline and every body           *)
(* (transform.rs:350-772).                                                 *)
THEOREM FieldsKept == ASSUME PipelinesValid PROVE Spec => []UnnamedFieldsKept
<1>1. Init => PipelineInv
  BY PipelineInitially
<1>2. PipelineInv /\ [Next]_vars => PipelineInv'
  BY PipelineInductive
<1>3. QED
  BY <1>1, <1>2, KeptFields, PTL DEF Spec

(* The document a pipeline answers is the one the pipeline without the     *)
(* operations that warned makes, for every pipeline and every body         *)
(* (transform.rs:10-11).                                                   *)
THEOREM WarningsSkip == ASSUME PipelinesValid PROVE Spec => []WarnedOpsAreSkipped
<1>1. Init => PipelineInv
  BY PipelineInitially
<1>2. PipelineInv /\ [Next]_vars => PipelineInv'
  BY PipelineInductive
<1>3. PipelineInv => WarnedOpsAreSkipped
  BY SkippedOps
<1>4. QED
  BY <1>1, <1>2, <1>3, PTL DEF Spec
====
