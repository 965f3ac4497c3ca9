------------------------- MODULE ResponseTransform --------------------------
(***************************************************************************)
(* The response transformation engine (services/gateway/src/transform.rs): *)
(* a pipeline of operations, compiled once, is applied to the JSON body of *)
(* an upstream response; an operation that cannot be applied leaves a      *)
(* warning and the pipeline goes on.  One step of the model is one         *)
(* operation.  A string is a sequence of pieces: white space, letters, a   *)
(* word that reads as a boolean, a number, a date in some format.          *)
(***************************************************************************)
EXTENDS JsonNumber, Sequences, SequencesExt, TLC

CONSTANTS Calls,              \* the pipelines and bodies considered: [ops, body]
          ValidFormats,       \* strftime patterns chrono can format with
          MAX_RESPONSE_SIZE

VARIABLES call,       \* the pipeline configuration and the response body
          stage,      \* "config", "compiled", "running", then how it ended
          doc,        \* the document
          next,       \* index of the next operation
          warnings,   \* indices of the operations that could not be applied
          content     \* the MCP content, once wrapped

vars == <<call, stage, doc, next, warnings, content>>

PipelinesValid == \A c \in Calls : Len(c.ops) \in Nat

-----------------------------------------------------------------------------
(* JSON values.                                                            *)
Null == [t |-> "null"]
Bool(b) == [t |-> "bool", b |-> b]
Num(n) == [t |-> "num", n |-> n]
Str(s) == [t |-> "str", s |-> s]
Arr(a) == [t |-> "arr", a |-> a]
Obj(m) == [t |-> "obj", m |-> m]

White == [p |-> "white"]
Letter(case) == [p |-> "letter", case |-> case]
SharpS == [p |-> "sharp_s"]                    \* one lower-case letter, two in upper case
Word(w, case) == [p |-> "word", w |-> w, case |-> case]
Digits(n) == [p |-> "digits", n |-> n]
Date(f) == [p |-> "date", f |-> f]

Upper(s) ==
    FlattenSeq([i \in DOMAIN s |->
        CASE s[i].p = "sharp_s" -> <<Letter("upper"), Letter("upper")>>
          [] s[i].p \in {"letter", "word"} -> <<[s[i] EXCEPT !.case = "upper"]>>
          [] OTHER -> <<s[i]>>])
Lower(s) ==
    [i \in DOMAIN s |-> IF s[i].p \in {"letter", "word"}
                          THEN [s[i] EXCEPT !.case = "lower"] ELSE s[i]]
Trimmed(s) ==
    LET black == {i \in DOMAIN s : s[i] # White}
    IN IF black = {} THEN <<>> ELSE SubSeq(s, Min(black), Max(black))

(* str::parse::<f64> of a number's text, and Number::to_string.            *)
ParsedF64(s) == IF Len(s) = 1 /\ s[1].p = "digits" THEN Ok(AsF64(s[1].n.q)) ELSE Err

(* The texts StringToBool knows, after to_ascii_lowercase.                 *)
Truths == {<<Word("true", "lower")>>, <<Word("yes", "lower")>>, <<Word("on", "lower")>>, <<Digits(Whole(1))>>}
Falsehoods == {<<Word("false", "lower")>>, <<Word("no", "lower")>>, <<Word("off", "lower")>>, <<Digits(Whole(0))>>}

(* JSONPath: the matches of $.f, $.f[*] and $[*].                          *)
find(path, d) ==
    LET at == IF path.f = "$" THEN <<d>>
              ELSE IF d.t = "obj" /\ path.f \in DOMAIN d.m THEN <<d.m[path.f]>> ELSE <<>>
    IN IF ~path.each THEN at
       ELSE IF at # <<>> /\ at[1].t = "arr" THEN at[1].a ELSE <<>>

-----------------------------------------------------------------------------
(* What an operation makes of a document: the new document, a warning with *)
(* the document as it was, or a panic.                                     *)
Done(d) == [end |-> "done", doc |-> d]
Warned(d) == [end |-> "warned", doc |-> d]
Panicked(d) == [end |-> "panicked", doc |-> d]

HasField(d, f) == d.t = "obj" /\ f \in DOMAIN d.m
Without(m, F) == [g \in DOMAIN m \ F |-> m[g]]
With(m, f, v) == [g \in DOMAIN m \cup {f} |-> IF g = f THEN v ELSE m[g]]
Insert(d, f, v) == Obj(With(d.m, f, v))

ExtractAfresh(d, op) ==
    LET matches == find(op.path, d)
        extracted == IF Len(matches) = 1 THEN matches[1] ELSE Arr(matches)
    IN IF matches = <<>> THEN Warned(d) ELSE Done(Obj(op.target_field :> extracted))
jsonpath_extract(d, op) ==
    LET matches == find(op.path, d)
        extracted == IF Len(matches) = 1 THEN matches[1] ELSE Arr(matches)
        object == IF d.t = "obj" THEN d ELSE Obj(<<>>)
    IN IF matches = <<>> THEN Warned(d) ELSE Done(Insert(object, op.target_field, extracted))

field_rename(d, op) ==
    IF HasField(d, op.from)
      THEN Done(Obj(With(Without(d.m, {op.from}), op.to, d.m[op.from])))
      ELSE Warned(d)

(* coerce_value: the coerced value, or none.  A number read from a string  *)
(* is a float, whatever its text was; infinity and NaN are refused.        *)
coerce_value(v, c) ==
    CASE c.to = "StringToNumber" /\ v.t = "str" /\ ParsedF64(v.s).ok ->
           IF IsFinite(ParsedF64(v.s).q) THEN {Num(Float(ParsedF64(v.s).q))} ELSE {}
      [] c.to = "NumberToString" /\ v.t = "num" -> {Str(<<Digits(v.n)>>)}
      [] c.to = "StringToBool" /\ v.t = "str" ->
           {Bool(TRUE) : x \in {Lower(v.s)} \cap Truths} \cup {Bool(FALSE) : x \in {Lower(v.s)} \cap Falsehoods}
      [] c.to = "BoolToString" /\ v.t = "bool" ->
           {Str(<<Word(IF v.b THEN "true" ELSE "false", "lower")>>)}
      [] c.to = "DateFormat" /\ v.t = "str" /\ v.s = <<Date(c.from_format)>> -> {Str(<<Date(c.to_format)>>)}
      [] OTHER -> {}

(* Formatting a date with a pattern chrono does not know panics in         *)
(* to_string.                                                              *)
FormatPanics(v, c) ==
    /\ c.to = "DateFormat" /\ v.t = "str" /\ v.s = <<Date(c.from_format)>>
    /\ c.to_format \notin ValidFormats

WarnAndDrop(d, op) ==
    IF ~HasField(d, op.field) THEN Warned(d)
    ELSE LET new == coerce_value(d.m[op.field], op.coerce)
         IN IF new = {} THEN Warned(Obj(Without(d.m, {op.field})))
            ELSE Done(Insert(d, op.field, CHOOSE v \in new : TRUE))
type_coerce(d, op) ==
    IF ~HasField(d, op.field) THEN Warned(d)
    ELSE IF FormatPanics(d.m[op.field], op.coerce) THEN Panicked(d)
    ELSE LET new == coerce_value(d.m[op.field], op.coerce)
         IN IF new = {} THEN Warned(d) ELSE Done(Insert(d, op.field, CHOOSE v \in new : TRUE))

arithmetic(d, op) ==
    IF ~HasField(d, op.field) \/ d.m[op.field].t # "num" THEN Warned(d)
    ELSE LET r == compute_arithmetic(AsF64(d.m[op.field].n.q), op.kind, op.operand)
         IN IF r.ok THEN Done(Insert(d, op.field, Num(StoredNumber(r.q)))) ELSE Warned(d)

string_op(d, op) ==
    IF ~HasField(d, op.field) \/ d.m[op.field].t # "str" THEN Warned(d)
    ELSE LET s == d.m[op.field].s
         IN Done(Insert(d, op.field, Str(
              CASE op.kind = "Concat" -> s \o op.suffix
                [] op.kind = "Trim" -> Trimmed(s)
                [] op.kind = "Uppercase" -> Upper(s)
                [] op.kind = "Lowercase" -> Lower(s)
                [] op.kind = "Truncate" -> SubSeq(s, 1, Min({op.max_len, Len(s)})))))

array_flatten(d, op) ==
    IF ~HasField(d, op.field) \/ d.m[op.field].t # "arr" THEN Warned(d)
    ELSE LET arr == d.m[op.field].a
         IN Done(Insert(d, op.field, Arr(
              FlattenSeq([i \in DOMAIN arr |-> IF arr[i].t = "arr" THEN arr[i].a ELSE <<arr[i]>>]))))

select_fields(d, op) ==
    IF d.t = "obj" THEN Done(Obj(Without(d.m, DOMAIN d.m \ op.fields))) ELSE Warned(d)

drop_fields(d, op) == Done(IF d.t = "obj" THEN Obj(Without(d.m, op.fields)) ELSE d)

-----------------------------------------------------------------------------
Init ==
    /\ call \in Calls
    /\ stage = "config" /\ doc = Null /\ next = 1
    /\ warnings = {} /\ content = <<>>

(* TransformPipeline::new: one invalid JSONPath refuses the configuration. *)
new ==
    /\ stage = "config"
    /\ stage' = IF \E i \in DOMAIN call.ops :
                    call.ops[i].op = "jsonpath_extract" /\ ~call.ops[i].path.valid
                  THEN "InvalidJsonPath" ELSE "compiled"
    /\ UNCHANGED <<call, doc, next, warnings, content>>

(* apply, up to its loop: the size is checked before the body is parsed.   *)
Receive ==
    /\ stage = "compiled"
    /\ \/ /\ call.body.size > MAX_RESPONSE_SIZE
          /\ stage' = "ResponseTooLarge" /\ UNCHANGED doc
       \/ /\ call.body.size <= MAX_RESPONSE_SIZE /\ ~call.body.valid
          /\ stage' = "InvalidJson" /\ UNCHANGED doc
       \/ /\ call.body.size <= MAX_RESPONSE_SIZE /\ call.body.valid
          /\ stage' = "running" /\ doc' = call.body.doc
    /\ UNCHANGED <<call, next, warnings, content>>

(* One turn of the loop of apply: the operation, and what it came to.      *)
Current == call.ops[next]
Due(name) == stage = "running" /\ next <= Len(call.ops) /\ Current.op = name

Turn(r) ==
    /\ doc' = r.doc
    /\ warnings' = IF r.end = "warned" THEN warnings \cup {next} ELSE warnings
    /\ stage' = IF r.end = "panicked" THEN "panicked" ELSE stage
    /\ next' = next + 1
    /\ UNCHANGED <<call, content>>

JsonpathExtract == Due("jsonpath_extract") /\ Turn(jsonpath_extract(doc, Current))
FieldRename == Due("field_rename") /\ Turn(field_rename(doc, Current))
TypeCoerce == Due("type_coerce") /\ Turn(type_coerce(doc, Current))
Arithmetic == Due("arithmetic") /\ Turn(arithmetic(doc, Current))
StringOp == Due("string_op") /\ Turn(string_op(doc, Current))
ArrayFlatten == Due("array_flatten") /\ Turn(array_flatten(doc, Current))
SelectFields == Due("select_fields") /\ Turn(select_fields(doc, Current))
DropFields == Due("drop_fields") /\ Turn(drop_fields(doc, Current))

(* wrap_as_mcp_content.                                                    *)
Wrap ==
    /\ stage = "running" /\ next > Len(call.ops)
    /\ stage' = "answered"
    /\ content' = <<[type |-> "text", text |-> doc]>>
    /\ UNCHANGED <<call, doc, next, warnings>>

Next ==
    \/ new \/ Receive \/ Wrap
    \/ JsonpathExtract \/ FieldRename \/ TypeCoerce \/ Arithmetic
    \/ StringOp \/ ArrayFlatten \/ SelectFields \/ DropFields

Spec == Init /\ [][Next]_vars

-----------------------------------------------------------------------------
(* What the operations before the next one say of a field they leave alone *)
(* by name: it is kept unless a select_fields does not list it.            *)
Names(op) ==
    CASE op.op = "jsonpath_extract" -> {op.target_field}
      [] op.op = "field_rename" -> {op.from, op.to}
      [] op.op = "select_fields" -> {}
      [] op.op = "drop_fields" -> op.fields
      [] OTHER -> {op.field}

Ran == {call.ops[i] : i \in 1 .. next - 1}
Selected(f) == \A op \in Ran : op.op = "select_fields" => f \in op.fields

(* A field of the response that no operation names is in the document with *)
(* its value of the response, unless a select_fields left it out; and no   *)
(* field appears that neither the response has nor an operation names      *)
(* (transform.rs:350-772).                                                 *)
UnnamedFieldsKept ==
    stage \in {"running", "answered"} /\ call.body.doc.t = "obj" =>
        \A f \in (DOMAIN call.body.doc.m \cup DOMAIN doc.m) \ UNION {Names(op) : op \in Ran} :
            IF f \in DOMAIN call.body.doc.m /\ Selected(f)
              THEN f \in DOMAIN doc.m /\ doc.m[f] = call.body.doc.m[f]
              ELSE f \notin DOMAIN doc.m

(* The operation the loop of apply performs.                               *)
Applied(d, op) ==
    CASE op.op = "jsonpath_extract" -> jsonpath_extract(d, op)
      [] op.op = "field_rename" -> field_rename(d, op)
      [] op.op = "type_coerce" -> type_coerce(d, op)
      [] op.op = "arithmetic" -> arithmetic(d, op)
      [] op.op = "string_op" -> string_op(d, op)
      [] op.op = "array_flatten" -> array_flatten(d, op)
      [] op.op = "select_fields" -> select_fields(d, op)
      [] op.op = "drop_fields" -> drop_fields(d, op)

(* The document after the first i operations, leaving out the ones that    *)
(* warned.                                                                 *)
WithoutWarned[i \in 0 .. Len(call.ops)] ==
    IF i = 0 THEN call.body.doc
    ELSE IF i \in warnings THEN WithoutWarned[i - 1]
    ELSE Applied(WithoutWarned[i - 1], call.ops[i]).doc

(* An operation that leaves a warning changes nothing: the document is the *)
(* one the pipeline without the operations that warned produces            *)
(* (transform.rs:10-11).                                                   *)
WarnedOpsAreSkipped == stage = "answered" => doc = WithoutWarned[Len(call.ops)]

(* The exact result of an operation, as a fraction num / den of quanta.    *)
Exact(x, kind, y) ==
    CASE kind = "Add" -> [num |-> x + y, den |-> 1]
      [] kind = "Subtract" -> [num |-> x - y, den |-> 1]
      [] kind = "Multiply" -> [num |-> x * y, den |-> QUANTA]

(* Arithmetic on whole numbers is exact, or answered by a warning, as long *)
(* as the field and the exact result are within the precision of an f64;   *)
(* beyond it the field is off by the rounding of the operand and of the    *)
(* result and never by a wrap-around (transform.rs:508-638).               *)
ArithmeticNeverWraps ==
    [][ LET op == call.ops[next]
            x == doc.m[op.field].n.q
            e == Exact(x, op.kind, op.operand)
            got == doc'.m[op.field].n.q
            off == Abs(got * e.den - e.num)
            precise == 2 ^ MANTISSA * QUANTA
        IN /\ stage = "running" /\ next <= Len(call.ops) /\ op.op = "arithmetic"
           /\ op.kind # "Divide" /\ doc' # doc /\ doc.m[op.field].n.rep = "int"
           => /\ (op.operand % QUANTA = 0 /\ Abs(x) <= precise /\ Abs(e.num) <= precise * e.den) => off = 0
              /\ off <= e.den * (Ulp(x, 1) * (IF op.kind = "Multiply" THEN Abs(op.operand) \div QUANTA + 1 ELSE 1)
                                 + Ulp(e.num, e.den)) ]_vars
=============================================================================
