----------------------------- MODULE MCToolCall -----------------------------
(* All small tool definitions, calls and jobs, and small pipelines over    *)
(* small documents, for TLC.                                               *)
EXTENDS ToolCall

CONSTANTS pa, pb, word

(* The constructors of hosts and of JSON values, from instances that do    *)
(* not depend on the sets built with them below.                           *)
U == INSTANCE OutboundUrl
R == INSTANCE ResponseTransform WITH Calls <- {}

TwoNames == {pa, pb}

Pieces == {Text(word), Hole(pa), Hole(pb)}
Values == [type : {"string"}, text : SeqOf(Pieces, 1)] \cup [type : {"number"}, text : {<<Text(word)>>}]

(* Calls that give any values to any of the parameters.                    *)
AllArguments == UNION {[S -> Values] : S \in SUBSET TwoNames}

(* Parameter declarations: each name undeclared, optional or required.     *)
Declarations ==
    {<<>>} \cup {<<[name |-> n, required |-> q, type |-> "number"]>> : n \in TwoNames, q \in BOOLEAN}

Queries == {<<>>, <<[key |-> pa, default |-> <<>>]>>, <<[key |-> pa, default |-> <<Text(word)>>]>>}

(* The longest tool name, and one too long.                                *)
NameOf(length) == [letter |-> TRUE, rest |-> length - 1, legal |-> TRUE]
ToolNames == {NameOf(MAX_TOOL_NAME_LEN), NameOf(MAX_TOOL_NAME_LEN + 1)}

ToolsOf(names, paths, leaves) ==
    [name : names, description : {MAX_DESCRIPTION_LEN + 1}, method : {"GET", "POST"}, https : BOOLEAN, path_template : paths,
     query_params : Queries, body_template : {<<>>} \cup {<<l>> : l \in leaves},
     parameters : Declarations]

PathTools == ToolsOf({NameOf(MAX_TOOL_NAME_LEN)}, SeqOf(Pieces, 3), {})
BodyTools == ToolsOf(ToolNames, {<<>>, <<Hole(pa)>>}, SeqOf(Pieces, 2))
AllTools == PathTools \cup BodyTools

-----------------------------------------------------------------------------
Nested == R!Arr(<<R!Arr(<<R!Null, R!Null>>), R!Num(Whole(1))>>)
FieldValues ==
    {R!Null, R!Bool(TRUE), R!Num(Whole(3)), Nested, R!Str(<<R!White, R!SharpS>>),
     R!Str(<<R!Word("yes", "upper")>>), R!Str(<<R!Digits(Whole(1))>>), R!Str(<<R!Date("day")>>)}

(* Objects whose field k no operation names, f of any value and g of some, *)
(* and two that are not objects.                                           *)
Documents ==
    {R!Obj(m @@ [k |-> R!Null]) :
        m \in {m \in UNION {[S -> FieldValues] : S \in SUBSET {"f", "g"}} :
                  "g" \in DOMAIN m => m["g"] \in {R!Null, Nested, R!Num(Whole(3))}}}
    \cup {R!Null, Nested}

Path(f, each, valid) == [f |-> f, each |-> each, valid |-> valid]
Extract(path) == [op |-> "jsonpath_extract", path |-> path, target_field |-> "f"]
Rename(f, g) == [op |-> "field_rename", from |-> f, to |-> g]
Coerce(to) == [op |-> "type_coerce", field |-> "f", coerce |-> [to |-> to]]
Redate(to) == [op |-> "type_coerce", field |-> "f",
               coerce |-> [to |-> "DateFormat", from_format |-> "day", to_format |-> to]]
Calc(kind, operand) == [op |-> "arithmetic", field |-> "f", kind |-> kind, operand |-> operand]
Text1(kind) == [op |-> "string_op", field |-> "f", kind |-> kind, suffix |-> <<R!White>>, max_len |-> 1]

Operations ==
    {Extract(p) : p \in [f : {"$", "g"}, each : BOOLEAN, valid : {TRUE}]} \cup {Extract(Path("g", FALSE, FALSE))}
    \cup {Rename("f", "g"), Rename("g", "f"), Rename("f", "f")}
    \cup {Coerce(c) : c \in {"StringToNumber", "NumberToString", "StringToBool", "BoolToString"}}
    \cup {Redate("hour"), Redate("bad")}
    \cup {Calc("Add", QUANTA), Calc("Divide", 0)}
    \cup {Text1(k) : k \in {"Concat", "Trim", "Uppercase", "Lowercase", "Truncate"}}
    \cup {[op |-> "array_flatten", field |-> "f"]}
    \cup {[op |-> "select_fields", fields |-> F] : F \in {{"f"}, {"g", "k"}}}
    \cup {[op |-> "drop_fields", fields |-> {"f"}]}

Body(d) == [size |-> 1, valid |-> TRUE, doc |-> d]

Pipelines == SeqOf(Operations, 2)

(* Every whole number of either sign and every float, and operands.        *)
Numbers ==
    {Whole(n) : n \in I64_MIN .. U64_MAX}
    \cup {Float(q) : q \in {AsF64(p) : p \in -(4 * U64_MAX) .. 4 * U64_MAX}}
Operands == {AsF64(q) : q \in -(2 * U64_MAX) .. 2 * U64_MAX}

AllCalls ==
    [ops : Pipelines, body : {Body(d) : d \in Documents}]
    \cup [ops : {<<>>}, body : [size : {1, 2}, valid : {FALSE}, doc : {R!Null}]]
Sums ==
    [ops : {<<Calc(k, q)>> : k \in {"Add", "Subtract", "Multiply", "Divide"}, q \in Operands},
     body : {Body(R!Obj([f |-> R!Num(n)])) : n \in Numbers}]

-----------------------------------------------------------------------------
(* Addresses around the first and the last one of every range.             *)
Octets1 == {0, 1, 9, 10, 11, 99, 100, 101, 126, 127, 128, 168, 169, 170, 171, 172, 173,
            191, 192, 193, 197, 198, 199, 202, 203, 204, 223, 224, 239, 240, 255}
Octets2 == {0, 1, 15, 16, 31, 32, 50, 51, 52, 63, 64, 127, 128, 167, 168, 169, 253, 254, 255}
Octets3 == {0, 1, 2, 3, 99, 100, 101, 112, 113, 114, 255}
Addresses4 == {U!V4(<<p, q, r, s>>) : p \in Octets1, q \in Octets2, r \in Octets3, s \in {0, 255}}

Groups == {0, 1, 64511, 64512, 65023, 65024, 65151, 65152, 65215, 65216, 65535}
Addresses6 == {U!V6(<<p, 0, 0, 0, 0, q, 0, r>>) : p \in Groups, q \in {0, 65534, 65535}, r \in {0, 1, 2, 65535}}

Public == U!V4(<<8, 8, 8, 8>>)
Private == U!V4(<<10, 0, 0, 1>>)
AllResolutions == SUBSET {Public, Private, U!V6(<<8193, 0, 0, 0, 0, 0, 0, 1>>)}

Credential(type, name, utf8, len, key) ==
    [auth_type |-> type, key_name |-> name, utf8 |-> utf8,
     blob |-> [len |-> len, key |-> key, intact |-> TRUE]]
Bearer == Credential("bearer", "", TRUE, 12, Key)
Credentials ==
    {Bearer, Credential("bearer", "", FALSE, 12, Key), Credential("bearer", "", TRUE, 11, Key),
     Credential("bearer", "", TRUE, 12, "old key"), Credential("hmac", "", TRUE, 12, Key)}
    \cup {Credential(t, n, TRUE, 12, Key) : t \in {"api_key_header", "api_key_query", "basic"}, n \in {"", "k"}}

Url(scheme, port, host) == [scheme |-> scheme, port |-> port, host |-> host]
Hosts == {Public, U!Domain("api.example.com"), U!Domain("localhost"), U!Domain("metadata.google.internal"), U!NoHost}

DirectJob == [direct |-> TRUE]
Job(url) == [direct |-> FALSE, allowed |-> TRUE, secret |-> TRUE, stored |-> TRUE,
             credential |-> Bearer, parses |-> TRUE, url |-> url, method |-> TRUE]

(* One job per address, and the jobs with every combination of faults.     *)
AllJobs ==
    {Job(Url("https", 0, ip)) : ip \in Addresses4 \cup Addresses6}
    \cup [direct : {FALSE}, allowed : BOOLEAN, secret : BOOLEAN, stored : BOOLEAN,
          credential : Credentials, parses : BOOLEAN, method : BOOLEAN,
          url : {Url(s, p, h) : s \in {"https", "ftp"}, p \in {0, 22}, h \in Hosts}]

(* A tool whose request needs no argument, and a body not worth reading.   *)
PlainTool == [name |-> NameOf(MAX_TOOL_NAME_LEN), description |-> 0,
              method |-> "GET", https |-> TRUE, path_template |-> <<>>, query_params |-> <<>>,
              body_template |-> <<>>, parameters |-> <<>>]
NoCall == [ops |-> <<>>, body |-> Body(R!Null)]

MCInit ==
    /\ \/ tool \in Tools /\ args \in AllArguments /\ job = DirectJob /\ call = NoCall
       \/ tool = PlainTool /\ args = <<>> /\ job \in Jobs /\ call = NoCall
       \/ tool = PlainTool /\ args = <<>> /\ job = DirectJob /\ call \in AllCalls \cup Sums
    /\ outcome = NotBuilt
    /\ at = "arrived" /\ checked = {} /\ sent = Inject!NotSent /\ reply = Inject!NoReply /\ trail = <<>>
    /\ stage = "config" /\ doc = R!Null /\ next = 1 /\ warnings = {} /\ content = <<>>

MCSpec == MCInit /\ [][CallNext]_callVars
=============================================================================
