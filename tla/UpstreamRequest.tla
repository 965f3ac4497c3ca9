-------------------------- MODULE UpstreamRequest ---------------------------
(***************************************************************************)
(* Building the upstream HTTP request of a tools/call, and the JSON Schema *)
(* that advertises the tool (services/gateway/src/upstream.rs,             *)
(* util/template.rs, tool_schema.rs).  Both are pure functions of the tool *)
(* definition and the arguments.  A string is a sequence of pieces: plain  *)
(* text, a {name} placeholder, or the percent-encoding of a placeholder;   *)
(* an argument's value may itself contain text of the form {name}.         *)
(***************************************************************************)
EXTENDS Integers, Sequences, FiniteSets, SequencesExt

CONSTANTS Words,        \* names of placeholders and plain text
          Tools,        \* tool definitions
          Arguments,    \* arguments of a call: functions from sets of names to values
          ALLOW_HTTP,   \* GATEWAY_ALLOW_HTTP
          MAX_URL_LEN,  \* longest URL accepted, in pieces' encoded length
          MAX_TOOL_NAME_LEN, MAX_DESCRIPTION_LEN

Text(x) == [kind |-> "text", of |-> x]
Hole(n) == [kind |-> "hole", of |-> n]
Escaped(n) == [kind |-> "escaped", of |-> n]

Piece == [kind : {"text", "hole", "escaped"}, of : Words]

ASSUME TextAssumption ==
    /\ \A t \in Tools : t.path_template \in Seq(Piece)
    /\ \A a \in Arguments : \A n \in DOMAIN a : a[n].text \in Seq(Piece)

ASSUME LimitAssumption ==
    MAX_URL_LEN \in Nat /\ MAX_TOOL_NAME_LEN \in Nat \ {0} /\ MAX_DESCRIPTION_LEN \in Nat \ 0 .. 2

VARIABLES tool, args, outcome

vars == <<tool, args, outcome>>

NotBuilt == [status |-> "none"]
Failed(why, name) == [status |-> why, name |-> name]

-----------------------------------------------------------------------------
(* extract_placeholders: the names of a template, in order of first        *)
(* appearance, each once.                                                  *)
extract_placeholders(template) ==
    LET names[i \in 0 .. Len(template)] ==
          IF i = 0 THEN <<>>
          ELSE IF template[i].kind = "hole" /\ template[i].of \notin ToSet(names[i - 1])
            THEN Append(names[i - 1], template[i].of)
          ELSE names[i - 1]
    IN names[Len(template)]

(* str::replace of every occurrence of {name}.                             *)
Replace(text, name, by) ==
    FlattenSeq([i \in DOMAIN text |-> IF text[i] = Hole(name) THEN by ELSE <<text[i]>>])

(* Percent-encoding escapes the braces of a value.                         *)
EncodedNot(text) == text
Encoded(text) ==
    [i \in DOMAIN text |-> IF text[i].kind = "hole" THEN Escaped(text[i].of) ELSE text[i]]

(* The placeholders without an argument, and the first one of them.        *)
Missing(template) ==
    {i \in DOMAIN extract_placeholders(template) : extract_placeholders(template)[i] \notin DOMAIN args}
FirstMissing(template) == extract_placeholders(template)[Min(Missing(template))]

(* interpolate_path and the partial case of interpolate_body replace one   *)
(* name after the other in the text obtained so far.                       *)
Interpolated(template, values) ==
    LET names == extract_placeholders(template)
        text[k \in 0 .. Len(names)] ==
          IF k = 0 THEN template ELSE Replace(text[k - 1], names[k], values[names[k]])
    IN text[Len(names)]

interpolate_path(template) == Interpolated(template, [n \in DOMAIN args |-> Encoded(args[n].text)])

InterpolateText(template) == Interpolated(template, [n \in DOMAIN args |-> args[n].text])

(* One string leaf of a body template: a whole-string placeholder keeps    *)
(* the argument's JSON type, any other interpolation yields a string.      *)
interpolate_body(leaf) ==
    IF Len(leaf) = 1 /\ leaf[1].kind = "hole"
      THEN args[leaf[1].of]
      ELSE [type |-> "string", text |-> InterpolateText(leaf)]

(* build_query_string: argument, else default, else the pair is left out.  *)
build_query_string(defs) ==
    LET used == SelectSeq(defs, LAMBDA d : d.key \in DOMAIN args \/ d.default # <<>>)
    IN [i \in DOMAIN used |->
          [key |-> used[i].key,
           value |-> Encoded(IF used[i].key \in DOMAIN args
                               THEN args[used[i].key].text ELSE used[i].default)]]

(* An escaped brace takes three characters where a plain piece takes one.  *)
EncodedLen(text) == Len(text) + 2 * Len(SelectSeq(text, LAMBDA p : p.kind = "escaped"))
UrlLen(path, query) ==
    EncodedLen(path) + EncodedLen(FlattenSeq([i \in DOMAIN query |-> query[i].value]))

HasBody == tool.method \in {"POST", "PUT", "PATCH"}

(* UpstreamRequestBuilder::build, with its errors in the code's order.     *)
build ==
    LET path == interpolate_path(tool.path_template)
        query == build_query_string(tool.query_params)
        badLeaves == {i \in DOMAIN tool.body_template : HasBody /\ Missing(tool.body_template[i]) # {}}
    IN CASE ~ALLOW_HTTP /\ ~tool.https -> Failed("InsecureUrl", "")
         [] (ALLOW_HTTP \/ tool.https) /\ Missing(tool.path_template) # {} ->
              Failed("MissingPathParam", FirstMissing(tool.path_template))
         [] OTHER ->
              IF UrlLen(path, query) > MAX_URL_LEN THEN Failed("UrlTooLong", "")
              ELSE IF badLeaves # {}
                THEN Failed("InvalidBodyTemplate", FirstMissing(tool.body_template[Min(badLeaves)]))
              ELSE [status |-> "built", path |-> path, query |-> query,
                    body |-> IF HasBody THEN [i \in DOMAIN tool.body_template |->
                                                interpolate_body(tool.body_template[i])]
                                        ELSE <<>>]

(* is_valid_tool_name: a letter, then at most 63 letters, digits, _ or -.  *)
is_valid_tool_name(name) == name.letter /\ name.rest <= MAX_TOOL_NAME_LEN - 1 /\ name.legal

(* truncate_description, by length: the text kept and whether ... follows. *)
truncate_description(len) ==
    IF len <= MAX_DESCRIPTION_LEN THEN [kept |-> len, dots |-> FALSE]
                                  ELSE [kept |-> MAX_DESCRIPTION_LEN - 3, dots |-> TRUE]

(* build_input_schema: path placeholders are always required, then come    *)
(* the declared parameters that are not path placeholders.  The last       *)
(* declaration of a name gives its type.  The order of the list of         *)
(* required names means nothing in a JSON Schema: here it is a set.        *)
PathParams(t) == ToSet(extract_placeholders(t.path_template))
Declared(t) == ToSet(t.parameters)
TypeOf(t, n) ==
    LET of == {i \in DOMAIN t.parameters : t.parameters[i].name = n}
    IN IF of = {} THEN "string" ELSE t.parameters[CHOOSE i \in of : \A j \in of : j <= i].type

SchemaAsDeclared(t) ==
    [properties |-> [n \in PathParams(t) \cup {p.name : p \in Declared(t)} |-> TypeOf(t, n)],
     required |-> {p.name : p \in {q \in Declared(t) : q.required}}]
build_input_schema(t) ==
    [properties |-> [n \in PathParams(t) \cup {p.name : p \in Declared(t)} |-> TypeOf(t, n)],
     required |-> PathParams(t)
                    \cup {p.name : p \in {q \in Declared(t) : q.required /\ q.name \notin PathParams(t)}}]

(* build_mcp_tool: a tool with an invalid name is not advertised.          *)
build_mcp_tool(t) ==
    IF is_valid_tool_name(t.name)
      THEN <<[name |-> t.name, description |-> truncate_description(t.description),
              inputSchema |-> build_input_schema(t)]>>
      ELSE <<>>

(* generate_tool_schemas: an unreadable configuration advertises no tool.  *)
generate_tool_schemas(config) ==
    IF config.readable THEN FlattenSeq([i \in DOMAIN config.tools |-> build_mcp_tool(config.tools[i])])
                       ELSE <<>>

-----------------------------------------------------------------------------
Init ==
    /\ tool \in Tools
    /\ args \in Arguments
    /\ outcome = NotBuilt

Build ==
    /\ outcome = NotBuilt
    /\ outcome' = build
    /\ UNCHANGED <<tool, args>>

Next == Build

Spec == Init /\ [][Next]_vars

-----------------------------------------------------------------------------
(* Substituting every placeholder of a template at once.                   *)
AllAtOnce(template, Value(_)) ==
    FlattenSeq([i \in DOMAIN template |->
        IF template[i].kind = "hole" THEN Value(template[i].of) ELSE <<template[i]>>])

(* The path built by replacing one placeholder after another is the one    *)
(* obtained by substituting all of them at once: no argument's text is     *)
(* taken for a placeholder (upstream.rs:406-434).                          *)
PathIsSubstitution ==
    outcome.status = "built" =>
        outcome.path = AllAtOnce(tool.path_template, LAMBDA n : Encoded(args[n].text))

(* The schema and the builder agree on path parameters: a call that gives  *)
(* every parameter that tools/list marks required is never refused for a   *)
(* missing path parameter, and every required parameter is described       *)
(* (tool_schema.rs:126-275, upstream.rs:421-424).                          *)
Listed == generate_tool_schemas([readable |-> TRUE, tools |-> <<tool>>])

RequiredCoversPath ==
    \A i \in DOMAIN Listed :
        LET schema == Listed[i].inputSchema
        IN /\ schema.required \subseteq DOMAIN schema.properties
           /\ schema.required \subseteq DOMAIN args => outcome.status # "MissingPathParam"

(* upstream.rs:471-472: "String containing `{param_name}` as a substring   *)
(* -> string interpolation (argument value serialized to its string        *)
(* representation)".                                                       *)
BodyIsSubstitution ==
    outcome.status = "built" =>
        \A i \in DOMAIN outcome.body :
            outcome.body[i].text = AllAtOnce(tool.body_template[i], LAMBDA n : args[n].text)

(* tool_schema.rs:3-5: each tool carries "a full JSON Schema for its input *)
(* parameters": a call that gives every required parameter is accepted, or *)
(* refused for its length or its scheme, not for a missing parameter.      *)
SchemaIsFull ==
    build_input_schema(tool).required \subseteq DOMAIN args =>
        outcome.status \notin {"MissingPathParam", "InvalidBodyTemplate"}
=============================================================================
