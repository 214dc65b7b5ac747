------------------------------- MODULE ArgSchema -------------------------------
(***************************************************************************)
(* The limits a world puts on the arguments of an action: the vocabulary   *)
(* (harness-types: arg_schema.rs) and its evaluation on a call             *)
(* (world-kernel: schema.rs).                                              *)
(*                                                                         *)
(* A JSON value is a record whose tag is its kind: [null], [bool],         *)
(* [num, whole], [str], [list] or [obj].  A text is a sequence of symbols, *)
(* a list a sequence, an object a function from argument names.  A schema  *)
(* is a function from the keywords it holds to their settings; `type`,     *)
(* `enum` and `required` are sets, a setting of the wrong shape is         *)
(* BadShape.  Schemas nest three deep: the arguments, one argument, the    *)
(* items or members of it; what is below is not looked at.                 *)
(***************************************************************************)
EXTENDS Integers, Sequences

CONSTANT BadShape  \* the setting of a keyword whose value has the wrong shape

ANNOTATION_KEYWORDS ==
  {"title", "description", "default", "examples", "format", "deprecated", "readOnly",
   "writeOnly", "$schema", "$id", "$comment"}

BOUNDS  == {"minimum", "maximum", "exclusiveMinimum", "exclusiveMaximum"}
LENGTHS == {"minLength", "maxLength"}
ARRAY   == {"items", "minItems", "maxItems"}
OBJECT  == {"properties", "required", "additionalProperties"}

ASSERTION_KEYWORDS ==
  {"type", "enum", "const"} \cup BOUNDS \cup LENGTHS \cup ARRAY \cup OBJECT

TYPE_NAMES ==
  {"string", "number", "integer", "boolean", "object", "array", "null"}

Empty == [k \in {} |-> k]   \* a schema without keywords, an object without members

Null    == [null |-> TRUE]
Bool(b) == [bool |-> b]
Num(n)  == [num |-> n, whole |-> TRUE]
Str(t)  == [str |-> t]
Obj(f)  == [obj |-> f]

\* Value::is_string, is_number, ...: whether v is of the kind with this tag.
is(v, tag) == tag \in DOMAIN v

-----------------------------------------------------------------------------
(* Whether a schema can be enforced as written.                            *)

\* Every keyword is enforced or a pure annotation, and is well formed.
check_keywords(inner(_), spec) ==
  \A k \in DOMAIN spec \ ANNOTATION_KEYWORDS :
    /\ k \in ASSERTION_KEYWORDS
    /\ spec[k] # BadShape
    /\ k = "type" => spec[k] # {} /\ spec[k] \subseteq TYPE_NAMES
    /\ k = "enum" => spec[k] # {}
    /\ k = "items" => inner(spec[k])
    /\ k = "properties" => \A p \in DOMAIN spec[k] : inner(spec[k][p])

Unseen(spec) == TRUE
ItemSpec(spec) == check_keywords(Unseen, spec)
ArgSpec(spec)  == check_keywords(ItemSpec, spec)

check_spec(spec) == check_keywords(ArgSpec, spec)

\* The root describes the arguments object, so its type may only be that.
check_action_schema(schema, constraints) ==
  /\ "type" \in DOMAIN schema => schema.type = {"object"}
  /\ check_spec(schema)
  /\ \A name \in DOMAIN constraints : check_spec(constraints[name])

-----------------------------------------------------------------------------
(* A value against one schema object.                                      *)

TagOf == [string |-> "str", number |-> "num", integer |-> "num",
          boolean |-> "bool", object |-> "obj", array |-> "list", null |-> "null"]

type_matches(name, v) ==
  /\ is(v, TagOf[name])
  /\ name = "integer" => v.whole

type_admits(types, v) == \E name \in types : type_matches(name, v)

\* Keywords that constrain one kind of value: a value of another kind is let
\* through only where the schema's own `type` admitted it.
applies(keywords, tag, v, spec) == keywords \cap DOMAIN spec # {} /\ is(v, tag)
misplaced(keywords, tag, v, spec) ==
  keywords \cap DOMAIN spec # {} /\ ~is(v, tag) /\ "type" \notin DOMAIN spec

check_number(v, spec) ==
  /\ ~misplaced(BOUNDS, "num", v, spec)
  /\ applies(BOUNDS, "num", v, spec) =>
       /\ "minimum" \in DOMAIN spec => v.num >= spec.minimum
       /\ "maximum" \in DOMAIN spec => v.num <= spec.maximum
       /\ "exclusiveMinimum" \in DOMAIN spec => v.num > spec.exclusiveMinimum
       /\ "exclusiveMaximum" \in DOMAIN spec => v.num < spec.exclusiveMaximum

check_count(spec, count, min, max) ==
  /\ min \in DOMAIN spec => count >= spec[min]
  /\ max \in DOMAIN spec => count <= spec[max]

check_string(v, spec) ==
  /\ ~misplaced(LENGTHS, "str", v, spec)
  /\ applies(LENGTHS, "str", v, spec) =>
       check_count(spec, Len(v.str), "minLength", "maxLength")

check_array(inner(_, _), v, spec) ==
  /\ ~misplaced(ARRAY, "list", v, spec)
  /\ applies(ARRAY, "list", v, spec) =>
       /\ check_count(spec, Len(v.list), "minItems", "maxItems")
       /\ "items" \in DOMAIN spec => \A i \in DOMAIN v.list : inner(v.list[i], spec.items)

properties(spec) == IF "properties" \in DOMAIN spec THEN spec.properties ELSE Empty
required(spec)   == IF "required" \in DOMAIN spec THEN spec.required ELSE {}

\* An object is closed once keys are declared, unless it says otherwise.
closed(spec, declared) ==
  IF "additionalProperties" \in DOMAIN spec
  THEN ~spec.additionalProperties
  ELSE declared # {}

\* `also` are keys the object may carry besides: at the root, those that have
\* constraints of their own.
check_object(inner(_, _), v, spec, also) ==
  LET props == properties(spec)
      declared == also \cup DOMAIN props \cup required(spec)
  IN  /\ ~misplaced(OBJECT, "obj", v, spec)
      /\ applies(OBJECT, "obj", v, spec) =>
           /\ required(spec) \subseteq DOMAIN v.obj
           /\ \A p \in DOMAIN props \cap DOMAIN v.obj : inner(v.obj[p], props[p])
           /\ closed(spec, declared) => DOMAIN v.obj \subseteq declared

check_value(inner(_, _), v, spec, also) ==
  /\ "type" \in DOMAIN spec => type_admits(spec.type, v)
  /\ "enum" \in DOMAIN spec => v \in spec.enum
  /\ "const" \in DOMAIN spec => v = spec.const
  /\ check_number(v, spec)
  /\ check_string(v, spec)
  /\ check_array(inner, v, spec)
  /\ check_object(inner, v, spec, also)

Unchecked(v, spec) == TRUE
ItemHolds(v, spec) == check_value(Unchecked, v, spec, {})
ArgHolds(v, spec)  == check_value(ItemHolds, v, spec, {})

check(v, spec, also) == check_value(ArgHolds, v, spec, also)

-----------------------------------------------------------------------------
(* The arguments of a call.                                                *)

declared_arg_names(schema, constraints) ==
  DOMAIN properties(schema) \cup required(schema) \cup DOMAIN constraints

\* A call without arguments is one with an empty arguments object.
validate(args, schema, constraints) ==
  LET given == IF is(args, "null") THEN Obj(Empty) ELSE args
  IN  /\ check_action_schema(schema, constraints)
      /\ DOMAIN schema # {} =>
           check(given, schema, declared_arg_names(schema, constraints))
      /\ is(given, "obj") =>
           \A name \in DOMAIN constraints \cap DOMAIN given.obj :
             check(given.obj[name], constraints[name], {})

=============================================================================
