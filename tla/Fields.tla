--------------------------------- MODULE Fields ---------------------------------
(***************************************************************************)
(* field.decorators.ts: what the decorators of a DTO's property make of the *)
(* value a client sent.  class-transformer converts it to the type named by *)
(* Type, then the transformations of transform.decorators.ts run, then      *)
(* class-validator applies every check, unless a condition skips them all.  *)
(*                                                                         *)
(* A value is [t, v, items]: its JavaScript type, which text, number or     *)
(* object it is, and the items of an array.  "mail", "Mail" and "MAIL" are  *)
(* one e-mail, any other text stands for itself in either case; "secret1"   *)
(* may be a password, MEMBER and perm are members of an enumeration and of  *)
(* the permissions.  An object is an instance of a class with one           *)
(* StringField, name, which it satisfies if it is a "good" one; an "odd" one *)
(* has a property toString that is no function, and so has its name.        *)
(***************************************************************************)
EXTENDS Naturals, Sequences, FiniteSets

Scalar(t, v) == [t |-> t, v |-> v, items |-> <<>>]
Text(v) == Scalar("text", v)
Num(v) == Scalar("number", v)
Undefined == Scalar("undefined", "")
Null == Scalar("null", "")
Nothing == {Undefined, Null}
List(items) == [t |-> "array", v |-> "", items |-> items]

\* Both of class-transformer: the conversion of a single value.
ConvertOne(type, x) ==
    CASE x \in Nothing \/ type = "none" -> x
      [] type = "String" -> Text(IF x.t = "object" THEN "[object Object]" ELSE x.v)
      [] type = "Number" -> Num(CASE x.t = "number" -> x.v
                                  [] x.t = "boolean" -> IF x.v = "true" THEN "1" ELSE "0"
                                  [] x.t = "text" /\ x.v \in {"5", "0.5"} -> x.v
                                  [] x.t = "text" /\ x.v = "" -> "0"
                                  [] OTHER -> "NaN")
      [] type = "Date" -> Scalar("date", IF x.t \in {"number", "boolean"} \/ x.v \in {"day", "5", "0.5"} THEN "valid" ELSE "invalid")
      [] OTHER -> x

Convert(type, x) ==
    IF x.t = "array" THEN List([i \in DOMAIN x.items |-> ConvertOne(type, x.items[i])]) ELSE ConvertOne(type, x)

\* String, Number and Date throw for an object without a toString; a class
\* makes a text of its name.
Odd == Scalar("object", "odd")
OddIn(x) == x = Odd \/ (x.t = "array" /\ \E i \in DOMAIN x.items : x.items[i] = Odd)
ConvertThrows(type, x) == type \in {"String", "Number", "Date", "Class"} /\ OddIn(x)

\* ToLowerCase and ToUpperCase call a method of every item: null has none.
Cases == {"lower", "upper"}
Mails == {"mail", "Mail", "MAIL"}
InCase(to, x) == IF x.t = "text" /\ x.v \in Mails THEN Text(IF to = "lower" THEN "mail" ELSE "MAIL") ELSE x
ToCaseThrows(x) == x.t = "array" /\ \E i \in DOMAIN x.items : x.items[i] \in Nothing
ToCase(to, x) ==
    CASE x = Null \/ x = Text("") -> Undefined
      [] x.t = "array" -> List([i \in DOMAIN x.items |-> InCase(to, x.items[i])])
      [] OTHER -> InCase(to, x)

ToBoolean(x) == IF x \in {Text("true"), Text("false")} THEN Scalar("boolean", x.v) ELSE x

-------------------------------------------------------------------------------
\* The checks of class-validator and of decorators/validators/.
Short == {"", "5", "0.5", "true", "false", "word", "day", "perm"} \cup Mails
IsPermissionsArray(x) == x.t = "array" /\ \A i \in DOMAIN x.items : x.items[i] = Text("perm")
IsPassword(x) ==
    LET Letters(y) == y \in Nothing \/ y.v \in {"", "5", "true", "false", "word", "secret1", "MEMBER", "perm"} IN
    IF x.t = "array" THEN Len(x.items) <= 1 /\ \A i \in DOMAIN x.items : Letters(x.items[i]) ELSE Letters(x)

Passes(name, x) ==
    CASE name = "notEquals" -> x # Null
      [] name = "isDefined" -> x \notin Nothing
      [] name = "isString" -> x.t = "text"
      [] name = "minLength" -> x.t = "text" /\ x.v # ""
      [] name = "minLength6" -> x.t = "text" /\ x.v \notin Short
      [] name = "isNumber" -> x.t = "number" /\ x.v # "NaN"
      [] name = "isInt" -> x.t = "number" /\ x.v \notin {"NaN", "0.5"}
      [] name = "min" -> x.t = "number" /\ x.v \in {"1", "5"}
      [] name = "isBoolean" -> x.t = "boolean"
      [] name = "isDate" -> x = Scalar("date", "valid")
      [] name = "isEmail" -> x.t = "text" /\ x.v \in Mails
      [] name = "isUrl" -> x = Text("url")
      [] name = "isUuid" -> x = Text("uuid")
      [] name = "isJwt" -> x = Text("jwt")
      [] name = "isEnum" -> x = Text("MEMBER")
      [] name = "isObject" -> x.t = "object"
      [] name = "isArray" -> x.t = "array"
      [] name = "isPassword" -> IsPassword(x)
      [] name = "isPermissionsArray" -> IsPermissionsArray(x)

\* A check for each item is one for a value that is no array.
Satisfies(check, x) ==
    IF check.each /\ x.t = "array" THEN \A i \in DOMAIN x.items : Passes(check.name, x.items[i])
    ELSE Passes(check.name, x)

-------------------------------------------------------------------------------
\* A property's decorators: the type and transformation, the checks, whether
\* the value is validated itself, and the conditions that skip all of it.
Field(type, to, checks, nested, skips) ==
    [type |-> type, to |-> to, checks |-> checks, nested |-> nested, skips |-> skips]

Check(each, names) == {[name |-> n, each |-> each] : n \in names}
Skips(o) == IF o.nullable THEN {"null"} ELSE {}
NotNull(o, each) == IF o.nullable THEN {} ELSE Check(each, {"notEquals"})
With(f, checks) == [f EXCEPT !.checks = @ \cup checks]
Optional(f) == [f EXCEPT !.skips = {"null", "undefined"}]

\* Mutant: numbers are converted and not checked.
NumberField_Unchecked(o) ==
    Field("Number", "none", NotNull(o, o.each) \cup (IF o.strict THEN Check(o.each, {"min"}) ELSE {}), FALSE, Skips(o))

NumberField(o) ==
    Field("Number", "none",
          NotNull(o, o.each) \cup Check(o.each, IF o.strict THEN {"isInt", "min"} ELSE {"isNumber"}), FALSE, Skips(o))

StringField(o) ==
    Field("String", IF o.case \in Cases THEN o.case ELSE "none",
          NotNull(o, o.each) \cup Check(o.each, {"isString", "minLength"}), FALSE, Skips(o))
TokenField(o) == Field("String", "none", NotNull(o, o.each) \cup Check(o.each, {"isJwt"}), FALSE, Skips(o))
PasswordField(o) == With(StringField(o), Check(o.each, {"minLength6"}) \cup Check(FALSE, {"isPassword"}))
BooleanField(o) == Field("none", "bool", NotNull(o, FALSE) \cup Check(FALSE, {"isBoolean"}), FALSE, Skips(o))
EmailField(o) ==
    With(StringField([o EXCEPT !.case = IF @ = "unset" THEN "lower" ELSE @]), NotNull(o, FALSE) \cup Check(FALSE, {"isEmail"}))
UUIDField(o) == Field("String", "none", NotNull(o, FALSE) \cup Check(o.each, {"isUuid"}), FALSE, Skips(o))
URLField(o) == With(StringField(o), Check(TRUE, {"isUrl"}))
DateField(o) == Field("Date", "none", NotNull(o, FALSE) \cup Check(FALSE, {"isDate"}), FALSE, Skips(o))
EnumField(o) == Field("none", "none", NotNull(o, FALSE) \cup Check(o.each, {"isEnum"}), FALSE, Skips(o))
ClassField(o) ==
    Field("Class", "none", NotNull(o, FALSE) \cup (IF o.optional THEN {} ELSE Check(FALSE, {"isDefined"})), TRUE, Skips(o))
JsonField(o) == Field("Object", "none", NotNull(o, o.each) \cup Check(o.each, {"isObject"}), FALSE, Skips(o))
PermissionsArrayField(o) == Field("none", "none", Check(FALSE, {"isPermissionsArray"}), FALSE, Skips(o))
ArrayField(o) ==
    Field("Class", "none", Check(FALSE, {"isArray"}), TRUE, IF o.nullable THEN {"null", "undefined"} ELSE {})
DeepObjectField(o) == Field("Class", "none", {}, TRUE, {})

Kinds == {"number", "string", "token", "password", "boolean", "email", "uuid", "url", "date", "enum",
          "class", "json", "permissions", "array", "deep"}

Required(k, o) ==
    CASE k = "number" -> NumberField(o) [] k = "string" -> StringField(o) [] k = "token" -> TokenField(o)
      [] k = "password" -> PasswordField(o) [] k = "boolean" -> BooleanField(o) [] k = "email" -> EmailField(o)
      [] k = "uuid" -> UUIDField(o) [] k = "url" -> URLField(o) [] k = "date" -> DateField(o)
      [] k = "enum" -> EnumField(o) [] k = "class" -> ClassField(o) [] k = "json" -> JsonField(o)
      [] k = "permissions" -> PermissionsArrayField(o) [] k = "array" -> ArrayField(o) [] k = "deep" -> DeepObjectField(o)

\* The field of a kind, or its ...FieldOptional.
FieldOf(k, o) == IF o.optional /\ k # "deep" THEN Optional(Required(k, o)) ELSE Required(k, o)

Converted(f, x) ==
    LET y == Convert(f.type, x) IN
    CASE f.to \in Cases -> ToCase(f.to, y) [] f.to = "bool" -> ToBoolean(y) [] OTHER -> y
Throws(f, x) == ConvertThrows(f.type, x) \/ (f.to \in Cases /\ ToCaseThrows(Convert(f.type, x)))

Skipped(f, y) == (y = Null /\ "null" \in f.skips) \/ (y = Undefined /\ "undefined" \in f.skips)
==================================================================================
