----------------------------- MODULE RequestsProofs -----------------------------
(***************************************************************************)
(* Theorems about Requests, for any rows, dates, sorts, limits and values  *)
(* sent.  Forms come first, then pages.                                    *)
(***************************************************************************)
EXTENDS Requests, TLAPS, FiniteSetTheorems, SequenceTheorems

\* Every field of a kind carries the check that its handler relies on, and
\* skips its checks for null or nothing only if it may.
LEMMA FieldSkips ==
    ASSUME NEW k \in Kinds, NEW o \in Options
    PROVE  /\ "null" \in FieldOf(k, o).skips => o.nullable \/ (o.optional /\ k # "deep")
           /\ "undefined" \in FieldOf(k, o).skips => (o.optional /\ k # "deep") \/ (k = "array" /\ o.nullable)
           /\ o.nullable /\ k # "deep" => "null" \in FieldOf(k, o).skips
           /\ o.optional /\ k # "deep" => FieldOf(k, o).skips = {"null", "undefined"}
  <1> USE DEF FieldOf, Required, Optional, Options, Skips, With, Field
  <1>1. CASE k \in {"number", "string", "token", "password", "boolean"}
    BY <1>1 DEF NumberField, StringField, TokenField, PasswordField, BooleanField
  <1>2. CASE k \in {"email", "uuid", "url", "date", "enum"}
    BY <1>2 DEF EmailField, StringField, UUIDField, URLField, DateField, EnumField
  <1>3. CASE k \in {"class", "json", "permissions", "array", "deep"}
    BY <1>3 DEF ClassField, JsonField, PermissionsArrayField, ArrayField, DeepObjectField
  <1>4. QED BY <1>1, <1>2, <1>3 DEF Kinds

LEMMA EmailShape ==
    ASSUME NEW o \in Options
    PROVE  /\ DOMAIN EmailField(o) = {"type", "to", "checks", "nested", "skips"}
           /\ EmailField(o).type = "String" /\ EmailField(o).nested = FALSE
           /\ o.case \in {"unset", "lower"} => EmailField(o).to = "lower"
           /\ o.case = "upper" => EmailField(o).to = "upper"
           /\ EmailField(o).to \in Cases => o.case # "off"
  <1> DEFINE o2 == [o EXCEPT !.case = IF @ = "unset" THEN "lower" ELSE @]
  <1>1. o2.case = IF o.case = "unset" THEN "lower" ELSE o.case
    BY DEF Options
  <1>2. StringField(o2).to = IF o2.case \in Cases THEN o2.case ELSE "none"
    BY DEF StringField, Field
  <1>3. EmailField(o).to = StringField(o2).to /\ EmailField(o).type = "String" /\ EmailField(o).nested = FALSE
    BY DEF EmailField, StringField, With, Field
  <1>4. DOMAIN EmailField(o) = {"type", "to", "checks", "nested", "skips"}
    BY DEF EmailField, StringField, With, Field
  <1> HIDE DEF o2
  <1>5. QED BY <1>1, <1>2, <1>3, <1>4 DEF Cases, Options

LEMMA OptionalShape ==
    ASSUME NEW f, DOMAIN f = {"type", "to", "checks", "nested", "skips"}
    PROVE  Optional(f).type = f.type /\ Optional(f).to = f.to /\ Optional(f).nested = f.nested
  BY DEF Optional

LEMMA FieldShape ==
    ASSUME NEW k \in Kinds, NEW o \in Options
    PROVE  /\ FieldOf(k, o).nested <=> k \in {"class", "array", "deep"}
           /\ FieldOf(k, o).to \in Cases => ChangesCase(k, o) /\ FieldOf(k, o).type = "String"
           /\ k \in {"class", "array", "deep"} => FieldOf(k, o).type = "Class" /\ FieldOf(k, o).to = "none"
           /\ k \in {"boolean", "enum", "json", "permissions"}
                => FieldOf(k, o).type \notin {"String", "Number", "Date", "Class"}
           /\ k = "email" => /\ o.case \in {"unset", "lower"} => FieldOf(k, o).to = "lower"
                             /\ o.case = "upper" => FieldOf(k, o).to = "upper"
  <1>1. CASE k \in {"number", "string", "token", "password", "boolean"}
    BY <1>1 DEF FieldOf, Required, Optional, Options, With, Field, Cases, ChangesCase,
               NumberField, StringField, TokenField, PasswordField, BooleanField
  <1>2. CASE k \in {"uuid", "url", "date", "enum"}
    BY <1>2 DEF FieldOf, Required, Optional, Options, With, Field, Cases, ChangesCase,
               StringField, UUIDField, URLField, DateField, EnumField
  <1>5. CASE k = "email"
    <2>1. FieldOf(k, o) \in {EmailField(o), Optional(EmailField(o))}
      BY <1>5 DEF FieldOf, Required
    <2>2. FieldOf(k, o).to = EmailField(o).to /\ FieldOf(k, o).type = "String" /\ FieldOf(k, o).nested = FALSE
      BY <2>1, EmailShape, OptionalShape
    <2>3. QED BY <1>5, <2>2, EmailShape DEF ChangesCase
  <1>3. CASE k \in {"class", "json", "permissions", "array", "deep"}
    BY <1>3 DEF FieldOf, Required, Optional, Options, With, Field, Cases, ChangesCase,
               ClassField, JsonField, PermissionsArrayField, ArrayField, DeepObjectField
  <1>4. QED BY <1>1, <1>2, <1>3, <1>5 DEF Kinds

Has1(k, o, name, each) == [name |-> name, each |-> each] \in FieldOf(k, o).checks

LEMMA FieldChecks ==
    ASSUME NEW k \in Kinds, NEW o \in Options
    PROVE  /\ k = "number" => Has1(k, o, "isInt", o.each) \/ Has1(k, o, "isNumber", o.each)
           /\ k \in {"string", "password", "email", "url"} => Has1(k, o, "minLength", o.each)
           /\ k = "token" => Has1(k, o, "isJwt", o.each)
           /\ k = "boolean" => Has1(k, o, "isBoolean", FALSE)
           /\ k = "email" => Has1(k, o, "isEmail", FALSE)
           /\ k = "uuid" => Has1(k, o, "isUuid", o.each)
           /\ k = "url" => Has1(k, o, "isUrl", TRUE)
           /\ k = "date" => Has1(k, o, "isDate", FALSE)
           /\ k = "enum" => Has1(k, o, "isEnum", o.each)
           /\ k = "json" => Has1(k, o, "isObject", o.each)
           /\ k = "permissions" => Has1(k, o, "isPermissionsArray", FALSE)
           /\ k = "array" => Has1(k, o, "isArray", FALSE)
           /\ k = "class" /\ ~o.nullable => Has1(k, o, "notEquals", FALSE)
           /\ k = "class" /\ ~o.optional => Has1(k, o, "isDefined", FALSE)
  <1> USE DEF FieldOf, Required, Optional, Options, With, Field, Check, NotNull, Has1
  <1>1. CASE k = "number"
    BY <1>1 DEF NumberField
  <1>2. CASE k \in {"string", "password"}
    BY <1>2 DEF StringField, PasswordField
  <1>3. CASE k \in {"token", "boolean"}
    BY <1>3 DEF TokenField, BooleanField
  <1>4. CASE k = "email"
    BY <1>4 DEF EmailField, StringField
  <1>5. CASE k = "url"
    BY <1>5 DEF URLField, StringField
  <1>6. CASE k \in {"uuid", "date", "enum"}
    BY <1>6 DEF UUIDField, DateField, EnumField
  <1>7. CASE k \in {"class", "json", "permissions", "array", "deep"}
    BY <1>7 DEF ClassField, JsonField, PermissionsArrayField, ArrayField, DeepObjectField
  <1>8. QED BY <1>1, <1>2, <1>3, <1>4, <1>5, <1>6, <1>7 DEF Kinds

\* What a client sends is a value on its own or a list of them.
LEMMA RawShape ==
    ASSUME NEW x \in Raws
    PROVE  /\ x = [t |-> x.t, v |-> x.v, items |-> x.items]
           /\ x.t = "array" => x.v = "" /\ x.items \in Seq(Leaves)
           /\ x.t # "array" => x \in Leaves \cup {Undefined}
  <1>1. CASE x = Undefined
    BY <1>1 DEF Undefined, Scalar
  <1>2. CASE x = Null
    BY <1>2 DEF Leaves, Null, Scalar
  <1>3. CASE x \in Leaf("text", STRING) \cup Leaf("number", STRING \ {"NaN"}) \cup Leaf("boolean", {"true", "false"}) \cup Leaf("object", {"good", "bad", "odd"})
    <2>1. x.t # "array" /\ x = [t |-> x.t, v |-> x.v, items |-> x.items]
      BY <1>3 DEF Leaf
    <2>2. x \in Leaves
      BY <1>3 DEF Leaves
    <2>3. QED BY <2>1, <2>2
  <1>4. CASE x \in [t : {"array"}, v : {""}, items : Seq(Leaves)]
    BY <1>4
  <1>5. QED BY <1>1, <1>2, <1>3, <1>4, FormsAssumption DEF Leaves

LEMMA NothingParts == Undefined.t = "undefined" /\ Null.t = "null"
  BY DEF Undefined, Null, Scalar

LEMMA TextParts == \A v : Text(v).t = "text" /\ Text(v).v = v
  BY DEF Text, Scalar

LEMMA ListParts == \A s : List(s).t = "array" /\ List(s).items = s
  BY DEF List

LEMMA LeafShape ==
    ASSUME NEW x \in Leaves
    PROVE  /\ x # Undefined /\ x.t # "array" /\ x.items = <<>>
           /\ x.t = "null" => x = Null
           /\ x.t = "object" => x.v \in {"good", "bad", "odd"}
  <1>1. CASE x = Null
    BY <1>1 DEF Undefined, Null, Scalar
  <1>2. CASE x \in Leaf("text", STRING) \cup Leaf("number", STRING \ {"NaN"})
    <2>1. x.t \in {"text", "number"} /\ x.items = <<>>
      BY <1>2 DEF Leaf
    <2>2. x # Undefined
      BY <2>1, NothingParts
    <2>3. QED BY <2>1, <2>2
  <1>3. CASE x \in Leaf("boolean", {"true", "false"})
    <2>1. x.t = "boolean" /\ x.items = <<>>
      BY <1>3 DEF Leaf
    <2>2. x # Undefined
      BY <2>1, NothingParts
    <2>3. QED BY <2>1, <2>2
  <1>4. CASE x \in Leaf("object", {"good", "bad", "odd"})
    <2>1. x.t = "object" /\ x.items = <<>> /\ x.v \in {"good", "bad", "odd"}
      BY <1>4 DEF Leaf
    <2>2. x # Undefined
      BY <2>1, NothingParts
    <2>3. QED BY <2>1, <2>2
  <1>5. QED BY <1>1, <1>2, <1>3, <1>4 DEF Leaves

LEMMA ConvertKeepsLists ==
    ASSUME NEW x \in Raws, NEW type
    PROVE  (Convert(type, x).t = "array") = (x.t = "array")
  <1>1. CASE x.t = "array"
    BY <1>1 DEF Convert, List
  <1>2. CASE x.t # "array"
    <2>1. ConvertOne(type, x).t # "array"
      BY <1>2 DEF ConvertOne, Text, Num, Scalar
    <2> QED BY <2>1, <1>2 DEF Convert
  <1>3. QED BY <1>1, <1>2

LEMMA ClassIsUntouched ==
    ASSUME NEW k \in {"class", "array", "deep"}, NEW o \in Options, NEW x \in Raws
    PROVE  Converted(FieldOf(k, o), x) = x
  <1>1. FieldOf(k, o).type = "Class" /\ FieldOf(k, o).to = "none"
    BY FieldShape DEF Kinds
  <1>2. \A y : ConvertOne("Class", y) = y
    BY DEF ConvertOne
  <1>3. Convert("Class", x) = x
    <2>1. CASE x.t = "array"
      <3>1. x.items = [i \in DOMAIN x.items |-> x.items[i]]
        <4>1. x.items \in Seq(Leaves)
          BY <2>1, RawShape
        <4>2. QED BY <4>1
      <3>2. [i \in DOMAIN x.items |-> ConvertOne("Class", x.items[i])] = x.items
        BY <3>1, <1>2
      <3>3. QED BY <3>2, <2>1, RawShape DEF Convert, List
    <2>2. CASE x.t # "array"
      BY <2>2, <1>2 DEF Convert
    <2>3. QED BY <2>1, <2>2
  <1>4. QED BY <1>1, <1>3 DEF Converted, Cases

-------------------------------------------------------------------------------
\* A handler gets what it takes its property for: an error that is not there
\* means that the check was passed or skipped.
LEMMA ErrorParts ==
    ASSUME NEW p, NEW c, NEW s
    PROVE  Error(p, c, s).property = p /\ Error(p, c, s).constraints = c /\ Error(p, c, s).children = s
  BY DEF Error

LEMMA NoErrorNoViolation ==
    ASSUME NEW f, NEW y, ~Skipped(f, y), Validate(f, y) = {}, f.nested => y.t = "array"
    PROVE  /\ \A d \in f.checks : Satisfies(d, y)
           /\ f.nested => \A i \in DOMAIN y.items :
                  LET e == NestedErrors(Index(i), y.items[i], {}) IN e.constraints = {} /\ e.children = {}
  <1> DEFINE own == {c.name : c \in {d \in f.checks : ~Satisfies(d, y)}}
             items == IF f.nested THEN {NestedErrors(Index(i), y.items[i], {}) : i \in DOMAIN y.items} ELSE {}
             e == Error("field", own, NotEmpty(items))
  <1>1. Validate(f, y) = NotEmpty({e})
    BY DEF Validate
  <1>2. e.constraints = {} /\ e.children = {}
    BY <1>1 DEF NotEmpty
  <1>3. own = {} /\ NotEmpty(items) = {}
    BY <1>2 DEF Error
  <1>4. QED BY <1>3 DEF NotEmpty

LEMMA NoErrorInInstance ==
    ASSUME NEW f, NEW y, ~Skipped(f, y), Validate(f, y) = {}, f.nested, y.t # "array"
    PROVE  /\ \A d \in f.checks : Satisfies(d, y)
           /\ y \notin Nothing => y.t = "object" /\ y.v = "good"
  <1> DEFINE own == {c.name : c \in {d \in f.checks : ~Satisfies(d, y)}}
             e == NestedErrors("field", y, own)
  <1>1. Validate(f, y) = NotEmpty({e})
    BY DEF Validate
  <1>2. e.constraints = {} /\ e.children = {}
    BY <1>1 DEF NotEmpty
  <1>3. own = {}
    BY <1>2 DEF NestedErrors, Error
  <1>4. y \notin Nothing => y.t = "object" /\ y.v = "good"
    <2> SUFFICES ASSUME y \notin Nothing PROVE y.t = "object" /\ y.v = "good"
      OBVIOUS
    <2>1. CASE y.t # "object"
      BY <2>1, <1>2 DEF NestedErrors, Error
    <2>2. CASE y.t = "object" /\ y.v # "good"
      <3>1. e = Error("field", own, {Error("name", {"minLength"}, {})})
        BY <2>2 DEF NestedErrors
      <3>2. QED BY <3>1, <1>2, ErrorParts
    <2>3. QED BY <2>1, <2>2
  <1>5. QED BY <1>3, <1>4

\* The items of a list of instances.
LEMMA NoErrorInItems ==
    ASSUME NEW x \in Leaves, NEW p,
           LET e == NestedErrors(p, x, {}) IN e.constraints = {} /\ e.children = {}
    PROVE  Instance(x) \/ x = Null
  <1>1. CASE x \in Nothing
    BY <1>1, LeafShape DEF Nothing
  <1>2. CASE x \notin Nothing /\ x.t # "object"
    BY <1>2 DEF NestedErrors, Error
  <1>3. CASE x \notin Nothing /\ x.t = "object" /\ x.v # "good"
    <2>1. NestedErrors(p, x, {}) = Error(p, {}, {Error("name", {"minLength"}, {})})
      BY <1>3 DEF NestedErrors
    <2>2. QED BY <2>1, ErrorParts
  <1>4. QED BY <1>1, <1>2, <1>3, LeafShape DEF Instance

Acceptable(k, o, y) ==
    \/ Fits(k, o, y)
    \/ y \in Nothing /\ (o.optional \/ k = "deep")
    \/ y = Null /\ o.nullable
    \/ y = Undefined /\ k = "array" /\ o.nullable

LEMMA SkippedIsAcceptable ==
    ASSUME NEW k \in Kinds, NEW o \in Options, NEW y, Skipped(FieldOf(k, o), y)
    PROVE  Acceptable(k, o, y)
  BY FieldSkips DEF Skipped, Acceptable, Nothing

\* The check of a field without a class, for a value or for each item.
LEMMA CheckedFits ==
    ASSUME NEW k \in Kinds \ {"class", "array", "deep"}, NEW o \in Options, NEW y,
           \A d \in FieldOf(k, o).checks : Satisfies(d, y),
           k = "email" /\ y.t = "text" /\ y.v \in Mails => y.v \in MailTexts(o)
    PROVE  Fits(k, o, y)
  <1> DEFINE Sat(name, each) == Satisfies([name |-> name, each |-> each], y)
  <1>0. \A name, each : Has1(k, o, name, each) => Sat(name, each)
    BY DEF Has1
  <1>a. \A name : Sat(name, FALSE) <=> Passes(name, y)
    BY DEF Satisfies
  <1>b. \A name : Sat(name, TRUE) <=> IF y.t = "array" THEN \A i \in DOMAIN y.items : Passes(name, y.items[i]) ELSE Passes(name, y)
    BY DEF Satisfies
  <1>c. o.each \in BOOLEAN
    BY DEF Options
  <1> HIDE DEF Sat
  <1>1. CASE k = "number"
    <2>1. Sat("isInt", o.each) \/ Sat("isNumber", o.each)
      BY <1>0, <1>1, FieldChecks
    <2>2. \A x : Passes("isInt", x) \/ Passes("isNumber", x) => FitsOne("number", o, x)
      BY DEF Passes, FitsOne
    <2>3. QED BY <2>1, <2>2, <1>1, <1>a, <1>b, <1>c DEF Fits
  <1>2. CASE k \in {"string", "password"}
    <2>1. Sat("minLength", o.each)
      BY <1>0, <1>2, FieldChecks
    <2>2. \A x : Passes("minLength", x) => FitsOne(k, o, x)
      BY <1>2 DEF Passes, FitsOne
    <2>3. QED BY <2>1, <2>2, <1>2, <1>a, <1>b, <1>c DEF Fits
  <1>3. CASE k = "email"
    <2>1. Sat("isEmail", FALSE)
      BY <1>0, <1>3, FieldChecks
    <2>2. y.t = "text" /\ y.v \in Mails
      BY <2>1, <1>a DEF Passes
    <2>4. y.v \in MailTexts(o) /\ y.v # ""
      BY <2>2, <1>3 DEF Mails
    <2>3. QED BY <2>2, <2>4, <1>3 DEF Fits, FitsOne
  <1>4. CASE k = "url"
    <2>1. Sat("minLength", o.each) /\ Sat("isUrl", TRUE)
      BY <1>0, <1>4, FieldChecks
    <2>2. \A x : Passes("isUrl", x) => FitsOne("url", o, x)
      BY TextParts DEF Passes, FitsOne
    <2>3. CASE y.t = "array"
      <3>1. o.each
        BY <2>1, <2>3, <1>a, <1>c DEF Passes
      <3>2. QED BY <2>1, <2>2, <2>3, <3>1, <1>4, <1>b DEF Fits
    <2>4. CASE y.t # "array"
      BY <2>1, <2>2, <2>4, <1>4, <1>b DEF Fits
    <2>5. QED BY <2>3, <2>4
  <1>5. CASE k \in {"token", "uuid", "enum", "json"}
    <2> DEFINE name == CASE k = "token" -> "isJwt" [] k = "uuid" -> "isUuid" [] k = "enum" -> "isEnum" [] k = "json" -> "isObject"
    <2>1. Sat(name, o.each)
      BY <1>0, <1>5, FieldChecks
    <2>2. \A x : Passes(name, x) => FitsOne(k, o, x)
      BY <1>5, TextParts DEF Passes, FitsOne
    <2> HIDE DEF name
    <2>3. QED BY <2>1, <2>2, <1>5, <1>a, <1>b, <1>c DEF Fits
  <1>6. CASE k \in {"boolean", "date"}
    <2> DEFINE name == CASE k = "boolean" -> "isBoolean" [] k = "date" -> "isDate"
    <2>1. Sat(name, FALSE)
      BY <1>0, <1>6, FieldChecks
    <2>2. \A x : Passes(name, x) => FitsOne(k, o, x)
      BY <1>6 DEF Passes, FitsOne
    <2> HIDE DEF name
    <2>3. QED BY <2>1, <2>2, <1>6, <1>a DEF Fits
  <1>7. CASE k = "permissions"
    <2>1. IsPermissionsArray(y)
      BY <1>0, <1>7, <1>a, FieldChecks DEF Passes
    <2>2. FitsOne("permissions", o, Text("perm"))
      BY DEF FitsOne, Text, Scalar
    <2>3. QED BY <2>1, <2>2, <1>7 DEF Fits, IsPermissionsArray
  <1>8. QED BY <1>1, <1>2, <1>3, <1>4, <1>5, <1>6, <1>7 DEF Kinds

\* A text that was given a case has it.
LEMMA TextIsInCase ==
    ASSUME NEW to \in Cases, NEW y, ToCase(to, y).t = "text", ToCase(to, y).v \in Mails
    PROVE  ToCase(to, y).v = IF to = "lower" THEN "mail" ELSE "MAIL"
  <1>2. CASE y = Null \/ y = Text("")
    <2>1. ToCase(to, y) = Undefined
      BY <1>2, NothingParts, TextParts DEF ToCase
    <2>2. QED BY <2>1, NothingParts
  <1>3. CASE ~(y = Null \/ y = Text("")) /\ y.t = "array"
    <2>1. ToCase(to, y) = List([i \in DOMAIN y.items |-> InCase(to, y.items[i])])
      BY <1>3 DEF ToCase
    <2>2. ToCase(to, y).t = "array"
      BY <2>1, ListParts
    <2>3. QED BY <2>2
  <1>4. CASE ~(y = Null \/ y = Text("")) /\ y.t # "array"
    <2>1. ToCase(to, y) = InCase(to, y)
      BY <1>4 DEF ToCase
    <2>2. QED BY <2>1, TextParts DEF InCase
  <1>5. QED BY <1>2, <1>3, <1>4

\* An e-mail is in the case its options ask for.
LEMMA EmailIsInCase ==
    ASSUME NEW o \in Options, NEW x \in Raws,
           Converted(FieldOf("email", o), x).t = "text", Converted(FieldOf("email", o), x).v \in Mails
    PROVE  Converted(FieldOf("email", o), x).v \in MailTexts(o)
  <1> DEFINE f == FieldOf("email", o)
             y == Convert(f.type, x)
  <1>1. CASE o.case = "off"
    BY <1>1 DEF MailTexts
  <1>2. CASE o.case \in {"unset", "lower", "upper"}
    <2>1. f.to = IF o.case = "upper" THEN "upper" ELSE "lower"
      BY <1>2, FieldShape DEF Kinds
    <2>2. f.to \in Cases
      BY <2>1 DEF Cases
    <2>3. Converted(f, x) = ToCase(f.to, y)
      BY <2>1, <2>2 DEF Converted
    <2> HIDE DEF f, y
    <2>4. Converted(f, x).v = IF f.to = "lower" THEN "mail" ELSE "MAIL"
      BY <2>2, <2>3, TextIsInCase DEF f
    <2>5. QED BY <1>2, <2>1, <2>4 DEF MailTexts, f
  <1>3. QED BY <1>1, <1>2 DEF Options

LEMMA AcceptedIsAcceptable ==
    ASSUME NEW k \in Kinds, NEW o \in Options, NEW x \in Raws,
           Validate(FieldOf(k, o), Converted(FieldOf(k, o), x)) = {}
    PROVE  Acceptable(k, o, Converted(FieldOf(k, o), x))
  <1> DEFINE f == FieldOf(k, o)
             y == Converted(f, x)
  <1>1. CASE Skipped(f, y)
    BY <1>1, SkippedIsAcceptable
  <1>2. CASE ~Skipped(f, y) /\ k \notin {"class", "array", "deep"}
    <2>1. \A d \in f.checks : Satisfies(d, y)
      BY <1>2, NoErrorNoViolation, FieldShape
    <2>2. k = "email" /\ y.t = "text" /\ y.v \in Mails => y.v \in MailTexts(o)
      BY EmailIsInCase
    <2>3. QED BY <2>1, <2>2, <1>2, CheckedFits DEF Acceptable
  <1>3. CASE ~Skipped(f, y) /\ k \in {"class", "array", "deep"}
    <2>1. y = x /\ f.nested
      BY <1>3, ClassIsUntouched, FieldShape
    <2>2. \A z : Instance(z) => FitsOne(k, o, z)
      BY <1>3 DEF FitsOne
    <2>3. CASE y.t = "array"
      <3>1. \A i \in DOMAIN y.items : Instance(y.items[i]) \/ y.items[i] = Null
        <4> SUFFICES ASSUME NEW i \in DOMAIN y.items PROVE Instance(y.items[i]) \/ y.items[i] = Null
          OBVIOUS
        <4>1. y.items \in Seq(Leaves)
          BY <2>1, <2>3, RawShape
        <4>2. y.items[i] \in Leaves
          BY <4>1
        <4>3. LET e == NestedErrors(Index(i), y.items[i], {}) IN e.constraints = {} /\ e.children = {}
          BY <1>3, <2>3, NoErrorNoViolation, FieldShape
        <4>4. QED BY <4>2, <4>3, NoErrorInItems
      <3>2. QED BY <3>1, <2>2, <2>3, <1>3 DEF Fits, Acceptable
    <2>4. CASE y.t # "array"
      <3>1. (\A d \in f.checks : Satisfies(d, y)) /\ (y \notin Nothing => y.t = "object" /\ y.v = "good")
        BY <1>3, <2>1, <2>4, NoErrorInInstance
      <3>2. \A name : Has1(k, o, name, FALSE) => Passes(name, y)
        BY <3>1 DEF Has1, Satisfies
      <3>3. k # "array"
        BY <3>2, <2>4, FieldChecks DEF Passes
      <3>4. CASE y \notin Nothing
        <4>1. y \in Leaves /\ y.t = "object"
          BY <3>1, <3>4, <2>1, <2>4, RawShape DEF Nothing
        <4>2. Instance(y)
          BY <4>1, <3>1, <3>4, LeafShape DEF Instance
        <4>3. QED BY <4>2, <2>2, <3>3, <1>3 DEF Fits, Acceptable
      <3>5. CASE y \in Nothing /\ k = "class"
        <4>1. o.nullable /\ o.optional
          BY <3>2, <3>5, <1>3, FieldChecks, FieldSkips DEF Passes, Skipped, Nothing
        <4>2. QED BY <4>1, <3>5 DEF Acceptable
      <3>6. QED BY <3>3, <3>4, <3>5, <1>3 DEF Acceptable
    <2>5. QED BY <2>3, <2>4
  <1>4. QED BY <1>1, <1>2, <1>3

-------------------------------------------------------------------------------
\* A detail for every error, under a path that leads into what was sent.
LEMMA AppendToPath ==
    ASSUME NEW a, NEW b, NEW c
    PROVE  /\ Append(<<a>>, b) = <<a, b>>
           /\ Append(<<a, b>>, c) = <<a, b, c>>
  <1> DEFINE S == {a, b, c}
  <1>1. <<a>> \in Seq(S) /\ <<a, b>> \in Seq(S) /\ <<a, b, c>> \in Seq(S)
    OBVIOUS
  <1>2. Append(<<a>>, b) = <<a, b>>
    <2>1. /\ Append(<<a>>, b) \in Seq(S) /\ Len(Append(<<a>>, b)) = 2
          /\ Append(<<a>>, b)[1] = a /\ Append(<<a>>, b)[2] = b
      BY <1>1, AppendProperties
    <2>2. Len(<<a, b>>) = 2 /\ \A i \in 1 .. 2 : Append(<<a>>, b)[i] = <<a, b>>[i]
      BY <2>1
    <2>3. QED BY <2>1, <2>2, <1>1, SeqEqual
  <1>3. Append(<<a, b>>, c) = <<a, b, c>>
    <2>1. /\ Append(<<a, b>>, c) \in Seq(S) /\ Len(Append(<<a, b>>, c)) = 3
          /\ Append(<<a, b>>, c)[1] = a /\ Append(<<a, b>>, c)[2] = b /\ Append(<<a, b>>, c)[3] = c
      BY <1>1, AppendProperties
    <2>2. Len(<<a, b, c>>) = 3 /\ \A i \in 1 .. 3 : Append(<<a, b>>, c)[i] = <<a, b, c>>[i]
      BY <2>1
    <2>3. QED BY <2>1, <2>2, <1>1, SeqEqual
  <1>4. QED BY <1>2, <1>3

LEMMA ChildrenOf ==
    ASSUME NEW S, NEW x \in S, NEW c \in x.error.children
    PROVE  At(Append(x.path, c.property), c) \in Children(S)
  BY DEF Children

LEMMA DetailOfError ==
    ASSUME NEW errors, NEW e \in errors, NEW c \in e.constraints
    PROVE  [path |-> <<e.property>>, code |-> c] \in Details(errors)
  <1>1. At(<<e.property>>, e) \in ExtractErrors(errors)
    BY DEF ExtractErrors
  <1>2. At(<<e.property>>, e).path = <<e.property>> /\ At(<<e.property>>, e).error = e
    BY DEF At
  <1>3. QED BY <1>1, <1>2 DEF Details

LEMMA DetailOfChild ==
    ASSUME NEW errors, NEW e \in errors, NEW d \in e.children, NEW c \in d.constraints
    PROVE  [path |-> <<e.property, d.property>>, code |-> c] \in Details(errors)
  <1> DEFINE a == At(<<e.property>>, e)
             b == At(<<e.property, d.property>>, d)
  <1>1. a.path = <<e.property>> /\ a.error = e /\ b.path = <<e.property, d.property>> /\ b.error = d
    BY DEF At
  <1>2. Append(a.path, d.property) = <<e.property, d.property>>
    <2> HIDE DEF a, b
    <2>1. QED BY <1>1, AppendToPath
  <1>3. b \in Children({At(<<g.property>>, g) : g \in errors})
    <2>1. a \in {At(<<g.property>>, g) : g \in errors}
      OBVIOUS
    <2> HIDE DEF a, b
    <2>2. At(Append(a.path, d.property), d) \in Children({At(<<g.property>>, g) : g \in errors})
      BY <1>1, <2>1, ChildrenOf
    <2>3. QED BY <1>2, <2>2 DEF b
  <1>4. b \in ExtractErrors(errors)
    BY <1>3 DEF ExtractErrors
  <1>5. QED BY <1>1, <1>4 DEF Details

LEMMA DetailOfGrandchild ==
    ASSUME NEW errors, NEW e \in errors, NEW d \in e.children, NEW g \in d.children, NEW c \in g.constraints
    PROVE  [path |-> <<e.property, d.property, g.property>>, code |-> c] \in Details(errors)
  <1> DEFINE a == At(<<e.property>>, e)
             b == At(<<e.property, d.property>>, d)
             h == At(<<e.property, d.property, g.property>>, g)
             S == {At(<<z.property>>, z) : z \in errors}
  <1>1. /\ a.path = <<e.property>> /\ a.error = e /\ b.path = <<e.property, d.property>> /\ b.error = d
        /\ h.path = <<e.property, d.property, g.property>> /\ h.error = g
    BY DEF At
  <1>2. /\ Append(a.path, d.property) = <<e.property, d.property>>
        /\ Append(b.path, g.property) = <<e.property, d.property, g.property>>
    <2> HIDE DEF a, b
    <2>1. QED BY <1>1, AppendToPath
  <1>3. b \in Children(S)
    <2>1. a \in S
      OBVIOUS
    <2> HIDE DEF a, b, S
    <2>2. At(Append(a.path, d.property), d) \in Children(S)
      BY <1>1, <2>1, ChildrenOf
    <2>3. QED BY <1>2, <2>2 DEF b
  <1>4. h \in Children(Children(S))
    <2> HIDE DEF a, b, S
    <2>2. At(Append(b.path, g.property), g) \in Children(Children(S))
      BY <1>1, <1>3, ChildrenOf
    <2>3. QED BY <1>2, <2>2 DEF h
  <1>5. h \in ExtractErrors(errors)
    BY <1>4 DEF ExtractErrors
  <1>6. QED BY <1>1, <1>5 DEF Details

\* There are no others.
LEMMA DetailsComeFromErrors ==
    ASSUME NEW errors, NEW x \in Details(errors)
    PROVE  \E e \in errors :
              \/ x.path = <<e.property>>
              \/ \E d \in e.children :
                    \/ x.path = <<e.property, d.property>>
                    \/ \E g \in d.children : x.path = <<e.property, d.property, g.property>>
  <1> DEFINE S == {At(<<e.property>>, e) : e \in errors}
  <1>1. PICK y \in ExtractErrors(errors) : x.path = y.path
    BY DEF Details
  <1>2. CASE y \in S
    <2>1. PICK e \in errors : y = At(<<e.property>>, e)
      BY <1>2
    <2>2. y.path = <<e.property>>
      BY <2>1 DEF At
    <2>3. QED BY <1>1, <2>2
  <1>3. ASSUME NEW z \in Children(S)
        PROVE  \E e \in errors : \E d \in e.children : z = At(<<e.property, d.property>>, d)
    <2>1. PICK a \in S : \E d \in a.error.children : z = At(Append(a.path, d.property), d)
      BY <1>3 DEF Children
    <2>2. PICK e \in errors : a = At(<<e.property>>, e)
      BY <2>1
    <2>3. a.path = <<e.property>> /\ a.error = e
      BY <2>2 DEF At
    <2>4. PICK d \in e.children : z = At(Append(<<e.property>>, d.property), d)
      BY <2>1, <2>3
    <2>5. Append(<<e.property>>, d.property) = <<e.property, d.property>>
      BY AppendToPath
    <2>6. QED BY <2>4, <2>5
  <1>4. CASE y \in Children(S)
    <2>0. PICK e \in errors : \E d \in e.children : y = At(<<e.property, d.property>>, d)
      BY <1>3, <1>4
    <2>1. PICK d \in e.children : y = At(<<e.property, d.property>>, d)
      BY <2>0
    <2>2. y.path = <<e.property, d.property>>
      BY <2>1 DEF At
    <2>3. QED BY <1>1, <2>2
  <1>5. CASE y \in Children(Children(S))
    <2>1. PICK b \in Children(S) : \E g \in b.error.children : y = At(Append(b.path, g.property), g)
      BY <1>5 DEF Children
    <2>0. PICK e \in errors : \E d \in e.children : b = At(<<e.property, d.property>>, d)
      BY <1>3
    <2>2. PICK d \in e.children : b = At(<<e.property, d.property>>, d)
      BY <2>0
    <2>3. b.path = <<e.property, d.property>> /\ b.error = d
      BY <2>2 DEF At
    <2>4. PICK g \in d.children : y = At(Append(<<e.property, d.property>>, g.property), g)
      BY <2>1, <2>3
    <2>5. Append(<<e.property, d.property>>, g.property) = <<e.property, d.property, g.property>>
      BY AppendToPath
    <2>6. y.path = <<e.property, d.property, g.property>>
      BY <2>4, <2>5 DEF At
    <2>7. QED BY <1>1, <2>6
  <1>6. QED BY <1>2, <1>4, <1>5 DEF ExtractErrors

\* The errors of a single value and of an item.
LEMMA NestedParts ==
    ASSUME NEW p, NEW x, NEW own, NEW e, e = NestedErrors(p, x, own)
    PROVE  /\ e.property = p
           /\ \A d \in e.children : d.property = "name" /\ d.constraints # {} /\ d.children = {} /\ x.t = "object"
  <1>1. CASE x \in Nothing
    <2>1. e = Error(p, own, {})
      BY <1>1, NothingParts DEF NestedErrors, Nothing
    <2>2. QED BY <2>1, ErrorParts
  <1>2. CASE x \notin Nothing /\ x.t = "object"
    <2>1. e = Error(p, own, IF x.v # "good" THEN {Error("name", {"minLength"}, {})} ELSE {})
      BY <1>2 DEF NestedErrors
    <2>2. QED BY <2>1, <1>2, ErrorParts
  <1>3. CASE x \notin Nothing /\ x.t # "object"
    <2>1. e = Error(p, own \cup {"nestedValidation"}, {})
      BY <1>3 DEF NestedErrors
    <2>2. QED BY <2>1, ErrorParts
  <1>4. QED BY <1>1, <1>2, <1>3

LEMMA TailsOfPaths ==
    ASSUME NEW a, NEW b
    PROVE  Tail(<<a>>) = <<>> /\ Tail(<<a, b>>) = <<b>> /\ SubSeq(<<a, b>>, 3, 2) = <<>>
  <1> DEFINE S == {a, b}
  <1>1. <<a>> \in Seq(S) /\ <<a, b>> \in Seq(S) /\ <<b>> \in Seq(S)
    OBVIOUS
  <1>2. Tail(<<a>>) = <<>>
    BY <1>1, HeadTailProperties
  <1>3. Tail(<<a, b>>) = <<b>>
    <2>1. Tail(<<a, b>>) \in Seq(S) /\ Len(Tail(<<a, b>>)) = 1 /\ Tail(<<a, b>>)[1] = b
      BY <1>1, HeadTailProperties
    <2>2. Len(<<b>>) = 1 /\ \A i \in 1 .. 1 : Tail(<<a, b>>)[i] = <<b>>[i]
      BY <2>1
    <2>3. QED BY <2>1, <2>2, <1>1, SeqEqual
  <1>4. SubSeq(<<a, b>>, 3, 2) = <<>>
    BY <1>1, SubSeqEmpty
  <1>5. QED BY <1>2, <1>3, <1>4

LEMMA PartOfPath ==
    ASSUME NEW a, NEW b, NEW c
    PROVE  SubSeq(<<a, b, c>>, 3, 3) = <<c>>
  <1> DEFINE S == {a, b, c}
             r == SubSeq(<<a, b, c>>, 3, 3)
  <1>1. <<a, b, c>> \in Seq(S) /\ <<c>> \in Seq(S)
    OBVIOUS
  <1>2. r \in Seq(S) /\ Len(r) = 1 /\ r[1] = c
    BY <1>1, SubSeqProperties
  <1> HIDE DEF r
  <1>3. Len(<<c>>) = 1 /\ \A i \in 1 .. 1 : r[i] = <<c>>[i]
    BY <1>2
  <1>4. r = <<c>>
    BY <1>1, <1>2, <1>3, SeqEqual
  <1>5. QED BY <1>4 DEF r

\* The property itself; an item of a list, or a property of it; a property of
\* the object that was sent.
LEMMA PathsThatLead ==
    ASSUME NEW x
    PROVE  /\ Leads(x, <<"field">>)
           /\ x.t = "array" => \A i \in DOMAIN x.items :
                 /\ Leads(x, <<"field", Index(i)>>)
                 /\ x.items[i].t = "object" => Leads(x, <<"field", Index(i), "name">>)
           /\ x.t = "object" => Leads(x, <<"field", "name">>)
  <1>1. Leads(x, <<"field">>)
    BY TailsOfPaths DEF Leads
  <1>2. ASSUME x.t = "array", NEW i \in DOMAIN x.items
        PROVE  /\ Leads(x, <<"field", Index(i)>>)
               /\ x.items[i].t = "object" => Leads(x, <<"field", Index(i), "name">>)
    <2> DEFINE p == <<"field", Index(i)>>
               q == <<"field", Index(i), "name">>
    <2>1. /\ p # <<>> /\ p[1] = "field" /\ p[2] = Index(i) /\ Len(p) = 2
          /\ q # <<>> /\ q[1] = "field" /\ q[2] = Index(i) /\ Len(q) = 3
      OBVIOUS
    <2>2. SubSeq(p, 3, 2) = <<>>
      BY TailsOfPaths
    <2>6. SubSeq(q, 3, 3) = <<"name">>
      BY PartOfPath
    <2> HIDE DEF p, q
    <2>3. Leads(x, p)
      BY <1>2, <2>1, <2>2 DEF Leads
    <2>4. x.items[i].t = "object" => Leads(x, q)
      BY <1>2, <2>1, <2>6 DEF Leads
    <2>5. QED BY <2>3, <2>4 DEF p, q
  <1>3. ASSUME x.t = "object" PROVE Leads(x, <<"field", "name">>)
    BY <1>3, TailsOfPaths DEF Leads
  <1>4. QED BY <1>1, <1>2, <1>3

Explained(x, details) == details # {} /\ \A d \in details : Leads(x, d.path)

LEMMA ListErrorsLead ==
    ASSUME NEW f, NEW x, ~Skipped(f, x), f.nested, x.t = "array", Validate(f, x) # {}
    PROVE  Explained(x, Details(Validate(f, x)))
  <1> DEFINE own == {c.name : c \in {d \in f.checks : ~Satisfies(d, x)}}
             items == {NestedErrors(Index(i), x.items[i], {}) : i \in DOMAIN x.items}
             e == Error("field", own, NotEmpty(items))
             errors == Validate(f, x)
  <1>1. errors = NotEmpty({e})
    BY DEF Validate
  <1>2. e.property = "field" /\ e.constraints = own /\ e.children = NotEmpty(items)
    BY ErrorParts
  <1> HIDE DEF e, own
  <1>3. errors = {e} /\ (e.constraints # {} \/ e.children # {})
    BY <1>1 DEF NotEmpty
  <1> HIDE DEF errors
  <1>4. Details(errors) # {}
    <2>1. CASE e.constraints # {}
      BY <2>1, <1>3, DetailOfError
    <2>2. CASE e.children # {}
      <3>1. PICK d \in e.children : d \in items /\ (d.constraints # {} \/ d.children # {})
        BY <2>2, <1>2 DEF NotEmpty
      <3>2. PICK i \in DOMAIN x.items : d = NestedErrors(Index(i), x.items[i], {})
        BY <3>1
      <3>3. CASE d.constraints # {}
        BY <3>3, <3>1, <1>3, DetailOfChild
      <3>4. CASE d.children # {}
        <4>1. PICK g \in d.children : g.constraints # {}
          BY <3>2, <3>4, NestedParts
        <4>2. QED BY <4>1, <3>1, <1>3, DetailOfGrandchild
      <3>5. QED BY <3>1, <3>3, <3>4
    <2>3. QED BY <2>1, <2>2, <1>3
  <1>5. ASSUME NEW y \in Details(errors) PROVE Leads(x, y.path)
    <2>1. \/ y.path = <<e.property>>
          \/ \E d \in e.children :
                \/ y.path = <<e.property, d.property>>
                \/ \E g \in d.children : y.path = <<e.property, d.property, g.property>>
      BY <1>3, <1>5, DetailsComeFromErrors
    <2>2. CASE y.path = <<e.property>>
      BY <2>2, <1>2, PathsThatLead
    <2>3. ASSUME NEW d \in e.children,
                 \/ y.path = <<e.property, d.property>>
                 \/ \E g \in d.children : y.path = <<e.property, d.property, g.property>>
          PROVE  Leads(x, y.path)
      <3>1. PICK i \in DOMAIN x.items : d = NestedErrors(Index(i), x.items[i], {})
        BY <2>3, <1>2 DEF NotEmpty
      <3>2. d.property = Index(i) /\ \A g \in d.children : g.property = "name" /\ x.items[i].t = "object"
        BY <3>1, NestedParts
      <3>3. QED BY <2>3, <3>2, <1>2, PathsThatLead
    <2>4. QED BY <2>1, <2>2, <2>3
  <1>6. QED BY <1>4, <1>5 DEF Explained, errors

LEMMA InstanceErrorsLead ==
    ASSUME NEW f, NEW x, ~Skipped(f, x), f.nested, x.t # "array", Validate(f, x) # {}
    PROVE  Explained(x, Details(Validate(f, x)))
  <1> DEFINE own == {c.name : c \in {d \in f.checks : ~Satisfies(d, x)}}
             e == NestedErrors("field", x, own)
             errors == Validate(f, x)
  <1>1. errors = NotEmpty({e})
    BY DEF Validate
  <1>2. e.property = "field" /\ \A d \in e.children : d.property = "name" /\ d.constraints # {} /\ d.children = {} /\ x.t = "object"
    BY NestedParts
  <1> HIDE DEF e, own
  <1>3. errors = {e} /\ (e.constraints # {} \/ e.children # {})
    BY <1>1 DEF NotEmpty
  <1> HIDE DEF errors
  <1>4. Details(errors) # {}
    <2>1. CASE e.constraints # {}
      BY <2>1, <1>3, DetailOfError
    <2>2. CASE e.children # {}
      BY <2>2, <1>2, <1>3, DetailOfChild
    <2>3. QED BY <2>1, <2>2, <1>3
  <1>5. ASSUME NEW y \in Details(errors) PROVE Leads(x, y.path)
    <2>1. \/ y.path = <<e.property>>
          \/ \E d \in e.children :
                \/ y.path = <<e.property, d.property>>
                \/ \E g \in d.children : y.path = <<e.property, d.property, g.property>>
      BY <1>3, <1>5, DetailsComeFromErrors
    <2>2. QED BY <2>1, <1>2, PathsThatLead
  <1>6. QED BY <1>4, <1>5 DEF Explained, errors

\* A property without a class has errors of its own alone.
LEMMA FlatErrorsLead ==
    ASSUME NEW f, NEW x, NEW y, ~Skipped(f, y), ~f.nested, Validate(f, y) # {}
    PROVE  Explained(x, Details(Validate(f, y)))
  <1> DEFINE own == {c.name : c \in {d \in f.checks : ~Satisfies(d, y)}}
             e == Error("field", own, NotEmpty({}))
             errors == Validate(f, y)
  <1>1. errors = NotEmpty({e})
    BY DEF Validate
  <1>2. e.property = "field" /\ e.children = {}
    BY ErrorParts DEF NotEmpty
  <1> HIDE DEF e, own
  <1>3. errors = {e} /\ e.constraints # {}
    BY <1>1, <1>2 DEF NotEmpty
  <1> HIDE DEF errors
  <1>4. Details(errors) # {}
    BY <1>3, DetailOfError
  <1>5. \A d \in Details(errors) : d.path = <<"field">>
    BY <1>2, <1>3, DetailsComeFromErrors
  <1>6. QED BY <1>4, <1>5, PathsThatLead DEF Explained, errors

LEMMA RejectedIsExplained ==
    ASSUME NEW k \in Kinds, NEW o \in Options, NEW x \in Raws,
           Validate(FieldOf(k, o), Converted(FieldOf(k, o), x)) # {}
    PROVE  Explained(x, Details(Validate(FieldOf(k, o), Converted(FieldOf(k, o), x))))
  <1> DEFINE f == FieldOf(k, o)
             y == Converted(f, x)
  <1>1. ~Skipped(f, y)
    BY DEF Validate
  <1>2. CASE ~f.nested
    BY <1>1, <1>2, FlatErrorsLead
  <1>3. CASE f.nested
    <2>1. y = x
      BY <1>3, FieldShape, ClassIsUntouched
    <2>2. QED BY <2>1, <1>1, <1>3, ListErrorsLead, InstanceErrorsLead
  <1>4. QED BY <1>2, <1>3

\* A transformation throws at nothing else.
LEMMA ThrowsOnlyForUnusable ==
    ASSUME NEW k \in Kinds, NEW o \in Options, NEW x \in Raws, Throws(FieldOf(k, o), x)
    PROVE  Unusable(k, o, x)
  <1> DEFINE type == FieldOf(k, o).type
  <1>0. CASE ConvertThrows(type, x)
    BY <1>0, FieldShape DEF ConvertThrows, Unusable
  <1> SUFFICES ASSUME ~ConvertThrows(type, x) PROVE Unusable(k, o, x)
    BY <1>0
  <1>1. ChangesCase(k, o) /\ ToCaseThrows(Convert(type, x))
    BY FieldShape DEF Throws
  <1>2. x.t = "array"
    BY <1>1, ConvertKeepsLists DEF ToCaseThrows
  <1>3. type = "String"
    BY FieldShape DEF Throws
  <1>4. Convert(type, x) = List([i \in DOMAIN x.items |-> ConvertOne(type, x.items[i])])
    BY <1>2 DEF Convert
  <1> HIDE DEF type
  <1>5. PICK i \in DOMAIN x.items : ConvertOne(type, x.items[i]) \in Nothing
    BY <1>1, <1>4, ListParts DEF ToCaseThrows
  <1>6. x.items[i] \in Nothing
    BY <1>3, <1>5, TextParts, NothingParts DEF ConvertOne, Nothing
  <1>7. x.items[i] \in Leaves
    <2>1. x.items \in Seq(Leaves)
      BY <1>2, RawShape
    <2>2. QED BY <2>1
  <1>8. QED BY <1>1, <1>2, <1>6, <1>7, LeafShape DEF Nothing, Unusable

-------------------------------------------------------------------------------
\* A list has no form.  What a handler is given is acceptable; what was thrown
\* before it is an error that is explained, or that of an unusable value.
FormShape ==
    form \in [phase : {"sent", "handled", "thrown", "answered"}, kind : Kinds, o : Options, raw : Raws,
              value : {form.value}, reached : BOOLEAN, thrown : {form.thrown}, status : {form.status},
              details : {form.details}]

FormSound ==
    /\ form.phase = "sent" => ~form.reached
    /\ form.phase = "handled" => form.reached /\ Acceptable(form.kind, form.o, form.value)
    /\ form.phase = "thrown" /\ ~form.reached =>
          \/ form.thrown.class = "unprocessable" /\ Explained(form.raw, Details(form.thrown.errors))
          \/ form.thrown.class = "error" /\ Unusable(form.kind, form.o, form.raw)
    /\ form.phase = "answered" /\ ~form.reached =>
          \/ form.status = 422 /\ Explained(form.raw, form.details)
          \/ form.status = 500 /\ Unusable(form.kind, form.o, form.raw)

FormInv ==
    \/ route = "list" /\ form = NoForm
    \/ route = "form" /\ FormShape /\ FormSound

LEMMA FormAtInit == Init => FormInv
  <1> SUFFICES ASSUME Init PROVE FormInv
    OBVIOUS
  <1>1. CASE route = "list" /\ form = NoForm
    BY <1>1 DEF FormInv
  <1>2. CASE route = "form" /\ FormInit
    BY <1>2 DEF FormInv, FormInit, FormShape, FormSound
  <1>3. QED BY <1>1, <1>2 DEF Init

LEMMA PipeKeepsForm == FormInv /\ Pipe => FormInv' \/ route' # route
  <1> SUFFICES ASSUME FormInv, Pipe, route' = route PROVE FormInv'
    OBVIOUS
  <1>1. form.phase = "sent" /\ route = "form" /\ FormShape /\ FormSound
    BY DEF FormInv, Pipe, NoForm
  <1> DEFINE k == form.kind
             o == form.o
             x == form.raw
             f == FieldOf(k, o)
             y == Converted(f, x)
             errors == Validate(f, y)
  <1>2. k \in Kinds /\ o \in Options /\ x \in Raws /\ ~form.reached
    BY <1>1 DEF FormShape, FormSound
  <1>3. CASE Throws(f, x)
    <2>1. form' = [form EXCEPT !.phase = "thrown", !.thrown = Thrown("error")]
      BY <1>3 DEF Pipe
    <2>2. Unusable(k, o, x)
      BY <1>2, <1>3, ThrowsOnlyForUnusable
    <2>3. form'.kind = k /\ form'.o = o /\ form'.raw = x /\ form'.phase = "thrown" /\ form'.thrown.class = "error"
      BY <1>1, <2>1 DEF FormShape, Thrown
    <2>4. FormShape' /\ FormSound'
      BY <1>1, <1>2, <2>1, <2>2, <2>3 DEF FormShape, FormSound
    <2>5. QED BY <1>1, <2>4 DEF FormInv
  <1>4. CASE ~Throws(f, x) /\ errors # {}
    <2>1. form' = [form EXCEPT !.phase = "thrown", !.thrown = [class |-> "unprocessable", errors |-> errors]]
      BY <1>4 DEF Pipe
    <2>2. Explained(x, Details(errors))
      BY <1>2, <1>4, RejectedIsExplained
    <2> HIDE DEF errors
    <2>3. /\ form'.kind = k /\ form'.o = o /\ form'.raw = x /\ form'.phase = "thrown"
          /\ form'.thrown.class = "unprocessable" /\ form'.thrown.errors = errors
      BY <1>1, <2>1 DEF FormShape
    <2>4. FormShape' /\ FormSound'
      BY <1>1, <1>2, <2>1, <2>2, <2>3 DEF FormShape, FormSound
    <2>5. QED BY <1>1, <2>4 DEF FormInv
  <1>5. CASE ~Throws(f, x) /\ errors = {}
    <2>1. form' = [form EXCEPT !.phase = "handled", !.reached = TRUE, !.value = y]
      BY <1>5 DEF Pipe
    <2>2. Acceptable(k, o, y)
      BY <1>2, <1>5, AcceptedIsAcceptable
    <2> HIDE DEF y
    <2>3. /\ form'.kind = k /\ form'.o = o /\ form'.raw = x /\ form'.phase = "handled"
          /\ form'.reached /\ form'.value = y
      BY <1>1, <2>1 DEF FormShape
    <2>4. FormShape' /\ FormSound'
      BY <1>1, <1>2, <2>1, <2>2, <2>3 DEF FormShape, FormSound
    <2>5. QED BY <1>1, <2>4 DEF FormInv
  <1>6. QED BY <1>3, <1>4, <1>5

LEMMA FormStep == FormInv /\ [Next]_<<route, form, vars>> => FormInv'
  <1> SUFFICES ASSUME FormInv, [Next]_<<route, form, vars>> PROVE FormInv'
    OBVIOUS
  <1>1. CASE UNCHANGED <<route, form>>
    BY <1>1 DEF FormInv, FormShape, FormSound
  <1>2. CASE Pipe /\ Posting
    BY <1>2, PipeKeepsForm DEF Posting
  <1>3. CASE Respond /\ Posting
    <2>1. route' = "form" /\ FormShape /\ FormSound /\ form.phase = "handled"
      BY <1>3 DEF FormInv, Respond, Posting, NoForm
    <2>2. QED BY <1>3, <2>1 DEF FormInv, FormShape, FormSound, Respond
  <1>4. CASE Throw /\ Posting
    <2>1. route' = "form" /\ FormShape /\ FormSound /\ form.phase = "handled"
      BY <1>4 DEF FormInv, Throw, Posting, NoForm
    <2>2. PICK class : form' = [form EXCEPT !.phase = "thrown", !.thrown = Thrown(class)]
      BY <1>4 DEF Throw
    <2>3. QED BY <2>1, <2>2 DEF FormInv, FormShape, FormSound
  <1>5. CASE Catch /\ Posting
    <2>1. route' = "form" /\ FormShape /\ FormSound /\ form.phase = "thrown"
      BY <1>5 DEF FormInv, Catch, Posting, NoForm
    <2>2. Status("unprocessable") = 422 /\ Status("error") = 500
      BY DEF Status
    <2>3. form' = [form EXCEPT !.phase = "answered", !.status = Status(form.thrown.class), !.details = Details(form.thrown.errors)]
      BY <1>5 DEF Catch
    <2>4. form'.kind = form.kind /\ form'.o = form.o /\ form'.raw = form.raw /\ form'.phase = "answered"
          /\ form'.reached = form.reached
          /\ form'.status = Status(form.thrown.class) /\ form'.details = Details(form.thrown.errors)
      BY <2>1, <2>3 DEF FormShape
    <2>5. FormShape'
      BY <2>1, <2>3 DEF FormShape
    <2>6. FormSound'
      BY <2>1, <2>2, <2>4 DEF FormSound
    <2>7. QED BY <2>1, <2>5, <2>6 DEF FormInv
  <1>6. QED BY <1>1, <1>2, <1>3, <1>4, <1>5 DEF Next, Listing, vars

LEMMA FormAlways == Spec => []FormInv
  BY FormAtInit, FormStep, PTL DEF Spec

\* A handler is given nothing but values that its property fits, whatever
\* texts, numbers and lists a client sends.
THEOREM HandlersGetWhatFits == Spec => []AcceptedValuesFit
  <1>1. FormInv => AcceptedValuesFit
    BY DEF FormInv, FormShape, FormSound, NoForm, AcceptedValuesFit, Acceptable
  <1>2. QED BY <1>1, FormAlways, PTL

\* A rejection has a detail, and every detail's path leads into what was sent;
\* an error of the server is that of an unusable value.
THEOREM RejectionsExplained == Spec => []RejectionsAreExplained
  <1>1. FormInv => RejectionsAreExplained
    BY DEF FormInv, FormShape, FormSound, NoForm, RejectionsAreExplained, Explained
  <1>2. QED BY <1>1, FormAlways, PTL

-------------------------------------------------------------------------------
\* The keys of a cursor's order: one or two, and not the same twice.
Part == [key : {"at", "id"}, up : BOOLEAN]
CursorOrder(o) ==
    /\ o \in Seq(Part) /\ Len(o) \in {1, 2}
    /\ Len(o) = 2 => o[1].key # o[2].key

LEMMA QueryOrder ==
    ASSUME NEW q \in Queries, q.by = "cursor"
    PROVE  CursorOrder(q.order) /\ q.limit \in Nat \ {0}
  <1>1. PICK ks \in CursorKeys, up \in BOOLEAN :
            q.order = [i \in DOMAIN ks |-> [key |-> ks[i], up |-> up]] /\ q.limit \in Limits
    BY DEF Queries
  <1>2. ks \in Seq({"at", "id"}) /\ ks # <<>> /\ \A i, j \in DOMAIN ks : ks[i] = ks[j] => i = j
    BY PagesAssumption
  <1>3. Len(ks) \in Nat /\ Len(ks) # 0 /\ DOMAIN ks = 1 .. Len(ks)
    BY <1>2
  <1>4. Len(ks) \in {1, 2}
    <2>1. ASSUME Len(ks) > 2 PROVE FALSE
      <3>1. 1 \in DOMAIN ks /\ 2 \in DOMAIN ks /\ 3 \in DOMAIN ks
        BY <1>3, <2>1
      <3>2. ks[1] # ks[2] /\ ks[2] # ks[3] /\ ks[1] # ks[3]
        BY <1>2, <3>1
      <3>3. ks[1] \in {"at", "id"} /\ ks[2] \in {"at", "id"} /\ ks[3] \in {"at", "id"}
        BY <1>2, <3>1
      <3>4. QED BY <3>2, <3>3
    <2>2. QED BY <2>1, <1>3
  <1>5. \A i \in DOMAIN ks : [key |-> ks[i], up |-> up] \in Part
    BY <1>2 DEF Part
  <1>6. q.order \in Seq(Part) /\ Len(q.order) = Len(ks)
    BY <1>1, <1>3, <1>5
  <1>7. Len(ks) = 2 => q.order[1].key # q.order[2].key
    BY <1>1, <1>2, <1>3
  <1>8. QED BY <1>1, <1>4, <1>6, <1>7, PagesAssumption DEF CursorOrder

LEMMA FlipOrder ==
    ASSUME NEW o, CursorOrder(o)
    PROVE  /\ CursorOrder(Flip(o)) /\ Len(Flip(o)) = Len(o)
           /\ \A i \in 1 .. Len(o) : Flip(o)[i].key = o[i].key /\ Flip(o)[i].up = ~o[i].up
  <1>1. DOMAIN o = 1 .. Len(o) /\ Len(o) \in {1, 2} /\ \A i \in 1 .. Len(o) : o[i] \in Part
    BY DEF CursorOrder
  <1>2. \A i \in 1 .. Len(o) : Flip(o)[i] = [o[i] EXCEPT !.up = ~@]
    BY <1>1 DEF Flip
  <1>3. \A i \in 1 .. Len(o) : Flip(o)[i] \in Part /\ Flip(o)[i].key = o[i].key /\ Flip(o)[i].up = ~o[i].up
    BY <1>1, <1>2 DEF Part
  <1>4. Flip(o) = [i \in 1 .. Len(o) |-> Flip(o)[i]]
    BY <1>1 DEF Flip
  <1>5. Flip(o) \in Seq(Part) /\ Len(Flip(o)) = Len(o)
    BY <1>1, <1>3, <1>4
  <1>6. QED BY <1>1, <1>3, <1>5 DEF CursorOrder

\* What comes before what, and what is beyond a cursor, by one key or two.
LEMMA PrecedesByKeys ==
    ASSUME NEW o, CursorOrder(o), NEW r, NEW s
    PROVE  Precedes(r, s, o) <=>
              \/ Differ(r, s, o[1])
              \/ Len(o) = 2 /\ Differ(r, s, o[2]) /\ ~Lower(r, s, o[1].key) /\ ~Lower(s, r, o[1].key)
  <1>1. DOMAIN o = 1 .. Len(o) /\ Len(o) \in {1, 2}
    BY DEF CursorOrder
  <1>2. CASE Len(o) = 1
    BY <1>1, <1>2 DEF Precedes
  <1>3. CASE Len(o) = 2
    BY <1>1, <1>3 DEF Precedes
  <1>4. QED BY <1>1, <1>2, <1>3

LEMMA CursorByKeys ==
    ASSUME NEW o, CursorOrder(o), NEW r, NEW c
    PROVE  CursorQuery(r, c, o) <=>
              \/ Beyond(r, c, o[1])
              \/ Len(o) = 2 /\ Beyond(r, c, o[2]) /\ Level(r, c, o[1])
  <1>1. DOMAIN o = 1 .. Len(o) /\ Len(o) \in {1, 2}
    BY DEF CursorOrder
  <1>2. CASE Len(o) = 1
    BY <1>1, <1>2 DEF CursorQuery
  <1>3. CASE Len(o) = 2
    BY <1>1, <1>3 DEF CursorQuery
  <1>4. QED BY <1>1, <1>2, <1>3

\* A row that a cursor tells from all others, in the keys of an order.
Dated(o) == o[1].key = "at" \/ (Len(o) = 2 /\ o[2].key = "at")
Numbered(o) == o[1].key = "id" \/ (Len(o) = 2 /\ o[2].key = "id")
Clear(r, o) ==
    Dated(o) =>
        /\ stamp[r] # NoDate
        /\ \A s \in Rows \ {r} : stamp[s].ms = stamp[r].ms => Numbered(o) /\ stamp[s].us = stamp[r].us

LEMMA ClearRows ==
    ASSUME CursorOrder(query.order), query.by = "cursor", NEW r
    PROVE  Clear(r, query.order) <=> ~Blurred(r)
  <1>1. DOMAIN query.order = 1 .. Len(query.order) /\ Len(query.order) \in {1, 2}
    BY DEF CursorOrder
  <1>2. ByDate <=> Dated(query.order)
    BY <1>1 DEF ByDate, Dated
  <1>3. ById <=> Numbered(query.order)
    BY <1>1 DEF ById, Numbered
  <1>4. QED BY <1>2, <1>3 DEF Clear, Blurred

LEMMA ClearFlipped ==
    ASSUME NEW o, CursorOrder(o), NEW r
    PROVE  Clear(r, Flip(o)) <=> Clear(r, o)
  <1>1. Len(o) \in {1, 2} /\ Len(Flip(o)) = Len(o) /\ \A i \in 1 .. Len(o) : Flip(o)[i].key = o[i].key
    BY FlipOrder DEF CursorOrder
  <1>2. QED BY <1>1 DEF Clear, Dated, Numbered

\* No row comes before itself, whatever the order.
LEMMA NotBeforeItself ==
    ASSUME stamp \in [Rows -> Stamps], NEW o, NEW r \in Rows
    PROVE  ~Precedes(r, r, o)
  <1>1. r \in Int /\ stamp[r] \in [ms : Int, us : Int]
    BY PagesAssumption
  <1>2. \A key : ~Lower(r, r, key)
    BY <1>1 DEF Lower
  <1>3. QED BY <1>2 DEF Precedes, Differ

\* The row of a cursor is not beyond it.
LEMMA NotBeyondItself ==
    ASSUME stamp \in [Rows -> Stamps], NEW o, CursorOrder(o), NEW r \in Rows
    PROVE  ~CursorQuery(r, Encode(r), o)
  <1>1. r \in Int /\ stamp[r] \in [ms : Int, us : Int]
    BY PagesAssumption
  <1>2. QED BY <1>1, CursorByKeys DEF Beyond, Level, Encode

\* Where a row is clear and the cursor is no null, beyond the cursor is what
\* comes after its row.
LEMMA CursorsAreExact ==
    ASSUME stamp \in [Rows -> Stamps], NEW o, CursorOrder(o), NEW r \in Rows, NEW s \in Rows, r # s,
           Clear(r, o), Dated(o) => stamp[s] # NoDate
    PROVE  /\ CursorQuery(r, Encode(s), o) <=> Precedes(s, r, o)
           /\ CursorQuery(r, Encode(s), o) <=> ~Precedes(r, s, o)
  <1>1. /\ r \in Int /\ s \in Int /\ stamp[r] \in [ms : Int, us : Int] /\ stamp[s] \in [ms : Int, us : Int]
    BY PagesAssumption
  <1>2. Encode(s).at = stamp[s].ms /\ Encode(s).id = s
    BY DEF Encode
  <1>3. Len(o) \in {1, 2} /\ o[1] \in Part /\ (Len(o) = 2 => o[2] \in Part /\ o[1].key # o[2].key)
    BY DEF CursorOrder
  <1>4. CASE Len(o) = 1 /\ o[1].key = "id"
    BY <1>1, <1>2, <1>3, <1>4, PrecedesByKeys, CursorByKeys DEF Beyond, Level, Differ, Lower, Part
  <1>5. CASE Len(o) = 1 /\ o[1].key = "at"
    BY <1>1, <1>2, <1>3, <1>5, PrecedesByKeys, CursorByKeys DEF Beyond, Level, Differ, Lower, Part, Clear, Dated, Numbered
  <1>6. CASE Len(o) = 2 /\ o[1].key = "id" /\ o[2].key = "at"
    BY <1>1, <1>2, <1>3, <1>6, PrecedesByKeys, CursorByKeys DEF Beyond, Level, Differ, Lower, Part
  <1>7. CASE Len(o) = 2 /\ o[1].key = "at" /\ o[2].key = "id"
    BY <1>1, <1>2, <1>3, <1>7, PrecedesByKeys, CursorByKeys DEF Beyond, Level, Differ, Lower, Part, Clear, Dated, Numbered
  <1>8. QED BY <1>3, <1>4, <1>5, <1>6, <1>7 DEF Part

\* Beyond a row that is beyond a cursor is beyond the cursor.
LEMMA BeyondIsTransitive ==
    ASSUME stamp \in [Rows -> Stamps], NEW o, CursorOrder(o), NEW r \in Rows, NEW s \in Rows, NEW t \in Rows,
           CursorQuery(r, Encode(s), o), CursorQuery(s, Encode(t), o)
    PROVE  CursorQuery(r, Encode(t), o)
  <1>1. /\ r \in Int /\ s \in Int /\ t \in Int
        /\ stamp[r] \in [ms : Int, us : Int] /\ stamp[s] \in [ms : Int, us : Int] /\ stamp[t] \in [ms : Int, us : Int]
    BY PagesAssumption
  <1>2. Encode(s).at = stamp[s].ms /\ Encode(s).id = s /\ Encode(t).at = stamp[t].ms /\ Encode(t).id = t
    BY DEF Encode
  <1>3. Len(o) \in {1, 2} /\ o[1] \in Part /\ (Len(o) = 2 => o[2] \in Part /\ o[1].key # o[2].key)
    BY DEF CursorOrder
  <1>4. CASE Len(o) = 1
    BY <1>1, <1>2, <1>3, <1>4, CursorByKeys DEF Beyond, Level, Part
  <1>5. CASE Len(o) = 2 /\ o[1].key = "id"
    BY <1>1, <1>2, <1>3, <1>5, CursorByKeys DEF Beyond, Level, Part
  <1>6. CASE Len(o) = 2 /\ o[1].key = "at"
    BY <1>1, <1>2, <1>3, <1>6, CursorByKeys DEF Beyond, Level, Part
  <1>7. QED BY <1>3, <1>4, <1>5, <1>6 DEF Part

-------------------------------------------------------------------------------
\* The answers of the database list every row once, and none before one that
\* precedes it.
LEMMA OrderedParts ==
    ASSUME NEW S, IsFiniteSet(S), NEW o, NEW q \in Ordered(S, o)
    PROVE  /\ q \in Seq(S) /\ Len(q) = Cardinality(S) /\ Len(q) \in Nat
           /\ \A i, j \in 1 .. Len(q) : i < j => q[i] # q[j] /\ ~Precedes(q[j], q[i], o)
           /\ \A s \in S : \E i \in 1 .. Len(q) : q[i] = s
  <1> DEFINE n == Cardinality(S)
  <1>1. n \in Nat
    BY FS_CardinalityType
  <1>2. q \in [1 .. n -> S] /\ \A i, j \in 1 .. n : i < j => q[i] # q[j] /\ ~Precedes(q[j], q[i], o)
    BY DEF Ordered
  <1>3. q \in Seq(S) /\ Len(q) = n
    BY <1>1, <1>2
  <1>4. q \in Surjection(1 .. n, S)
    <2>1. \A i, j \in 1 .. n : q[i] = q[j] => i = j
      BY <1>1, <1>2
    <2>2. q \in Injection(1 .. n, S)
      BY <1>2, <2>1 DEF Injection, IsInjective
    <2>3. Cardinality(1 .. n) = n
      BY <1>1, FS_Interval
    <2>4. QED BY <2>2, <2>3, FS_Injection
  <1>5. \A s \in S : \E i \in 1 .. n : q[i] = s
    BY <1>4 DEF Surjection
  <1>6. QED BY <1>1, <1>2, <1>3, <1>5

LEMMA PrefixParts ==
    ASSUME NEW S, NEW q \in Seq(S), NEW n \in Nat
    PROVE  /\ Prefix(q, n) \in Seq(S)
           /\ Len(Prefix(q, n)) = IF Len(q) < n THEN Len(q) ELSE n
           /\ \A i \in 1 .. Len(Prefix(q, n)) : Prefix(q, n)[i] = q[i]
  <1> DEFINE m == IF Len(q) < n THEN Len(q) ELSE n
  <1>1. m \in Nat /\ m <= Len(q) /\ Len(q) \in Nat
    BY LenProperties
  <1>2. Prefix(q, n) = SubSeq(q, 1, m)
    BY DEF Prefix
  <1> HIDE DEF m
  <1>3. SubSeq(q, 1, m) \in Seq(S) /\ Len(SubSeq(q, 1, m)) = m /\ \A i \in 1 .. m : SubSeq(q, 1, m)[i] = q[i]
    BY <1>1, SubSeqProperties
  <1>4. QED BY <1>2, <1>3 DEF m

LEMMA ReversedParts ==
    ASSUME NEW S, NEW q \in Seq(S)
    PROVE  /\ Reversed(q) \in Seq(S) /\ Len(Reversed(q)) = Len(q)
           /\ \A i \in 1 .. Len(q) : Reversed(q)[i] = q[Len(q) + 1 - i]
  <1>1. DOMAIN q = 1 .. Len(q) /\ Len(q) \in Nat
    BY LenProperties
  <1>2. \A i \in 1 .. Len(q) : Len(q) + 1 - i \in 1 .. Len(q)
    BY <1>1
  <1>3. \A i \in 1 .. Len(q) : q[Len(q) + 1 - i] \in S
    BY <1>1, <1>2, ElementOfSeq
  <1>4. Reversed(q) = [i \in 1 .. Len(q) |-> q[Len(q) + 1 - i]]
    BY <1>1 DEF Reversed
  <1>5. QED BY <1>1, <1>3, <1>4

\* The rows of a page, as read.
Read(q) == Prefix(Prefix(q, query.limit + 1), query.limit)

LEMMA ReadParts ==
    ASSUME query.limit \in Nat \ {0}, NEW S, NEW q \in Seq(S)
    PROVE  /\ Read(q) \in Seq(S)
           /\ Len(Read(q)) = IF Len(q) < query.limit THEN Len(q) ELSE query.limit
           /\ \A i \in 1 .. Len(Read(q)) : Read(q)[i] = q[i]
           /\ Len(Prefix(q, query.limit + 1)) > query.limit <=> Len(q) > query.limit
  <1> DEFINE p == Prefix(q, query.limit + 1)
  <1>1. Len(q) \in Nat /\ query.limit + 1 \in Nat
    BY LenProperties
  <1>2. /\ p \in Seq(S) /\ Len(p) = IF Len(q) < query.limit + 1 THEN Len(q) ELSE query.limit + 1
        /\ \A i \in 1 .. Len(p) : p[i] = q[i]
    BY <1>1, PrefixParts
  <1> HIDE DEF p
  <1>3. /\ Prefix(p, query.limit) \in Seq(S)
        /\ Len(Prefix(p, query.limit)) = IF Len(p) < query.limit THEN Len(p) ELSE query.limit
        /\ \A i \in 1 .. Len(Prefix(p, query.limit)) : Prefix(p, query.limit)[i] = p[i]
    BY <1>2, PrefixParts
  <1>4. QED BY <1>1, <1>2, <1>3 DEF Read, p

\* A row is shown once in a list, or not at all.
Once(q, r) == \E i \in DOMAIN q : q[i] = r /\ \A j \in DOMAIN q : q[j] = r => j = i
Absent(q, r) == \A i \in DOMAIN q : q[i] # r

LEMMA OnceInBoth ==
    ASSUME NEW S, NEW p \in Seq(S), NEW q \in Seq(S), NEW r
    PROVE  /\ Absent(p, r) /\ Absent(q, r) => Absent(p \o q, r)
           /\ Once(p, r) /\ Absent(q, r) => Once(p \o q, r)
           /\ Absent(p, r) /\ Once(q, r) => Once(p \o q, r)
  <1>1. /\ DOMAIN p = 1 .. Len(p) /\ DOMAIN q = 1 .. Len(q) /\ Len(p) \in Nat /\ Len(q) \in Nat
        /\ DOMAIN (p \o q) = 1 .. Len(p) + Len(q)
        /\ \A i \in 1 .. Len(p) + Len(q) : (p \o q)[i] = IF i <= Len(p) THEN p[i] ELSE q[i - Len(p)]
    BY LenProperties, ConcatProperties
  <1> DEFINE w == p \o q
  <1> HIDE DEF w
  <1>2. DOMAIN w = 1 .. Len(p) + Len(q) /\ \A i \in 1 .. Len(p) + Len(q) : w[i] = IF i <= Len(p) THEN p[i] ELSE q[i - Len(p)]
    BY <1>1 DEF w
  <1>3. Absent(p, r) /\ Absent(q, r) => Absent(w, r)
    BY <1>1, <1>2 DEF Absent
  <1>4. ASSUME Once(p, r), Absent(q, r) PROVE Once(w, r)
    <2>1. PICK i \in 1 .. Len(p) : p[i] = r /\ \A j \in 1 .. Len(p) : p[j] = r => j = i
      BY <1>1, <1>4 DEF Once
    <2>2. i \in DOMAIN w /\ w[i] = r
      BY <1>1, <1>2, <2>1
    <2>3. \A j \in DOMAIN w : w[j] = r => j = i
      BY <1>1, <1>2, <1>4, <2>1 DEF Absent
    <2>4. QED BY <2>2, <2>3 DEF Once
  <1>5. ASSUME Absent(p, r), Once(q, r) PROVE Once(w, r)
    <2>1. PICK i \in 1 .. Len(q) : q[i] = r /\ \A j \in 1 .. Len(q) : q[j] = r => j = i
      BY <1>1, <1>5 DEF Once
    <2>2. i + Len(p) \in DOMAIN w /\ w[i + Len(p)] = r
      BY <1>1, <1>2, <2>1
    <2>3. ASSUME NEW j \in DOMAIN w, w[j] = r PROVE j = i + Len(p)
      <3>1. j \in Nat /\ j >= 1 /\ j <= Len(p) + Len(q)
        BY <1>1, <1>2
      <3>2. CASE j <= Len(p)
        BY <1>1, <1>2, <1>5, <2>3, <3>1, <3>2 DEF Absent
      <3>3. CASE j > Len(p)
        <4>1. j - Len(p) \in 1 .. Len(q) /\ q[j - Len(p)] = r
          BY <1>1, <1>2, <2>3, <3>1, <3>3
        <4>2. j - Len(p) = i
          BY <2>1, <4>1
        <4>3. QED BY <4>2, <3>1, <1>1
      <3>4. QED BY <3>1, <3>2, <3>3, <1>1
    <2>4. QED BY <2>2, <2>3 DEF Once
  <1>6. QED BY <1>3, <1>4, <1>5 DEF w

LEMMA OnceIsOne ==
    ASSUME NEW q, NEW r, Once(q, r)
    PROVE  Cardinality({i \in DOMAIN q : q[i] = r}) = 1
  <1>1. PICK i \in DOMAIN q : q[i] = r /\ \A j \in DOMAIN q : q[j] = r => j = i
    BY DEF Once
  <1>2. {j \in DOMAIN q : q[j] = r} = {i}
    BY <1>1
  <1>3. QED BY <1>2, FS_Singleton

-------------------------------------------------------------------------------
\* Of the clear rows that were to be read, the page shows those that its last
\* row's cursor is not before, once; without such a cursor, all of them.
LEMMA PageShows ==
    ASSUME stamp \in [Rows -> Stamps], query.limit \in Nat \ {0}, NEW o, CursorOrder(o),
           NEW S \in SUBSET Rows, IsFiniteSet(S), NEW q \in Ordered(S, o), NEW r
    PROVE  /\ r \notin S => Absent(Read(q), r)
           /\ r \in S /\ Clear(r, o) /\ Len(q) <= query.limit => Once(Read(q), r)
           /\ r \in S /\ Clear(r, o) /\ Len(q) > query.limit =>
                 LET s == Read(q)[Len(Read(q))] IN
                 /\ s \in S
                 /\ (Dated(o) => stamp[s] # NoDate) =>
                       /\ CursorQuery(r, Encode(s), o) => Absent(Read(q), r)
                       /\ ~CursorQuery(r, Encode(s), o) => Once(Read(q), r)
  <1> DEFINE d == Read(q)
             n == query.limit
  <1>1. /\ q \in Seq(S) /\ Len(q) \in Nat
        /\ \A i, j \in 1 .. Len(q) : i < j => q[i] # q[j] /\ ~Precedes(q[j], q[i], o)
        /\ \A s \in S : \E i \in 1 .. Len(q) : q[i] = s
    BY OrderedParts
  <1>2. /\ d \in Seq(S) /\ Len(d) = IF Len(q) < n THEN Len(q) ELSE n
        /\ \A i \in 1 .. Len(d) : d[i] = q[i]
    BY <1>1, ReadParts
  <1>3. DOMAIN d = 1 .. Len(d) /\ Len(d) \in Nat /\ \A i \in 1 .. Len(d) : d[i] \in S
    BY <1>2, LenProperties, ElementOfSeq
  <1> HIDE DEF d
  <1>9. Len(d) <= Len(q) /\ \A i \in 1 .. Len(d) : i \in 1 .. Len(q) /\ d[i] = q[i]
    <2>1. Len(d) <= Len(q)
      <3> HIDE DEF n
      <3>1. n \in Nat /\ Len(d) = IF Len(q) < n THEN Len(q) ELSE n
        BY <1>2 DEF n
      <3>2. QED BY <3>1, <1>1
    <2>2. \A i \in 1 .. Len(d) : i \in 1 .. Len(q)
      BY <2>1, <1>1, <1>3
    <2>3. QED BY <2>1, <2>2, <1>2
  <1>4. r \notin S => Absent(d, r)
    BY <1>3 DEF Absent
  <1>5. ASSUME NEW i \in 1 .. Len(q), q[i] = r
        PROVE  /\ i <= Len(d) => Once(d, r)
               /\ i > Len(d) => Absent(d, r)
    <2>1. \A j \in 1 .. Len(q) : q[j] = r => j = i
      BY <1>1, <1>5
    <2>2. ASSUME i <= Len(d) PROVE Once(d, r)
      <3>1. i \in DOMAIN d /\ d[i] = r
        BY <1>9, <1>3, <1>5, <2>2
      <3>2. \A j \in DOMAIN d : d[j] = r => j = i
        BY <1>9, <1>3, <2>1
      <3>3. QED BY <3>1, <3>2 DEF Once
    <2>3. ASSUME i > Len(d) PROVE Absent(d, r)
      BY <1>9, <1>3, <2>1, <2>3 DEF Absent
    <2>4. QED BY <2>2, <2>3
  <1>6. ASSUME r \in S, Len(q) <= n PROVE Once(d, r)
    <2>1. PICK i \in 1 .. Len(q) : q[i] = r
      BY <1>1, <1>6
    <2>2. i <= Len(d)
      BY <1>1, <1>2, <1>6
    <2>3. QED BY <1>5, <2>1, <2>2
  <1>7. ASSUME r \in S, Clear(r, o), Len(q) > n
        PROVE  LET s == d[Len(d)] IN
               /\ s \in S
               /\ (Dated(o) => stamp[s] # NoDate) =>
                     /\ CursorQuery(r, Encode(s), o) => Absent(d, r)
                     /\ ~CursorQuery(r, Encode(s), o) => Once(d, r)
    <2> DEFINE s == d[Len(d)]
    <2>7. n \in Nat /\ n >= 1 /\ n < Len(q)
      BY <1>1, <1>7
    <2>8. Len(d) = n
      BY <1>1, <1>2, <2>7
    <2>0. Len(d) = n /\ n \in 1 .. Len(q) /\ n \in 1 .. Len(d)
      BY <1>1, <2>7, <2>8
    <2>1. Len(d) = n /\ n \in 1 .. Len(q) /\ s = q[n]
      BY <2>0, <1>9
    <2>2. s \in S
      BY <1>3, <2>1
    <2>3. PICK i \in 1 .. Len(q) : q[i] = r
      BY <1>1, <1>7
    <2> HIDE DEF s
    <2>4. ASSUME Dated(o) => stamp[s] # NoDate, CursorQuery(r, Encode(s), o) PROVE Absent(d, r)
      <3>1. r # s
        BY <2>2, <2>4, NotBeyondItself
      <3>2. ~Precedes(r, s, o) /\ Precedes(s, r, o)
        BY <1>7, <2>2, <2>4, <3>1, CursorsAreExact
      <3>3. ~(i < n) /\ i # n
        BY <1>1, <2>1, <2>3, <3>1, <3>2
      <3>4. QED BY <1>1, <1>5, <2>1, <2>3, <3>3
    <2>5. ASSUME Dated(o) => stamp[s] # NoDate, ~CursorQuery(r, Encode(s), o) PROVE Once(d, r)
      <3>1. CASE r = s
        <4>1. i = n
          BY <1>1, <2>1, <2>3, <3>1
        <4>2. QED BY <1>5, <2>1, <2>3, <4>1
      <3>2. CASE r # s
        <4>1. Precedes(r, s, o)
          BY <1>7, <2>2, <2>5, <3>2, CursorsAreExact
        <4>2. ~(n < i)
          BY <1>1, <2>1, <2>3, <4>1
        <4>3. QED BY <1>1, <1>5, <2>1, <2>3, <4>2
      <3>3. QED BY <3>1, <3>2
    <2>6. QED BY <2>2, <2>4, <2>5 DEF s
  <1>8. QED BY <1>4, <1>6, <1>7 DEF d

-------------------------------------------------------------------------------
\* The shape of a list and of the walk through it.
Cursors == {NoCursor} \cup {Encode(s) : s \in Rows}
WalkShape ==
    walk \in [phase : {"start", "page", "count", "failed"}, data : Seq(Rows), after : Cursors, before : Cursors,
              number : Nat, total : Int, fresh : BOOLEAN, way : {"none", "next", "previous"}, left : Seq(Rows),
              turned : BOOLEAN]

ListShape ==
    /\ query.by \in {"cursor", "offset"} /\ query.limit \in Nat \ {0}
    /\ query.by = "cursor" => CursorOrder(query.order)
    /\ stamp \in [Rows -> Stamps] /\ table \subseteq Rows /\ IsFiniteSet(table) /\ stayed \subseteq table
    /\ changes \in Nat /\ seen \in Seq(Rows) /\ match \in BOOLEAN
    /\ WalkShape

NoList == query.by = "none" /\ walk = NoWalk /\ changes = MaxChanges /\ match = TRUE

Typed ==
    \/ route = "list" /\ ListShape
    \/ route = "form" /\ NoList

LEMMA EncodedParts ==
    /\ NoCursor.there = FALSE
    /\ \A s : Encode(s).there = TRUE /\ Encode(s).at = stamp[s].ms /\ Encode(s).id = s
  BY DEF NoCursor, Encode

\* What a page is, and where it leads.
Turned(q, after, before) == IF ~after.there /\ before.there THEN Reversed(Read(q)) ELSE Read(q)
Forth(q, before, d) == IF d # <<>> /\ (before.there \/ Len(q) > query.limit) THEN Encode(d[Len(d)]) ELSE NoCursor
Back(q, after, before, d) ==
    IF d # <<>> /\ (after.there \/ (Len(q) > query.limit /\ before.there)) THEN Encode(d[1]) ELSE NoCursor

\* What a page or an error leaves as it was.
PageOrError(w) ==
    w \in [phase : {"page", "failed"}, data : Seq(Rows), after : Cursors, before : Cursors,
           number : {walk.number}, total : {walk.total}, fresh : {walk.fresh}, way : {walk.way},
           left : {walk.left}, turned : {walk.turned}]

LEMMA PageParts ==
    ASSUME query.limit \in Nat \ {0}, WalkShape, NEW S \in SUBSET Rows, NEW q \in Seq(S),
           NEW after, NEW before, NEW w, w = Page(Prefix(q, query.limit + 1), after, before)
    PROVE  /\ PageOrError(w)
           /\ w.phase = "page" /\ w.data = Turned(q, after, before) /\ w.data \in Seq(S)
           /\ w.after = Forth(q, before, w.data)
           /\ w.before = Back(q, after, before, w.data)
           /\ w.number = walk.number /\ w.total = walk.total /\ w.turned = walk.turned
           /\ w.after \in Cursors /\ w.before \in Cursors
  <1> DEFINE d == Turned(q, after, before)
             a == Forth(q, before, d)
             b == Back(q, after, before, d)
  <1>1. Read(q) \in Seq(S) /\ (Len(Prefix(q, query.limit + 1)) > query.limit <=> Len(q) > query.limit)
    BY ReadParts
  <1>2. d \in Seq(S)
    BY <1>1, ReversedParts DEF Turned
  <1>3. w = [walk EXCEPT !.phase = "page", !.data = d, !.after = a, !.before = b]
    BY <1>1 DEF Page, Read, Turned, Forth, Back
  <1>4. a \in Cursors /\ b \in Cursors
    <2>1. d # <<>> => d[1] \in Rows /\ d[Len(d)] \in Rows
      <3> HIDE DEF d
      <3>1. QED BY <1>2, EmptySeq, LenProperties, ElementOfSeq
    <2> HIDE DEF d
    <2>2. QED BY <2>1 DEF Cursors, Forth, Back
  <1>5. /\ w.phase = "page" /\ w.data = d /\ w.after = a /\ w.before = b
        /\ w.number = walk.number /\ w.total = walk.total /\ w.turned = walk.turned
    <2> HIDE DEF d, a, b
    <2>1. QED BY <1>3 DEF WalkShape
  <1>6. PageOrError(w)
    <2>1. d \in Seq(Rows)
      BY <1>2, SeqMonotonic
    <2> HIDE DEF d, a, b
    <2>2. QED BY <1>3, <1>4, <2>1 DEF WalkShape, PageOrError
  <1>7. QED BY <1>2, <1>4, <1>5, <1>6

LEMMA TypedAtInit == Init => Typed
  <1> SUFFICES ASSUME Init PROVE Typed
    OBVIOUS
  <1>1. CASE route = "list" /\ PagesInit
    <2>0. query \in Queries
      BY <1>1 DEF PagesInit
    <2>7. query.limit \in Limits /\ query.by \in {"cursor", "offset"}
      BY <2>0 DEF Queries
    <2>1. query \in Queries /\ query.limit \in Nat \ {0} /\ query.by \in {"cursor", "offset"}
      BY <2>0, <2>7, PagesAssumption
    <2>2. query.by = "cursor" => CursorOrder(query.order)
      BY <2>1, QueryOrder
    <2>3. stamp \in [Rows -> Stamps] /\ table \subseteq Rows /\ IsFiniteSet(table) /\ stayed = table
      BY <1>1, PagesAssumption DEF PagesInit
    <2>4. changes = 0 /\ seen = <<>> /\ match = TRUE
      BY <1>1 DEF PagesInit
    <2>5. WalkShape
      BY <1>1 DEF PagesInit, WalkShape, Cursors
    <2>6. QED BY <1>1, <2>1, <2>2, <2>3, <2>4, <2>5 DEF Typed, ListShape
  <1>2. CASE route = "form"
    BY <1>2 DEF Init, Typed, NoList
  <1>3. QED BY <1>1, <1>2 DEF Init

\* The three uses of paginate.
After(c) == {r \in table : CursorQuery(r, c, query.order)}
Before(c) == {r \in table : CursorQuery(r, c, Flip(query.order))}

LEMMA FirstPage ==
    ASSUME NEW w \in Paginate(NoCursor, NoCursor)
    PROVE  \E q \in Ordered(table, query.order) : w = Page(Prefix(q, query.limit + 1), NoCursor, NoCursor)
  BY EncodedParts DEF Paginate

LEMMA PageAfter ==
    ASSUME NEW c, c.there = TRUE, NEW w \in Paginate(c, NoCursor)
    PROVE  \/ w = [walk EXCEPT !.phase = "failed"]
           \/ /\ Decodes(c, query.order)
              /\ \E q \in Ordered(After(c), query.order) : w = Page(Prefix(q, query.limit + 1), c, NoCursor)
  BY EncodedParts DEF Paginate, After

LEMMA PageBefore ==
    ASSUME NEW c, c.there = TRUE, NEW w \in Paginate(NoCursor, c)
    PROVE  \/ w = [walk EXCEPT !.phase = "failed"]
           \/ /\ Decodes(c, Flip(query.order))
              /\ \E q \in Ordered(Before(c), Flip(query.order)) : w = Page(Prefix(q, query.limit + 1), NoCursor, c)
  BY EncodedParts DEF Paginate, Before

LEMMA SomeRows ==
    ASSUME ListShape, NEW S \in SUBSET table
    PROVE  IsFiniteSet(S) /\ S \subseteq Rows
  BY FS_Subset DEF ListShape

LEMMA PageShape ==
    ASSUME ListShape, NEW S \in SUBSET table, NEW o, NEW q \in Ordered(S, o), NEW after, NEW before,
           NEW w, w = Page(Prefix(q, query.limit + 1), after, before)
    PROVE  PageOrError(w) /\ w.phase = "page"
  <1>1. q \in Seq(S) /\ S \in SUBSET Rows
    BY SomeRows, OrderedParts
  <1>2. WalkShape /\ query.limit \in Nat \ {0}
    BY DEF ListShape
  <1>3. QED BY <1>1, <1>2, PageParts

LEMMA MovedShape ==
    ASSUME ListShape, query.by = "cursor", NEW c \in Cursors, c.there = TRUE, NEW w,
           w \in Paginate(c, NoCursor) \/ w \in Paginate(NoCursor, c)
    PROVE  PageOrError(w)
  <1>1. CASE w = [walk EXCEPT !.phase = "failed"]
    BY <1>1 DEF ListShape, WalkShape, PageOrError
  <1>2. After(c) \subseteq table /\ Before(c) \subseteq table
    BY DEF After, Before
  <1>3. CASE \E q \in Ordered(After(c), query.order) : w = Page(Prefix(q, query.limit + 1), c, NoCursor)
    BY <1>2, <1>3, PageShape
  <1>4. CASE \E q \in Ordered(Before(c), Flip(query.order)) : w = Page(Prefix(q, query.limit + 1), NoCursor, c)
    BY <1>2, <1>4, PageShape
  <1>5. QED BY <1>1, <1>3, <1>4, PageAfter, PageBefore

LEMMA FirstKeepsShape ==
    ASSUME ListShape, First
    PROVE  ListShape'
  <1>1. PICK q \in Ordered(table, query.order) : walk' = Page(Prefix(q, query.limit + 1), NoCursor, NoCursor)
    BY FirstPage DEF First
  <1>2. PageOrError(walk')
    BY <1>1, PageShape
  <1>3. UNCHANGED <<query, stamp, table, changes, stayed, match>> /\ seen' = walk'.data
    BY DEF First
  <1>4. Cursors' = Cursors
    BY <1>3 DEF Cursors, Encode
  <1>5. WalkShape'
    BY <1>2, <1>4 DEF ListShape, WalkShape, PageOrError
  <1>7. seen' \in Seq(Rows)
    BY <1>2, <1>3 DEF PageOrError
  <1>6. QED BY <1>3, <1>5, <1>7 DEF ListShape

LEMMA MoveKeepsShape ==
    ASSUME ListShape, NEW c \in Cursors, c.there = TRUE, NEW way \in {"next", "previous"}, NEW pages,
           pages = Paginate(c, NoCursor) \/ pages = Paginate(NoCursor, c), Move(way, pages)
    PROVE  ListShape'
  <1>1. PICK w \in pages :
           /\ walk' = [w EXCEPT !.way = IF walk.fresh THEN way ELSE "none", !.fresh = TRUE, !.left = walk.data,
                                !.turned = walk.turned \/ way = "previous"]
           /\ seen' = IF walk'.turned \/ w.phase = "failed" THEN seen ELSE seen \o w.data
           /\ match' = (w.phase = "page" /\ walk.way \notin {"none", way} => w.data = walk.left)
    BY DEF Move
  <1>2. query.by = "cursor" /\ UNCHANGED <<query, stamp, table, changes, stayed>>
    BY DEF Move
  <1>3. PageOrError(w)
    BY <1>1, <1>2, MovedShape
  <1>4. Cursors' = Cursors
    BY <1>2 DEF Cursors, Encode
  <1>5. walk.data \in Seq(Rows) /\ walk.turned \in BOOLEAN /\ walk.fresh \in BOOLEAN /\ walk.number \in Nat /\ walk.total \in Int
    BY DEF ListShape, WalkShape
  <1>6. WalkShape'
    BY <1>1, <1>3, <1>4, <1>5 DEF WalkShape, PageOrError
  <1>7. seen' \in Seq(Rows)
    <2>1. w.data \in Seq(Rows) /\ seen \in Seq(Rows)
      BY <1>3 DEF PageOrError, ListShape
    <2>2. seen \o w.data \in Seq(Rows)
      BY <2>1, ConcatProperties
    <2>3. QED BY <1>1, <2>1, <2>2
  <1>8. match' \in BOOLEAN
    BY <1>1
  <1>9. QED BY <1>2, <1>6, <1>7, <1>8 DEF ListShape

\* The rows a request with an offset is answered.
Upper(q, n) == IF n + query.limit < Len(q) THEN n + query.limit ELSE Len(q)

LEMMA OffsetParts ==
    ASSUME query.limit \in Nat \ {0}, NEW S, NEW q \in Seq(S), NEW n \in Nat
    PROVE  /\ SubSeq(q, n + 1, Upper(q, n)) \in Seq(S)
           /\ Len(SubSeq(q, n + 1, Upper(q, n))) = IF n < Len(q) THEN Upper(q, n) - n ELSE 0
           /\ \A i \in 1 .. Len(SubSeq(q, n + 1, Upper(q, n))) : SubSeq(q, n + 1, Upper(q, n))[i] = q[n + i]
  <1>1. Len(q) \in Nat /\ \A i \in 1 .. Len(q) : q[i] \in S
    BY LenProperties, ElementOfSeq
  <1>2. Upper(q, n) \in Nat /\ Upper(q, n) <= Len(q) /\ (n < Len(q) => n < Upper(q, n))
    BY <1>1 DEF Upper
  <1> DEFINE u == Upper(q, n)
  <1> HIDE DEF u
  <1>3. u \in Nat /\ u <= Len(q) /\ (n < Len(q) => n < u)
    BY <1>2 DEF u
  <1>4. \A i \in n + 1 .. u : q[i] \in S
    BY <1>1, <1>3
  <1>5. /\ SubSeq(q, n + 1, u) \in Seq(S)
        /\ Len(SubSeq(q, n + 1, u)) = IF n + 1 <= u THEN u - (n + 1) + 1 ELSE 0
        /\ \A i \in 1 .. u - (n + 1) + 1 : SubSeq(q, n + 1, u)[i] = q[(n + 1) + i - 1]
    BY <1>3, <1>4, SubSeqProperties
  <1> DEFINE p == SubSeq(q, n + 1, u)
  <1> HIDE DEF p
  <1>6. /\ p \in Seq(S) /\ Len(p) = IF n < Len(q) THEN u - n ELSE 0
        /\ \A i \in 1 .. Len(p) : p[i] = q[n + i]
    BY <1>1, <1>3, <1>5 DEF p
  <1>7. QED BY <1>6 DEF p, u

LEMMA OffsetRowsKeepsShape ==
    ASSUME ListShape, OffsetRows
    PROVE  ListShape'
  <1> DEFINE n == walk.number * query.limit
  <1>1. /\ walk.number \in Nat /\ query.limit \in Nat \ {0} /\ table \subseteq Rows /\ IsFiniteSet(table)
        /\ seen \in Seq(Rows)
    BY DEF ListShape, WalkShape
  <1>2. n \in Nat
    BY <1>1
  <1>3. PICK q \in Ordered(table, query.order) :
          /\ walk' = [walk EXCEPT !.phase = "count", !.number = @ + 1, !.data = SubSeq(q, n + 1, Upper(q, n))]
          /\ seen' = seen \o SubSeq(q, n + 1, Upper(q, n))
    BY DEF OffsetRows, Upper
  <1> DEFINE d == SubSeq(q, n + 1, Upper(q, n))
  <1>4. q \in Seq(Rows)
    BY <1>1, OrderedParts, SeqMonotonic
  <1> HIDE DEF n
  <1>5. d \in Seq(Rows)
    BY <1>1, <1>2, <1>4, OffsetParts
  <1> HIDE DEF d
  <1>6. UNCHANGED <<query, stamp, table, changes, stayed, match>>
    BY DEF OffsetRows
  <1>7. Cursors' = Cursors
    BY <1>6 DEF Cursors, Encode
  <1>8. walk' = [walk EXCEPT !.phase = "count", !.number = @ + 1, !.data = d] /\ seen' = seen \o d
    BY <1>3 DEF d
  <1> DEFINE m == walk.number + 1
  <1>12. m \in Nat /\ walk' = [walk EXCEPT !.phase = "count", !.number = m, !.data = d]
    BY <1>1, <1>8 DEF ListShape, WalkShape
  <1> HIDE DEF m
  <1>9. WalkShape'
    BY <1>5, <1>7, <1>12 DEF ListShape, WalkShape
  <1>10. seen' \in Seq(Rows)
    BY <1>1, <1>5, <1>8, ConcatProperties
  <1>11. QED BY <1>6, <1>9, <1>10 DEF ListShape

LEMMA OffsetCountKeepsShape ==
    ASSUME ListShape, OffsetCount
    PROVE  ListShape'
  <1>1. UNCHANGED <<query, stamp, table, changes, seen, stayed, match>>
    BY DEF OffsetCount
  <1>2. Cardinality(table) \in Nat /\ query.limit \in Nat \ {0}
    BY FS_CardinalityType DEF ListShape
  <1>3. TotalPages(Cardinality(table)) \in Int
    BY <1>2 DEF TotalPages
  <1>4. Cursors' = Cursors
    BY <1>1 DEF Cursors, Encode
  <1> DEFINE t == TotalPages(Cardinality(table))
  <1> HIDE DEF t
  <1>5. walk' = [walk EXCEPT !.phase = "page", !.total = t] /\ t \in Int
    BY <1>3 DEF OffsetCount, t
  <1>6. WalkShape'
    BY <1>4, <1>5 DEF ListShape, WalkShape
  <1>7. QED BY <1>1, <1>6 DEF ListShape

LEMMA ChangeKeepsShape ==
    ASSUME ListShape, Change
    PROVE  ListShape'
  <1>1. UNCHANGED <<query, stamp, seen, match>> /\ changes' = changes + 1
        /\ walk' = [walk EXCEPT !.way = "none", !.fresh = FALSE]
    BY DEF Change
  <1>2. PICK r \in Rows :
          /\ table' = IF r \in table THEN table \ {r} ELSE table \cup {r}
          /\ stayed' = stayed \ {r}
    BY DEF Change
  <1>3. IsFiniteSet(table')
    BY <1>2, FS_AddElement, FS_RemoveElement DEF ListShape
  <1>4. table' \subseteq Rows /\ stayed' \subseteq table'
    BY <1>2 DEF ListShape
  <1>5. Cursors' = Cursors
    BY <1>1 DEF Cursors, Encode
  <1>6. WalkShape'
    BY <1>1, <1>5 DEF ListShape, WalkShape
  <1>7. QED BY <1>1, <1>3, <1>4, <1>6 DEF ListShape

LEMMA NextPageIsMove ==
    ASSUME ListShape, NextPage
    PROVE  walk.after \in Cursors /\ walk.after.there = TRUE /\ Move("next", Paginate(walk.after, NoCursor))
  BY EncodedParts DEF ListShape, WalkShape, NextPage, Cursors

LEMMA PreviousPageIsMove ==
    ASSUME ListShape, PreviousPage
    PROVE  walk.before \in Cursors /\ walk.before.there = TRUE /\ Move("previous", Paginate(NoCursor, walk.before))
  BY EncodedParts DEF ListShape, WalkShape, PreviousPage, Cursors

\* A form lists nothing.
LEMMA FormsListNothing ==
    ASSUME NoList
    PROVE  ~First /\ ~NextPage /\ ~PreviousPage /\ ~OffsetRows /\ ~OffsetCount /\ ~Change
  <1>1. walk.phase = "none" /\ walk.after.there = FALSE /\ walk.before.there = FALSE
    BY EncodedParts DEF NoList, NoWalk
  <1>2. ~(changes < MaxChanges)
    BY PagesAssumption DEF NoList
  <1>3. QED BY <1>1, <1>2 DEF NoList, First, NextPage, PreviousPage, OffsetRows, OffsetCount, Change

\* A step lists or posts.
Lists == First \/ NextPage \/ PreviousPage \/ OffsetRows \/ OffsetCount \/ Change

LEMMA StepsListOrPost ==
    ASSUME [Next]_<<route, form, vars>>
    PROVE  route' = route /\ (Lists \/ UNCHANGED vars)
  BY DEF Next, Listing, Posting, Lists, vars

LEMMA ListsKeepShape ==
    ASSUME ListShape, Lists
    PROVE  ListShape'
  <1>1. CASE NextPage
    BY <1>1, NextPageIsMove, MoveKeepsShape
  <1>2. CASE PreviousPage
    BY <1>2, PreviousPageIsMove, MoveKeepsShape
  <1>3. QED BY <1>1, <1>2, FirstKeepsShape, OffsetRowsKeepsShape, OffsetCountKeepsShape, ChangeKeepsShape DEF Lists

LEMMA TypedStep == Typed /\ [Next]_<<route, form, vars>> => Typed'
  <1> SUFFICES ASSUME Typed, [Next]_<<route, form, vars>> PROVE Typed'
    OBVIOUS
  <1>1. route' = route /\ (Lists \/ UNCHANGED vars)
    BY StepsListOrPost
  <1>2. CASE UNCHANGED vars
    BY <1>1, <1>2 DEF vars, Typed, ListShape, NoList, WalkShape, Cursors, Encode
  <1>3. CASE Lists
    <2>1. ListShape /\ route = "list"
      BY <1>3, FormsListNothing DEF Typed, Lists
    <2>2. QED BY <1>1, <1>3, <2>1, ListsKeepShape DEF Typed
  <1>4. QED BY <1>1, <1>2, <1>3

-------------------------------------------------------------------------------
\* While a client goes forward, the clear rows that stayed have been shown
\* once if its cursor is not before them, and never if it is.
ShownUpTo(c, q, r) ==
    IF c.there
    THEN Decodes(c, query.order) =>
            /\ CursorQuery(r, c, query.order) => Absent(q, r)
            /\ ~CursorQuery(r, c, query.order) => Once(q, r)
    ELSE Once(q, r)

CursorWalk ==
    query.by = "cursor" =>
        /\ walk.phase # "count"
        /\ walk.phase = "page" /\ ~walk.turned =>
              \A r \in stayed : Clear(r, query.order) => ShownUpTo(walk.after, seen, r)

LEMMA DecodedRow ==
    ASSUME stamp \in [Rows -> Stamps], NEW o, CursorOrder(o), NEW s \in Rows
    PROVE  Decodes(Encode(s), o) <=> (Dated(o) => stamp[s] # NoDate)
  <1>1. DOMAIN o = 1 .. Len(o) /\ Len(o) \in {1, 2}
    BY DEF CursorOrder
  <1>2. stamp[s] \in Stamps
    OBVIOUS
  <1>3. stamp[s].ms = NoDate.ms <=> stamp[s] = NoDate
    BY <1>2, PagesAssumption
  <1>4. QED BY <1>1, <1>3, EncodedParts DEF Decodes, Dated

LEMMA CursorRow ==
    ASSUME NEW c \in Cursors, c.there = TRUE
    PROVE  \E t \in Rows : c = Encode(t)
  BY EncodedParts DEF Cursors

LEMMA SameStamps ==
    ASSUME UNCHANGED <<query, stamp>>
    PROVE  /\ \A r, c, o : CursorQuery(r, c, o)' <=> CursorQuery(r, c, o)
           /\ \A r, o : Clear(r, o)' <=> Clear(r, o)
           /\ \A r, c, q : ShownUpTo(c, q, r)' <=> ShownUpTo(c, q, r)
  <1>1. \A r, c, o : CursorQuery(r, c, o)' <=> CursorQuery(r, c, o)
    BY DEF CursorQuery, Beyond, Level
  <1>2. \A r, o : Clear(r, o)' <=> Clear(r, o)
    BY DEF Clear
  <1>3. \A r, c, q : ShownUpTo(c, q, r)' <=> ShownUpTo(c, q, r)
    BY <1>1 DEF ShownUpTo
  <1>4. QED BY <1>1, <1>2, <1>3

\* A page of the rows S, shown after the rows q.
LEMMA ForwardPage ==
    ASSUME ListShape, query.by = "cursor", NEW S \in SUBSET table, NEW q \in Ordered(S, query.order),
           NEW c, NEW w, w = Page(Prefix(q, query.limit + 1), c, NoCursor)
    PROVE  /\ w.data = Read(q) /\ w.phase = "page" /\ w.turned = walk.turned
           /\ \A r \in S : Clear(r, query.order) => ShownUpTo(w.after, w.data, r)
           /\ \A r : r \notin S => Absent(w.data, r)
           /\ w.after.there => \E s \in S : w.after = Encode(s)
  <1>1. q \in Seq(S) /\ S \in SUBSET Rows /\ IsFiniteSet(S) /\ Len(q) \in Nat
    BY SomeRows, OrderedParts
  <1>2. WalkShape /\ query.limit \in Nat \ {0} /\ CursorOrder(query.order) /\ stamp \in [Rows -> Stamps]
    BY DEF ListShape
  <1>3. /\ w.phase = "page" /\ w.data = Turned(q, c, NoCursor) /\ w.turned = walk.turned
        /\ w.after = Forth(q, NoCursor, w.data)
    BY <1>1, <1>2, PageParts
  <1>4. w.data = Read(q)
    BY <1>3, EncodedParts DEF Turned
  <1> DEFINE d == Read(q)
  <1>5. Len(q) > query.limit => d # <<>>
    <2>1. Len(q) > query.limit => Len(d) = query.limit
      BY <1>1, <1>2, ReadParts
    <2>2. QED BY <2>1, <1>2, EmptySeq
  <1>6. w.after = IF Len(q) > query.limit THEN Encode(d[Len(d)]) ELSE NoCursor
    BY <1>3, <1>4, <1>5, EncodedParts DEF Forth
  <1>7. \A r : r \notin S => Absent(d, r)
    BY <1>1, <1>2, PageShows
  <1>8. ASSUME NEW r \in S, Clear(r, query.order) PROVE ShownUpTo(w.after, d, r)
    <2>1. CASE Len(q) <= query.limit
      <3>1. Once(d, r)
        BY <1>1, <1>2, <1>8, <2>1, PageShows
      <3>2. w.after = NoCursor
        BY <1>1, <1>2, <1>6, <2>1
      <3>3. QED BY <3>1, <3>2, EncodedParts DEF ShownUpTo
    <2>2. CASE Len(q) > query.limit
      <3> DEFINE s == d[Len(d)]
      <3>1. /\ s \in S
            /\ (Dated(query.order) => stamp[s] # NoDate) =>
                  /\ CursorQuery(r, Encode(s), query.order) => Absent(d, r)
                  /\ ~CursorQuery(r, Encode(s), query.order) => Once(d, r)
        BY <1>1, <1>2, <1>8, <2>2, PageShows
      <3>2. w.after = Encode(s)
        BY <1>6, <2>2
      <3> HIDE DEF s, d
      <3>3. QED BY <1>1, <1>2, <3>1, <3>2, DecodedRow, EncodedParts DEF ShownUpTo
    <2>3. QED BY <1>1, <1>2, <2>1, <2>2
  <1>9. ASSUME w.after.there PROVE \E s \in S : w.after = Encode(s)
    <2>1. Len(q) > query.limit
      BY <1>6, <1>9, EncodedParts
    <2>2. d[Len(d)] \in S
      <3>1. d \in Seq(S) /\ Len(d) = query.limit
        BY <1>1, <1>2, <2>1, ReadParts
      <3> HIDE DEF d
      <3>2. QED BY <3>1, <1>2, ElementOfSeq
    <2>3. QED BY <1>6, <2>1, <2>2
  <1>10. QED BY <1>3, <1>4, <1>7, <1>8, <1>9

LEMMA FirstKeepsWalk ==
    ASSUME ListShape, CursorWalk, First
    PROVE  CursorWalk'
  <1>1. UNCHANGED <<query, stamp, table, stayed>> /\ seen' = walk'.data /\ query.by = "cursor"
    BY DEF First
  <1>2. PICK q \in Ordered(table, query.order) : walk' = Page(Prefix(q, query.limit + 1), NoCursor, NoCursor)
    BY FirstPage DEF First
  <1>3. walk'.phase = "page" /\ \A r \in table : Clear(r, query.order) => ShownUpTo(walk'.after, walk'.data, r)
    BY <1>1, <1>2, ForwardPage
  <1>4. \A r \in stayed' : Clear(r, query.order)' => ShownUpTo(walk.after, seen, r)'
    <2>1. stayed' \subseteq table
      BY <1>1 DEF ListShape
    <2>2. \A r, c, q1 : ShownUpTo(c, q1, r)' <=> ShownUpTo(c, q1, r)
      BY <1>1, SameStamps
    <2>3. QED BY <1>1, <1>3, <2>1, SameStamps DEF ShownUpTo
  <1>5. QED BY <1>3, <1>4 DEF CursorWalk

LEMMA NextKeepsWalk ==
    ASSUME ListShape, CursorWalk, NextPage
    PROVE  CursorWalk'
  <1> DEFINE c == walk.after
             o == query.order
  <1>1. /\ c \in Cursors /\ c.there = TRUE /\ Move("next", Paginate(c, NoCursor))
        /\ walk.phase = "page" /\ query.by = "cursor"
    BY NextPageIsMove DEF Move
  <1>2. UNCHANGED <<query, stamp, table, stayed>>
    BY <1>1 DEF Move
  <1>3. PICK w \in Paginate(c, NoCursor) :
           /\ walk' = [w EXCEPT !.way = IF walk.fresh THEN "next" ELSE "none", !.fresh = TRUE, !.left = walk.data,
                                !.turned = walk.turned \/ "next" = "previous"]
           /\ seen' = IF walk'.turned \/ w.phase = "failed" THEN seen ELSE seen \o w.data
    BY <1>1 DEF Move
  <1>4. PageOrError(w)
    BY <1>1, <1>3, MovedShape
  <1>5. walk'.phase = w.phase /\ walk'.after = w.after /\ walk'.turned = walk.turned
    BY <1>3, <1>4 DEF PageOrError, ListShape, WalkShape
  <1>6. ASSUME walk'.phase = "page", ~walk'.turned, NEW r \in stayed, Clear(r, o)
        PROVE  ShownUpTo(walk'.after, seen', r)
    <2>1. Decodes(c, o) /\ \E q \in Ordered(After(c), o) : w = Page(Prefix(q, query.limit + 1), c, NoCursor)
      <3>1. w # [walk EXCEPT !.phase = "failed"]
        BY <1>5, <1>6 DEF ListShape, WalkShape
      <3>2. QED BY <1>1, <1>3, <3>1, PageAfter
    <2>2. After(c) \in SUBSET table
      BY DEF After
    <2>3. /\ \A s \in After(c) : Clear(s, o) => ShownUpTo(w.after, w.data, s)
          /\ \A s : s \notin After(c) => Absent(w.data, s)
          /\ w.after.there => \E s \in After(c) : w.after = Encode(s)
      BY <1>1, <2>1, <2>2, ForwardPage
    <2>4. seen' = seen \o w.data /\ seen \in Seq(Rows) /\ w.data \in Seq(Rows)
      BY <1>3, <1>4, <1>5, <1>6 DEF PageOrError, ListShape
    <2>5. ShownUpTo(c, seen, r)
      BY <1>1, <1>5, <1>6 DEF CursorWalk
    <2>6. r \in table
      BY DEF ListShape
    <2>7. CASE CursorQuery(r, c, o)
      <3>1. r \in After(c) /\ ShownUpTo(w.after, w.data, r)
        BY <1>6, <2>3, <2>6, <2>7 DEF After
      <3>2. Absent(seen, r)
        BY <1>1, <2>1, <2>5, <2>7 DEF ShownUpTo
      <3>3. QED BY <1>5, <2>4, <3>1, <3>2, OnceInBoth DEF ShownUpTo
    <2>8. CASE ~CursorQuery(r, c, o)
      <3>1. Absent(w.data, r)
        BY <2>3, <2>8 DEF After
      <3>2. Once(seen, r)
        BY <1>1, <2>1, <2>5, <2>8 DEF ShownUpTo
      <3>3. Once(seen', r)
        BY <2>4, <3>1, <3>2, OnceInBoth
      <3>4. ASSUME w.after.there PROVE ~CursorQuery(r, w.after, o)
        <4>1. PICK s \in table : w.after = Encode(s) /\ CursorQuery(s, c, o)
          BY <2>3, <3>4 DEF After
        <4>2. PICK t \in Rows : c = Encode(t)
          BY <1>1, CursorRow
        <4>3. r \in Rows /\ s \in Rows /\ stamp \in [Rows -> Stamps] /\ CursorOrder(o)
          BY <1>1, <2>6 DEF ListShape
        <4>4. QED BY <2>8, <4>1, <4>2, <4>3, BeyondIsTransitive
      <3>5. QED BY <1>5, <3>3, <3>4 DEF ShownUpTo
    <2>9. QED BY <2>7, <2>8
  <1>7. CursorWalk'
    <2>1. walk'.phase # "count"
      BY <1>4, <1>5 DEF PageOrError
    <2>2. ASSUME walk'.phase = "page", ~walk'.turned, NEW r \in stayed', Clear(r, query.order)'
          PROVE  ShownUpTo(walk.after, seen, r)'
      <3>1. r \in stayed /\ Clear(r, o)
        BY <1>2, <2>2, SameStamps
      <3>2. ShownUpTo(walk'.after, seen', r)
        BY <1>6, <2>2, <3>1
      <3>3. QED BY <1>2, <3>2, SameStamps DEF ShownUpTo
    <2>3. QED BY <2>1, <2>2 DEF CursorWalk
  <1>8. QED BY <1>7

LEMMA PreviousKeepsWalk ==
    ASSUME ListShape, CursorWalk, PreviousPage
    PROVE  CursorWalk'
  <1> DEFINE c == walk.before
  <1>1. /\ c \in Cursors /\ c.there = TRUE /\ Move("previous", Paginate(NoCursor, c)) /\ query.by = "cursor"
    BY PreviousPageIsMove DEF Move
  <1>2. PICK w \in Paginate(NoCursor, c) :
           walk' = [w EXCEPT !.way = IF walk.fresh THEN "previous" ELSE "none", !.fresh = TRUE, !.left = walk.data,
                             !.turned = walk.turned \/ "previous" = "previous"]
    BY <1>1 DEF Move
  <1>3. PageOrError(w)
    BY <1>1, <1>2, MovedShape
  <1>4. walk'.turned = TRUE /\ walk'.phase # "count"
    BY <1>2, <1>3 DEF PageOrError
  <1>5. QED BY <1>4 DEF CursorWalk

LEMMA ChangeKeepsWalk ==
    ASSUME ListShape, CursorWalk, Change
    PROVE  CursorWalk'
  <1>1. UNCHANGED <<query, stamp, seen>> /\ stayed' \subseteq stayed
    BY DEF Change
  <1>2. walk'.phase = walk.phase /\ walk'.turned = walk.turned /\ walk'.after = walk.after
    BY DEF Change, ListShape, WalkShape
  <1>3. QED BY <1>1, <1>2, SameStamps DEF CursorWalk, ShownUpTo

LEMMA ListsKeepWalk ==
    ASSUME ListShape, CursorWalk, Lists
    PROVE  CursorWalk'
  <1>1. CASE OffsetRows
    BY <1>1 DEF OffsetRows, CursorWalk
  <1>2. CASE OffsetCount
    <2>1. query' = query /\ walk.phase = "count"
      BY <1>2 DEF OffsetCount
    <2>2. QED BY <2>1 DEF CursorWalk
  <1>3. QED BY <1>1, <1>2, FirstKeepsWalk, NextKeepsWalk, PreviousKeepsWalk, ChangeKeepsWalk DEF Lists

-------------------------------------------------------------------------------
\* Where an order leaves no ties, the place of a row is decided by the rows
\* before it, and any answer of the database is the same.
Total(S, o) == \A r, s \in S : r # s => Precedes(r, s, o) \/ Precedes(s, r, o)
Ahead(S, r, o) == {s \in S : Precedes(s, r, o)}

LEMMA PlaceOfRow ==
    ASSUME stamp \in [Rows -> Stamps], NEW S \in SUBSET Rows, IsFiniteSet(S), NEW o, Total(S, o),
           NEW q \in Ordered(S, o), NEW i \in 1 .. Len(q)
    PROVE  Cardinality(Ahead(S, q[i], o)) = i - 1
  <1>1. /\ q \in Seq(S) /\ Len(q) \in Nat
        /\ \A j, k \in 1 .. Len(q) : j < k => q[j] # q[k] /\ ~Precedes(q[k], q[j], o)
        /\ \A s \in S : \E j \in 1 .. Len(q) : q[j] = s
    BY OrderedParts
  <1>2. \A j \in 1 .. Len(q) : q[j] \in S
    BY <1>1, ElementOfSeq
  <1> DEFINE f == [j \in 1 .. i - 1 |-> q[j]]
             A == Ahead(S, q[i], o)
  <1>3. \A j \in 1 .. i - 1 : q[j] \in A
    <2> SUFFICES ASSUME NEW j \in 1 .. i - 1 PROVE q[j] \in A
      OBVIOUS
    <2>1. j \in 1 .. Len(q) /\ j < i
      BY <1>1
    <2>2. q[j] # q[i] /\ ~Precedes(q[i], q[j], o) /\ q[j] \in S /\ q[i] \in S
      BY <1>1, <1>2, <2>1
    <2>3. QED BY <2>2 DEF Total, Ahead
  <1>4. \A s \in A : \E j \in 1 .. i - 1 : q[j] = s
    <2> SUFFICES ASSUME NEW s \in A PROVE \E j \in 1 .. i - 1 : q[j] = s
      OBVIOUS
    <2>1. s \in S /\ Precedes(s, q[i], o)
      BY DEF Ahead
    <2>2. PICK j \in 1 .. Len(q) : q[j] = s
      BY <1>1, <2>1
    <2>3. j # i
      BY <2>1, <2>2, NotBeforeItself
    <2>4. ~(i < j)
      BY <1>1, <2>1, <2>2
    <2>5. QED BY <1>1, <2>2, <2>3, <2>4
  <1>5. \A j, k \in 1 .. i - 1 : q[j] = q[k] => j = k
    <2> SUFFICES ASSUME NEW j \in 1 .. i - 1, NEW k \in 1 .. i - 1, j # k PROVE q[j] # q[k]
      OBVIOUS
    <2>1. j \in 1 .. Len(q) /\ k \in 1 .. Len(q) /\ (j < k \/ k < j)
      BY <1>1
    <2>2. QED BY <1>1, <2>1
  <1> HIDE DEF A
  <1>6. f \in Bijection(1 .. i - 1, A)
    <2>1. f \in [1 .. i - 1 -> A]
      BY <1>3
    <2>2. f \in Injection(1 .. i - 1, A)
      BY <1>5, <2>1 DEF Injection, IsInjective
    <2>3. f \in Surjection(1 .. i - 1, A)
      BY <1>4, <2>1 DEF Surjection
    <2>4. QED BY <2>2, <2>3 DEF Bijection
  <1>7. IsFiniteSet(1 .. i - 1) /\ Cardinality(1 .. i - 1) = i - 1
    <2>1. i - 1 \in Nat /\ i - 1 \in Int /\ 1 \in Int
      BY <1>1
    <2> DEFINE m == i - 1
    <2> HIDE DEF m
    <2>2. m \in Nat
      BY <2>1 DEF m
    <2>3. IsFiniteSet(1 .. m) /\ Cardinality(1 .. m) = IF 1 > m THEN 0 ELSE m - 1 + 1
      BY <2>2, FS_Interval
    <2>4. Cardinality(1 .. m) = m
      BY <2>2, <2>3
    <2>5. QED BY <2>3, <2>4 DEF m
  <1>8. QED BY <1>6, <1>7, FS_Bijection DEF ExistsBijection, A

LEMMA FewAhead ==
    ASSUME stamp \in [Rows -> Stamps], NEW S \in SUBSET Rows, IsFiniteSet(S), NEW o, NEW r \in S
    PROVE  Cardinality(Ahead(S, r, o)) \in Nat /\ Cardinality(Ahead(S, r, o)) < Cardinality(S)
  <1>1. Ahead(S, r, o) \in SUBSET (S \ {r})
    BY NotBeforeItself DEF Ahead
  <1>2. IsFiniteSet(S \ {r}) /\ Cardinality(S \ {r}) = Cardinality(S) - 1 /\ Cardinality(S) \in Nat
    BY FS_RemoveElement, FS_CardinalityType
  <1>3. IsFiniteSet(Ahead(S, r, o)) /\ Cardinality(Ahead(S, r, o)) <= Cardinality(S \ {r})
    BY <1>1, <1>2, FS_Subset
  <1>4. QED BY <1>2, <1>3, FS_CardinalityType

LEMMA PagesCover ==
    ASSUME NEW n \in Nat, NEW k \in Nat, query.limit \in Nat \ {0}, k >= TotalPages(n)
    PROVE  n <= k * query.limit
  <1> DEFINE l == query.limit
             t == (n + l - 1) \div l
             m == (n + l - 1) % l
  <1>1. l \in Nat /\ l > 0 /\ n + l - 1 \in Nat
    OBVIOUS
  <1> HIDE DEF l
  <1>2. t \in Int /\ n + l - 1 = l * t + m /\ m \in Int /\ m <= l - 1
    BY <1>1
  <1>3. k >= t
    BY DEF TotalPages, l
  <1> HIDE DEF t, m
  <1>4. n <= l * t
    BY <1>1, <1>2
  <1>5. l * t <= l * k /\ l * k = k * l
    BY <1>1, <1>2, <1>3
  <1>6. n <= k * l
    BY <1>1, <1>2, <1>4, <1>5
  <1>7. QED BY <1>6 DEF l

\* The rows a request with an offset shows are those at its places.
LEMMA OffsetShows ==
    ASSUME query.limit \in Nat \ {0}, NEW S, IsFiniteSet(S), NEW o, NEW q \in Ordered(S, o), NEW n \in Nat,
           NEW i \in 1 .. Len(q)
    PROVE  LET d == SubSeq(q, n + 1, Upper(q, n)) IN
           IF n < i /\ i <= n + query.limit THEN Once(d, q[i]) ELSE Absent(d, q[i])
  <1> DEFINE d == SubSeq(q, n + 1, Upper(q, n))
             l == query.limit
  <1>1. /\ q \in Seq(S) /\ Len(q) \in Nat
        /\ \A j, k \in 1 .. Len(q) : j < k => q[j] # q[k]
    BY OrderedParts
  <1>2. /\ d \in Seq(S) /\ Len(d) = IF n < Len(q) THEN Upper(q, n) - n ELSE 0
        /\ \A j \in 1 .. Len(d) : d[j] = q[n + j]
    BY <1>1, OffsetParts
  <1>3. DOMAIN d = 1 .. Len(d)
    BY <1>2, LenProperties
  <1> HIDE DEF d
  <1>4. \A j \in 1 .. Len(q) : q[j] = q[i] => j = i
    BY <1>1
  <1>5. Len(d) \in Nat /\ n + Len(d) <= n + l /\ (n < Len(q) => n + Len(d) <= Len(q))
    BY <1>1, <1>2 DEF Upper
  <1>6. \A j \in 1 .. Len(d) : n + j \in 1 .. Len(q) /\ d[j] = q[n + j]
    BY <1>1, <1>2, <1>5
  <1>7. ASSUME n < i /\ i <= n + l PROVE Once(d, q[i])
    <2>1. i - n \in DOMAIN d /\ d[i - n] = q[i]
      <3>1. n < Len(q) /\ i <= Upper(q, n)
        BY <1>1, <1>7 DEF Upper
      <3>2. i - n \in 1 .. Len(d) /\ n + (i - n) = i
        BY <1>1, <1>2, <1>7, <3>1 DEF Upper
      <3>3. QED BY <1>3, <1>6, <3>2
    <2>2. \A j \in DOMAIN d : d[j] = q[i] => j = i - n
      <3> SUFFICES ASSUME NEW j \in 1 .. Len(d), d[j] = q[i] PROVE j = i - n
        BY <1>3
      <3>1. n + j = i
        BY <1>4, <1>6
      <3>2. QED BY <3>1, <1>5
    <2>3. QED BY <2>1, <2>2 DEF Once
  <1>8. ASSUME ~(n < i /\ i <= n + l) PROVE Absent(d, q[i])
    <2> SUFFICES ASSUME NEW j \in 1 .. Len(d), d[j] = q[i] PROVE FALSE
      BY <1>3 DEF Absent
    <2>1. n + j = i
      BY <1>4, <1>6
    <2>2. j >= 1 /\ j <= Len(d) /\ j \in Int
      BY <1>5
    <2>3. QED BY <2>1, <2>2, <1>5, <1>8
  <1>9. QED BY <1>7, <1>8 DEF d

\* Where offsets tell rows apart, the pages counted so far have shown the rows
\* with fewer rows ahead than they hold, once, and no others.
OffsetWalk ==
    query.by = "offset" /\ ~Shifted =>
        /\ stayed = table
        /\ walk.phase = "page" => walk.total = TotalPages(Cardinality(table))
        /\ \A r \in table :
              IF Cardinality(Ahead(table, r, query.order)) < walk.number * query.limit
              THEN Once(seen, r) ELSE Absent(seen, r)

LEMMA NoTies ==
    ASSUME ListShape, query.by = "offset", ~Shifted
    PROVE  Total(table, query.order)
  BY DEF ListShape, Shifted, Total

LEMMA SameOrder ==
    ASSUME UNCHANGED <<query, stamp>>
    PROVE  /\ \A r, s, o : Precedes(r, s, o)' <=> Precedes(r, s, o)
           /\ \A S, r, o : Ahead(S, r, o)' = Ahead(S, r, o)
           /\ \A n : TotalPages(n)' = TotalPages(n)
  <1>1. \A r, s, o : Precedes(r, s, o)' <=> Precedes(r, s, o)
    BY DEF Precedes, Differ, Lower
  <1>2. \A S, r, o : Ahead(S, r, o)' = Ahead(S, r, o)
    BY <1>1 DEF Ahead
  <1>3. \A n : TotalPages(n)' = TotalPages(n)
    BY DEF TotalPages
  <1>4. QED BY <1>1, <1>2, <1>3

LEMMA OffsetRowsKeepsOffsets ==
    ASSUME ListShape, OffsetWalk, OffsetRows
    PROVE  OffsetWalk'
  <1> DEFINE n == walk.number * query.limit
             o == query.order
  <1>1. /\ walk.number \in Nat /\ query.limit \in Nat \ {0} /\ table \subseteq Rows /\ IsFiniteSet(table)
        /\ seen \in Seq(Rows) /\ stamp \in [Rows -> Stamps] /\ query.by = "offset"
    BY DEF ListShape, WalkShape, OffsetRows
  <1>2. n \in Nat
    BY <1>1
  <1>3. PICK q \in Ordered(table, o) :
          /\ walk' = [walk EXCEPT !.phase = "count", !.number = @ + 1, !.data = SubSeq(q, n + 1, Upper(q, n))]
          /\ seen' = seen \o SubSeq(q, n + 1, Upper(q, n))
    BY DEF OffsetRows, Upper
  <1> DEFINE d == SubSeq(q, n + 1, Upper(q, n))
  <1>4. walk'.phase = "count" /\ walk'.number = walk.number + 1 /\ seen' = seen \o d
    BY <1>3 DEF ListShape, WalkShape
  <1>5. UNCHANGED <<query, stamp, table, changes, stayed>>
    BY DEF OffsetRows
  <1>6. walk'.number * query'.limit = n + query.limit
    BY <1>1, <1>4, <1>5
  <1>7. Shifted' <=> Shifted
    BY <1>5, SameOrder DEF Shifted
  <1>8. ASSUME ~Shifted, NEW r \in table
        PROVE  IF Cardinality(Ahead(table, r, o)) < n + query.limit THEN Once(seen', r) ELSE Absent(seen', r)
    <2>1. Total(table, o)
      BY <1>1, <1>8, NoTies
    <2>2. /\ q \in Seq(table) /\ Len(q) \in Nat
          /\ \E i \in 1 .. Len(q) : q[i] = r
      BY <1>1, OrderedParts
    <2>3. PICK i \in 1 .. Len(q) : q[i] = r
      BY <2>2
    <2>4. Cardinality(Ahead(table, r, o)) = i - 1
      BY <1>1, <2>1, <2>3, PlaceOfRow
    <2>5. IF i - 1 < n THEN Once(seen, r) ELSE Absent(seen, r)
      BY <1>1, <1>8, <2>4 DEF OffsetWalk
    <2>6. d \in Seq(table)
      BY <1>1, <1>2, <2>2, OffsetParts
    <2>7. d \in Seq(Rows)
      BY <1>1, <2>6, SeqMonotonic
    <2> HIDE DEF n
    <2>8. IF n < i /\ i <= n + query.limit THEN Once(d, r) ELSE Absent(d, r)
      BY <1>1, <1>2, <2>3, OffsetShows
    <2> HIDE DEF d
    <2>9. CASE i - 1 < n
      <3>1. Once(seen, r) /\ Absent(d, r)
        BY <1>2, <2>2, <2>5, <2>8, <2>9
      <3>2. i - 1 < n + query.limit
        BY <1>1, <1>2, <2>2, <2>9
      <3>3. QED BY <1>1, <1>4, <2>4, <2>7, <3>1, <3>2, OnceInBoth
    <2>10. CASE ~(i - 1 < n) /\ i - 1 < n + query.limit
      <3>1. Absent(seen, r) /\ Once(d, r)
        BY <1>1, <1>2, <2>2, <2>5, <2>8, <2>10
      <3>2. QED BY <1>1, <1>4, <2>4, <2>7, <2>10, <3>1, OnceInBoth
    <2>11. CASE ~(i - 1 < n) /\ ~(i - 1 < n + query.limit)
      <3>1. Absent(seen, r) /\ Absent(d, r)
        BY <1>1, <1>2, <2>2, <2>5, <2>8, <2>11
      <3>2. QED BY <1>1, <1>4, <2>4, <2>7, <2>11, <3>1, OnceInBoth
    <2>12. QED
      <3>1. i - 1 < n => i - 1 < n + query.limit
        BY <1>1, <1>2, <2>2
      <3>2. QED BY <2>9, <2>10, <2>11, <3>1
  <1>9. ASSUME ~Shifted PROVE OffsetWalk'
    <2>1. stayed' = table'
      BY <1>1, <1>5, <1>9 DEF OffsetWalk
    <2>2. \A r \in table' :
              IF Cardinality(Ahead(table, r, o)) < walk'.number * query'.limit THEN Once(seen', r) ELSE Absent(seen', r)
      BY <1>5, <1>6, <1>8, <1>9
    <2>3. \A r : Ahead(table, r, query.order)' = Ahead(table, r, o)
      BY <1>5, SameOrder
    <2> HIDE DEF n
    <2>4. walk'.phase # "page"
      BY <1>4
    <2>5. \A r : (Once(seen, r)' <=> Once(seen', r)) /\ (Absent(seen, r)' <=> Absent(seen', r))
      BY DEF Once, Absent
    <2>6. \A r \in table' :
              (IF Cardinality(Ahead(table, r, query.order)) < walk.number * query.limit THEN Once(seen, r) ELSE Absent(seen, r))'
      BY <2>2, <2>3, <2>5
    <2>7. QED BY <2>1, <2>4, <2>6 DEF OffsetWalk
  <1>10. QED
    <2>1. CASE Shifted
      BY <1>7, <2>1 DEF OffsetWalk
    <2>2. QED BY <1>9, <2>1

LEMMA ListsKeepOffsets ==
    ASSUME ListShape, OffsetWalk, Lists
    PROVE  OffsetWalk'
  <1>1. CASE OffsetCount
    <2>1. UNCHANGED <<query, stamp, table, changes, seen, stayed>>
      BY <1>1 DEF OffsetCount
    <2>2. walk'.number = walk.number /\ walk'.total = TotalPages(Cardinality(table))
      BY <1>1 DEF OffsetCount, ListShape, WalkShape
    <2>3. Shifted' <=> Shifted
      BY <2>1, SameOrder DEF Shifted
    <2>4. QED BY <2>1, <2>2, <2>3, SameOrder DEF OffsetWalk, Once, Absent
  <1>2. CASE Change
    <2>1. query' = query /\ changes' = changes + 1 /\ changes \in Nat
      BY <1>2 DEF Change, ListShape
    <2>2. changes' > 0
      BY <2>1
    <2>3. QED BY <2>1, <2>2 DEF OffsetWalk, Shifted
  <1>3. CASE First \/ NextPage \/ PreviousPage
    <2>1. query' = query /\ query.by = "cursor"
      BY <1>3 DEF First, NextPage, PreviousPage, Move
    <2>2. QED BY <2>1 DEF OffsetWalk
  <1>4. QED BY <1>1, <1>2, <1>3, OffsetRowsKeepsOffsets DEF Lists

-------------------------------------------------------------------------------
WalkInv == Typed /\ CursorWalk /\ OffsetWalk

LEMMA WalkInvAtInit == Init => WalkInv
  <1> SUFFICES ASSUME Init PROVE WalkInv
    OBVIOUS
  <1>1. Typed
    BY TypedAtInit
  <1>2. CASE route = "form" /\ query.by = "none"
    BY <1>1, <1>2 DEF WalkInv, CursorWalk, OffsetWalk
  <1>3. CASE PagesInit
    <2>1. walk.phase = "start" /\ seen = <<>> /\ walk.number = 0 /\ stayed = table
      BY <1>3 DEF PagesInit
    <2>2. CursorWalk
      BY <2>1 DEF CursorWalk
    <2>3. ASSUME query.by = "offset" PROVE OffsetWalk
      <3>1. ListShape
        BY <1>1, <2>3 DEF Typed, NoList
      <3>2. \A r : Absent(seen, r)
        BY <2>1 DEF Absent
      <3>3. walk.number * query.limit = 0
        BY <2>1, <3>1 DEF ListShape
      <3>4. \A r \in table : ~(Cardinality(Ahead(table, r, query.order)) < 0)
        BY <3>1, FewAhead DEF ListShape
      <3>5. QED BY <2>1, <3>2, <3>3, <3>4 DEF OffsetWalk
    <2>4. QED BY <1>1, <2>2, <2>3 DEF WalkInv, OffsetWalk
  <1>4. QED BY <1>2, <1>3 DEF Init

LEMMA WalkInvStep == WalkInv /\ [Next]_<<route, form, vars>> => WalkInv'
  <1> SUFFICES ASSUME WalkInv, [Next]_<<route, form, vars>> PROVE WalkInv'
    OBVIOUS
  <1>1. Typed'
    BY TypedStep DEF WalkInv
  <1>2. CASE UNCHANGED vars
    <2>1. UNCHANGED <<query, stamp, table, changes, walk, seen, stayed>>
      BY <1>2 DEF vars
    <2>2. Shifted' <=> Shifted
      BY <2>1, SameOrder DEF Shifted
    <2>3. CursorWalk'
      BY <2>1, SameStamps DEF WalkInv, CursorWalk
    <2>4. OffsetWalk'
      BY <2>1, <2>2, SameOrder DEF WalkInv, OffsetWalk, Once, Absent
    <2>5. QED BY <1>1, <2>3, <2>4 DEF WalkInv
  <1>3. CASE Lists
    <2>1. ListShape
      BY <1>3, FormsListNothing DEF WalkInv, Typed, Lists
    <2>2. QED BY <1>1, <1>3, <2>1, ListsKeepWalk, ListsKeepOffsets DEF WalkInv
  <1>4. QED BY <1>2, <1>3, StepsListOrPost

LEMMA WalkInvImplies == WalkInv => WalkSeesEveryRow
  <1> SUFFICES ASSUME WalkInv, query.by # "none", Ended, ~Shifted, NEW r \in stayed, ~Blurred(r)
               PROVE  Cardinality({i \in DOMAIN seen : seen[i] = r}) = 1
    BY DEF WalkSeesEveryRow
  <1>1. ListShape
    BY DEF WalkInv, Typed, NoList
  <1>2. Once(seen, r)
    <2>1. CASE query.by = "cursor"
      <3>1. Clear(r, query.order)
        BY <1>1, <2>1, ClearRows DEF ListShape
      <3>2. ~walk.after.there /\ walk.phase = "page" /\ ~walk.turned
        BY <2>1 DEF Ended
      <3>3. QED BY <2>1, <3>1, <3>2 DEF WalkInv, CursorWalk, ShownUpTo
    <2>2. CASE query.by = "offset"
      <3>1. walk.phase = "page" /\ walk.number >= walk.total
        BY <2>2 DEF Ended
      <3>2. stayed = table /\ walk.total = TotalPages(Cardinality(table))
        BY <2>2, <3>1 DEF WalkInv, OffsetWalk
      <3>3. Cardinality(table) \in Nat /\ walk.number \in Nat /\ query.limit \in Nat \ {0}
        BY <1>1, FS_CardinalityType DEF ListShape, WalkShape
      <3>4. Cardinality(table) <= walk.number * query.limit
        BY <3>1, <3>2, <3>3, PagesCover
      <3>5. /\ Cardinality(Ahead(table, r, query.order)) \in Nat
            /\ Cardinality(Ahead(table, r, query.order)) < Cardinality(table)
        BY <1>1, <3>2, FewAhead DEF ListShape
      <3> DEFINE a == Cardinality(Ahead(table, r, query.order))
                 n == walk.number * query.limit
      <3>6. n \in Nat
        BY <3>3
      <3> HIDE DEF a, n
      <3>7. a < n
        BY <3>3, <3>4, <3>5, <3>6 DEF a, n
      <3>8. QED BY <2>2, <3>2, <3>7 DEF WalkInv, OffsetWalk, a, n
    <2>3. QED BY <1>1, <2>1, <2>2 DEF ListShape
  <1>3. QED BY <1>2, OnceIsOne

\* A walk to the last page shows every row that was there all along, once:
\* by cursors unless the row is blurred, by offsets unless rows shift.
THEOREM EveryRowIsSeen == Spec => []WalkSeesEveryRow
  BY WalkInvAtInit, WalkInvStep, WalkInvImplies, PTL DEF Spec

-------------------------------------------------------------------------------
\* Where every row is clear, an order is strict and total, the flipped one is
\* its converse, and cursors read what comes after their row.
AllClear == \A r \in Rows : Clear(r, query.order)

Orderly(o) ==
    /\ \A r, s \in Rows :
          /\ CursorQuery(r, Encode(s), o) <=> Precedes(s, r, o)
          /\ Precedes(r, s, Flip(o)) <=> Precedes(s, r, o)
          /\ r # s => Precedes(r, s, o) \/ Precedes(s, r, o)
          /\ ~(Precedes(r, s, o) /\ Precedes(s, r, o))
    /\ \A r, s, t \in Rows : Precedes(r, s, o) /\ Precedes(s, t, o) => Precedes(r, t, o)

LEMMA FlippedConverse ==
    ASSUME NEW o, CursorOrder(o), NEW r, NEW s
    PROVE  Precedes(r, s, Flip(o)) <=> Precedes(s, r, o)
  <1>1. /\ CursorOrder(Flip(o)) /\ Len(Flip(o)) = Len(o) /\ Len(o) \in {1, 2}
        /\ \A i \in 1 .. Len(o) : o[i] \in Part /\ Flip(o)[i].key = o[i].key /\ Flip(o)[i].up = ~o[i].up
    BY FlipOrder DEF CursorOrder
  <1>2. \A i \in 1 .. Len(o) : Differ(r, s, Flip(o)[i]) <=> Differ(s, r, o[i])
    BY <1>1 DEF Differ, Part
  <1>3. Len(o) = 1 \/ Len(o) = 2
    BY <1>1
  <1>4. QED BY <1>1, <1>2, <1>3, PrecedesByKeys

LEMMA FlippedTwice ==
    ASSUME NEW o, CursorOrder(o)
    PROVE  Flip(Flip(o)) = o
  <1>1. DOMAIN o = 1 .. Len(o) /\ o \in Seq(Part) /\ \A i \in 1 .. Len(o) : o[i] \in Part
    BY DEF CursorOrder
  <1>2. \A i \in 1 .. Len(o) : [[o[i] EXCEPT !.up = ~@] EXCEPT !.up = ~@] = o[i]
    BY <1>1 DEF Part
  <1>3. Flip(o) = [i \in 1 .. Len(o) |-> [o[i] EXCEPT !.up = ~@]]
    BY <1>1 DEF Flip
  <1>4. DOMAIN Flip(o) = 1 .. Len(o) /\ \A i \in 1 .. Len(o) : Flip(o)[i] = [o[i] EXCEPT !.up = ~@]
    BY <1>3
  <1>5. Flip(Flip(o)) = [i \in 1 .. Len(o) |-> [Flip(o)[i] EXCEPT !.up = ~@]]
    BY <1>4 DEF Flip
  <1>8. \A i \in 1 .. Len(o) : [Flip(o)[i] EXCEPT !.up = ~@] = o[i]
    BY <1>2, <1>4
  <1>6. Flip(Flip(o)) = [i \in 1 .. Len(o) |-> o[i]]
    BY <1>5, <1>8
  <1>7. QED BY <1>1, <1>6

LEMMA ClearIsOrderly ==
    ASSUME stamp \in [Rows -> Stamps], NEW o, CursorOrder(o), \A r \in Rows : Clear(r, o)
    PROVE  Orderly(o)
  <1>1. \A r \in Rows : Dated(o) => stamp[r] # NoDate
    BY DEF Clear
  <1>2. ASSUME NEW r \in Rows, NEW s \in Rows
        PROVE  /\ CursorQuery(r, Encode(s), o) <=> Precedes(s, r, o)
               /\ r # s => Precedes(r, s, o) \/ Precedes(s, r, o)
               /\ ~(Precedes(r, s, o) /\ Precedes(s, r, o))
    <2>1. CASE r = s
      BY <2>1, NotBeforeItself, NotBeyondItself
    <2>2. CASE r # s
      BY <1>1, <2>2, CursorsAreExact
    <2>3. QED BY <2>1, <2>2
  <1>3. ASSUME NEW r \in Rows, NEW s \in Rows, NEW t \in Rows, Precedes(r, s, o), Precedes(s, t, o)
        PROVE  Precedes(r, t, o)
    <2>1. CursorQuery(s, Encode(r), o) /\ CursorQuery(t, Encode(s), o)
      BY <1>2, <1>3
    <2>2. CursorQuery(t, Encode(r), o)
      BY <2>1, BeyondIsTransitive
    <2>3. QED BY <1>2, <2>2
  <1>4. QED BY <1>2, <1>3, FlippedConverse DEF Orderly

LEMMA QueryIsOrderly ==
    ASSUME ListShape, query.by = "cursor", AllClear
    PROVE  /\ Orderly(query.order) /\ Orderly(Flip(query.order)) /\ Flip(Flip(query.order)) = query.order
           /\ CursorOrder(query.order) /\ CursorOrder(Flip(query.order))
  <1>1. CursorOrder(query.order) /\ CursorOrder(Flip(query.order)) /\ stamp \in [Rows -> Stamps]
    BY FlipOrder DEF ListShape
  <1>2. \A r \in Rows : Clear(r, query.order) /\ Clear(r, Flip(query.order))
    BY <1>1, ClearFlipped DEF AllClear
  <1>3. QED BY <1>1, <1>2, ClearIsOrderly, FlippedTwice

-------------------------------------------------------------------------------
\* Rows in a strict order, and the first of a set, up to the page's limit.
Sorted(d, o) == d \in Seq(Rows) /\ \A i, j \in 1 .. Len(d) : i < j => Precedes(d[i], d[j], o)
Shown(d) == {d[i] : i \in DOMAIN d}
Heads(R, S, o) ==
    /\ R \subseteq S /\ Cardinality(R) = IF Cardinality(S) < query.limit THEN Cardinality(S) ELSE query.limit
    /\ \A r \in R, s \in S \ R : Precedes(r, s, o)

LEMMA SortedParts ==
    ASSUME stamp \in [Rows -> Stamps], NEW o, Orderly(o), NEW d, Sorted(d, o)
    PROVE  /\ IsFiniteSet(Shown(d)) /\ Cardinality(Shown(d)) = Len(d) /\ Shown(d) \in SUBSET Rows
           /\ d \in Ordered(Shown(d), o)
  <1>1. d \in Seq(Rows) /\ Len(d) \in Nat /\ DOMAIN d = 1 .. Len(d) /\ \A i \in 1 .. Len(d) : d[i] \in Rows
    BY LenProperties, ElementOfSeq DEF Sorted
  <1>2. \A i, j \in 1 .. Len(d) : i < j => Precedes(d[i], d[j], o) /\ d[i] # d[j] /\ ~Precedes(d[j], d[i], o)
    BY <1>1, NotBeforeItself DEF Sorted, Orderly
  <1>3. d \in Bijection(1 .. Len(d), Shown(d))
    <2>1. d \in [1 .. Len(d) -> Shown(d)]
      BY <1>1 DEF Shown
    <2>2. \A i, j \in 1 .. Len(d) : d[i] = d[j] => i = j
      BY <1>1, <1>2
    <2>3. d \in Injection(1 .. Len(d), Shown(d))
      BY <2>1, <2>2 DEF Injection, IsInjective
    <2>4. \A s \in Shown(d) : \E i \in 1 .. Len(d) : d[i] = s
      BY <1>1 DEF Shown
    <2>5. d \in Surjection(1 .. Len(d), Shown(d))
      BY <2>1, <2>4 DEF Surjection
    <2>6. QED BY <2>3, <2>5 DEF Bijection
  <1>4. IsFiniteSet(1 .. Len(d)) /\ Cardinality(1 .. Len(d)) = Len(d)
    <2> DEFINE m == Len(d)
    <2> HIDE DEF m
    <2>1. m \in Nat /\ m \in Int /\ 1 \in Int
      BY <1>1 DEF m
    <2>2. IsFiniteSet(1 .. m) /\ Cardinality(1 .. m) = IF 1 > m THEN 0 ELSE m - 1 + 1
      BY <2>1, FS_Interval
    <2>3. Cardinality(1 .. m) = m
      BY <2>1, <2>2
    <2>4. QED BY <2>2, <2>3 DEF m
  <1>5. IsFiniteSet(Shown(d)) /\ Cardinality(Shown(d)) = Len(d)
    BY <1>3, <1>4, FS_Bijection DEF ExistsBijection
  <1>6. d \in [1 .. Cardinality(Shown(d)) -> Shown(d)]
    BY <1>3, <1>5 DEF Bijection, Injection
  <1>7. d \in Ordered(Shown(d), o)
    BY <1>1, <1>2, <1>5, <1>6 DEF Ordered
  <1>8. Shown(d) \in SUBSET Rows
    BY <1>1 DEF Shown
  <1>9. QED BY <1>5, <1>7, <1>8

\* Sorted lists of the same rows are the same.
LEMMA OneOrder ==
    ASSUME stamp \in [Rows -> Stamps], NEW o, Orderly(o), NEW d, NEW e, Sorted(d, o), Sorted(e, o), Shown(d) = Shown(e)
    PROVE  d = e
  <1> DEFINE S == Shown(d)
  <1>1. /\ IsFiniteSet(S) /\ Cardinality(S) = Len(d) /\ Cardinality(S) = Len(e) /\ S \in SUBSET Rows
        /\ d \in Ordered(S, o) /\ e \in Ordered(S, o)
    BY SortedParts
  <1>2. Total(S, o)
    BY <1>1 DEF Orderly, Total
  <1>3. d \in Seq(Rows) /\ e \in Seq(Rows) /\ Len(d) \in Nat /\ Len(e) = Len(d)
        /\ DOMAIN d = 1 .. Len(d) /\ DOMAIN e = 1 .. Len(d)
    BY <1>1, LenProperties DEF Sorted
  <1> HIDE DEF S
  <1>4. ASSUME NEW i \in 1 .. Len(d) PROVE d[i] = e[i]
    <2>1. d[i] \in Shown(e)
      BY <1>3 DEF Shown
    <2>2. PICK j \in 1 .. Len(e) : e[j] = d[i]
      BY <1>3, <2>1 DEF Shown
    <2>3. Cardinality(Ahead(S, d[i], o)) = i - 1
      BY <1>1, <1>2, PlaceOfRow
    <2>4. Cardinality(Ahead(S, e[j], o)) = j - 1
      BY <1>1, <1>2, PlaceOfRow
    <2>5. i = j
      BY <1>3, <2>2, <2>3, <2>4
    <2>6. QED BY <2>2, <2>5
  <1>5. QED BY <1>3, <1>4, SeqEqual

\* The first rows of a set are one set.
LEMMA OneHead ==
    ASSUME NEW o, Orderly(o), NEW S \in SUBSET Rows, IsFiniteSet(S), NEW R, NEW T, Heads(R, S, o), Heads(T, S, o)
    PROVE  R = T
  <1>1. R \subseteq S /\ T \subseteq S /\ Cardinality(R) = Cardinality(T)
    BY DEF Heads
  <1>2. IsFiniteSet(R) /\ IsFiniteSet(T)
    BY <1>1, FS_Subset
  <1>3. R \subseteq T \/ T \subseteq R
    <2> SUFFICES ASSUME NEW r \in R, r \notin T, NEW t \in T, t \notin R PROVE FALSE
      OBVIOUS
    <2>1. Precedes(r, t, o) /\ Precedes(t, r, o)
      BY <1>1 DEF Heads
    <2>2. QED BY <1>1, <2>1 DEF Orderly
  <1>4. QED BY <1>1, <1>2, <1>3, FS_Subset

\* No row outside of a set comes after one inside.
Closed(S, o) == \A s \in table \ S, r \in S : Precedes(s, r, o)

\* The last row of a page, where more rows follow: read backwards from there,
\* the page comes first.  The first row of a page: what is not before it is
\* what the page was read from.
LEMMA BackFromTheLast ==
    ASSUME ListShape, NEW o, Orderly(o), NEW S \in SUBSET table, Closed(S, o),
           NEW R, Heads(R, S, o), Cardinality(R) = query.limit,
           NEW l \in R, \A r \in R : ~Precedes(l, r, o)
    PROVE  Heads(R, {r \in table : ~Precedes(l, r, o)}, Flip(o))
  <1> DEFINE T == {r \in table : ~Precedes(l, r, o)}
  <1>1. R \subseteq S /\ S \subseteq table /\ table \subseteq Rows /\ IsFiniteSet(table) /\ query.limit \in Nat
    BY DEF Heads, ListShape
  <1>2. R \subseteq T
    BY <1>1
  <1>3. ASSUME NEW r \in R, NEW s \in T \ R PROVE Precedes(r, s, Flip(o))
    <2>1. s \in Rows /\ r \in Rows /\ l \in Rows
      BY <1>1
    <2>2. s \notin S
      BY <1>3 DEF Heads
    <2>3. Precedes(s, r, o)
      BY <1>1, <2>2 DEF Closed
    <2>4. QED BY <2>1, <2>3 DEF Orderly
  <1>4. IsFiniteSet(T) /\ Cardinality(R) <= Cardinality(T) /\ Cardinality(T) \in Nat
    <2>1. IsFiniteSet(T)
      BY <1>1, FS_Subset
    <2>2. QED BY <1>2, <2>1, FS_Subset, FS_CardinalityType
  <1> HIDE DEF T
  <1>5. Heads(R, T, Flip(o))
    BY <1>1, <1>2, <1>3, <1>4 DEF Heads
  <1>6. QED BY <1>5 DEF T

LEMMA FromTheFirst ==
    ASSUME ListShape, NEW o, Orderly(o), NEW S \in SUBSET table, Closed(S, o),
           NEW R, Heads(R, S, o), NEW f \in R, \A r \in R : ~Precedes(r, f, o)
    PROVE  {r \in table : Precedes(r, f, o)} = table \ S
  <1>1. R \subseteq S /\ S \subseteq table /\ table \subseteq Rows
    BY DEF Heads, ListShape
  <1>2. ASSUME NEW r \in S PROVE ~Precedes(r, f, o)
    <2>1. CASE r \in R
      BY <2>1
    <2>2. CASE r \notin R
      BY <1>1, <2>2 DEF Heads, Orderly
    <2>3. QED BY <2>1, <2>2
  <1>3. QED BY <1>1, <1>2 DEF Closed

\* A page of the rows S, read in an order: what it is, and where its cursors
\* lead.
Onward(c, o) == {r \in table : CursorQuery(r, c, o)}

LEMMA OnwardRows ==
    ASSUME ListShape, NEW o, Orderly(o), Orderly(Flip(o)), Flip(Flip(o)) = o, NEW t \in Rows
    PROVE  /\ Onward(Encode(t), o) = {r \in table : Precedes(t, r, o)}
           /\ Onward(Encode(t), Flip(o)) = {r \in table : Precedes(r, t, o)}
  <1>1. table \subseteq Rows
    BY DEF ListShape
  <1>2. \A r \in Rows : CursorQuery(r, Encode(t), o) <=> Precedes(t, r, o)
    BY DEF Orderly
  <1>3. \A r \in Rows : CursorQuery(r, Encode(t), Flip(o)) <=> Precedes(r, t, o)
    BY DEF Orderly
  <1>4. QED BY <1>1, <1>2, <1>3 DEF Onward

LEMMA ReadIsHead ==
    ASSUME ListShape, NEW o, Orderly(o), Orderly(Flip(o)), Flip(Flip(o)) = o,
           NEW S \in SUBSET table, Closed(S, o), NEW q \in Ordered(S, o)
    PROVE  LET d == Read(q) IN
           /\ Sorted(d, o) /\ Heads(Shown(d), S, o) /\ d \in Seq(Rows) /\ Len(d) \in Nat
           /\ d # <<>> => Onward(Encode(d[1]), Flip(o)) = table \ S /\ Len(d) >= 1
           /\ Len(q) > query.limit =>
                 d # <<>> /\ Heads(Shown(d), table \ Onward(Encode(d[Len(d)]), o), Flip(o))
  <1> DEFINE d == Read(q)
  <1>1. /\ q \in Seq(S) /\ Len(q) = Cardinality(S) /\ Len(q) \in Nat
        /\ \A i, j \in 1 .. Len(q) : i < j => q[i] # q[j] /\ ~Precedes(q[j], q[i], o)
        /\ \A s \in S : \E i \in 1 .. Len(q) : q[i] = s
        /\ S \in SUBSET Rows /\ \A i \in 1 .. Len(q) : q[i] \in S
    <2>1. IsFiniteSet(S) /\ S \in SUBSET Rows
      BY SomeRows
    <2>2. /\ q \in Seq(S) /\ Len(q) = Cardinality(S) /\ Len(q) \in Nat
          /\ \A i, j \in 1 .. Len(q) : i < j => q[i] # q[j] /\ ~Precedes(q[j], q[i], o)
          /\ \A s \in S : \E i \in 1 .. Len(q) : q[i] = s
      BY <2>1, OrderedParts
    <2>3. \A i \in 1 .. Len(q) : q[i] \in S
      BY <2>2, ElementOfSeq
    <2>4. QED BY <2>1, <2>2, <2>3
  <1>2. query.limit \in Nat \ {0} /\ stamp \in [Rows -> Stamps] /\ table \subseteq Rows
    BY DEF ListShape
  <1>3. /\ d \in Seq(S) /\ Len(d) = IF Len(q) < query.limit THEN Len(q) ELSE query.limit
        /\ \A i \in 1 .. Len(d) : d[i] = q[i]
    BY <1>1, <1>2, ReadParts
  <1>4. d \in Seq(Rows) /\ Len(d) \in Nat /\ DOMAIN d = 1 .. Len(d)
    BY <1>1, <1>3, SeqMonotonic, LenProperties
  <1> HIDE DEF d
  <1> DEFINE l == query.limit
  <1>5. Len(d) <= Len(q) /\ l \in Nat /\ l >= 1
    <2>1. l \in Nat /\ l >= 1 /\ Len(d) = IF Len(q) < l THEN Len(q) ELSE l
      BY <1>2, <1>3
    <2> HIDE DEF l
    <2>2. QED BY <2>1, <1>1
  <1>6. \A i, j \in 1 .. Len(q) : i < j => Precedes(q[i], q[j], o)
    BY <1>1 DEF Orderly
  <1>7. \A i \in 1 .. Len(d) : i \in 1 .. Len(q)
    BY <1>1, <1>4, <1>5
  <1>8. Sorted(d, o)
    BY <1>3, <1>4, <1>6, <1>7 DEF Sorted
  <1>9. /\ Cardinality(Shown(d)) = Len(d) /\ \A r \in Shown(d) : \E i \in 1 .. Len(d) : d[i] = r
        /\ \A i \in 1 .. Len(d) : d[i] \in Shown(d)
    BY <1>2, <1>4, <1>8, SortedParts DEF Shown
  <1>10. Heads(Shown(d), S, o)
    <2>1. Shown(d) \subseteq S
      BY <1>1, <1>3, <1>7, <1>9
    <2>2. ASSUME NEW r \in Shown(d), NEW s \in S \ Shown(d) PROVE Precedes(r, s, o)
      <3>1. PICK i \in 1 .. Len(d) : d[i] = r
        BY <1>9
      <3>2. PICK j \in 1 .. Len(q) : q[j] = s
        BY <1>1
      <3>3. j \notin 1 .. Len(d)
        <4>1. j \in 1 .. Len(d) => s \in Shown(d)
          BY <1>3, <1>9, <3>2
        <4>2. QED BY <2>2, <4>1
      <3>4. i \in 1 .. Len(q) /\ q[i] = r /\ i < j
        BY <1>1, <1>3, <1>4, <1>7, <3>1, <3>3
      <3>5. QED BY <1>6, <3>2, <3>4
    <2>3. QED BY <1>1, <1>3, <1>9, <2>1, <2>2 DEF Heads
  <1>11. ASSUME d # <<>> PROVE Onward(Encode(d[1]), Flip(o)) = table \ S /\ Len(d) >= 1
    <2>1. Len(d) >= 1
      BY <1>4, <1>11, EmptySeq
    <2>2. 1 \in 1 .. Len(d) /\ d[1] \in Shown(d) /\ d[1] \in Rows
      BY <1>4, <1>9, <2>1, ElementOfSeq
    <2>3. \A r \in Shown(d) : ~Precedes(r, d[1], o)
      <3> SUFFICES ASSUME NEW r \in Shown(d), Precedes(r, d[1], o) PROVE FALSE
        OBVIOUS
      <3>1. PICK i \in 1 .. Len(d) : d[i] = r
        BY <1>9
      <3>2. CASE i = 1
        BY <1>2, <2>2, <3>1, <3>2, NotBeforeItself
      <3>3. CASE i # 1
        <4>1. 1 < i
          BY <1>4, <3>3
        <4>2. ~Precedes(d[i], d[1], o)
          BY <1>1, <1>3, <1>7, <2>2, <4>1
        <4>3. QED BY <3>1, <4>2
      <3>4. QED BY <3>2, <3>3
    <2>4. {r \in table : Precedes(r, d[1], o)} = table \ S
      BY <1>10, <2>2, <2>3, FromTheFirst
    <2>5. QED BY <2>1, <2>2, <2>4, OnwardRows
  <1>12. ASSUME Len(q) > query.limit PROVE d # <<>> /\ Heads(Shown(d), table \ Onward(Encode(d[Len(d)]), o), Flip(o))
    <2>1. Len(d) = query.limit
      <3>1. l \in Nat /\ Len(d) = (IF Len(q) < l THEN Len(q) ELSE l) /\ Len(q) > l
        BY <1>3, <1>5, <1>12
      <3> HIDE DEF l
      <3>2. Len(d) = l
        BY <1>1, <3>1
      <3>3. QED BY <3>2 DEF l
    <2> DEFINE m == Len(d)
    <2>2. m \in Nat /\ m >= 1 /\ m \in 1 .. m
      BY <1>2, <2>1
    <2>3. d # <<>>
      BY <1>4, <2>2, EmptySeq
    <2>4. d[m] \in Shown(d) /\ d[m] \in Rows
      BY <1>4, <1>9, <2>2, ElementOfSeq
    <2>5. \A r \in Shown(d) : ~Precedes(d[m], r, o)
      <3> SUFFICES ASSUME NEW r \in Shown(d), Precedes(d[m], r, o) PROVE FALSE
        OBVIOUS
      <3>1. PICK i \in 1 .. m : d[i] = r
        BY <1>9
      <3>2. CASE i = m
        BY <1>2, <2>4, <3>1, <3>2, NotBeforeItself
      <3>3. CASE i # m
        <4>1. i < m
          BY <2>2, <3>3
        <4>2. ~Precedes(d[m], d[i], o)
          BY <1>1, <1>3, <1>7, <2>2, <4>1
        <4>3. QED BY <3>1, <4>2
      <3>4. QED BY <3>2, <3>3
    <2>6. Cardinality(Shown(d)) = query.limit
      BY <1>9, <2>1
    <2> HIDE DEF m
    <2>7. Heads(Shown(d), {r \in table : ~Precedes(d[m], r, o)}, Flip(o))
      BY <1>10, <2>4, <2>5, <2>6, BackFromTheLast
    <2>8. table \ Onward(Encode(d[m]), o) = {r \in table : ~Precedes(d[m], r, o)}
      BY <2>4, OnwardRows
    <2>9. Heads(Shown(d), table \ Onward(Encode(d[m]), o), Flip(o))
      BY <2>7, <2>8
    <2>10. QED BY <2>3, <2>9 DEF m
  <1>13. QED BY <1>4, <1>8, <1>10, <1>11, <1>12 DEF d

LEMMA ReversedIsSorted ==
    ASSUME stamp \in [Rows -> Stamps], NEW o, Orderly(o), NEW d, Sorted(d, o)
    PROVE  /\ Sorted(Reversed(d), Flip(o)) /\ Shown(Reversed(d)) = Shown(d) /\ Len(Reversed(d)) = Len(d)
           /\ d # <<>> => Reversed(d)[1] = d[Len(d)] /\ Reversed(d)[Len(d)] = d[1]
           /\ Reversed(d) # <<>> <=> d # <<>>
  <1> DEFINE e == Reversed(d)
  <1>1. d \in Seq(Rows) /\ Len(d) \in Nat /\ DOMAIN d = 1 .. Len(d) /\ \A i \in 1 .. Len(d) : d[i] \in Rows
    BY LenProperties, ElementOfSeq DEF Sorted
  <1>2. e \in Seq(Rows) /\ Len(e) = Len(d) /\ \A i \in 1 .. Len(d) : e[i] = d[Len(d) + 1 - i]
    BY <1>1, ReversedParts
  <1>3. DOMAIN e = 1 .. Len(d)
    BY <1>2, LenProperties
  <1> HIDE DEF e
  <1>4. \A i \in 1 .. Len(d) : Len(d) + 1 - i \in 1 .. Len(d) /\ d[i] = e[Len(d) + 1 - i]
    <2> SUFFICES ASSUME NEW i \in 1 .. Len(d) PROVE Len(d) + 1 - i \in 1 .. Len(d) /\ d[i] = e[Len(d) + 1 - i]
      OBVIOUS
    <2>1. Len(d) + 1 - i \in 1 .. Len(d) /\ Len(d) + 1 - (Len(d) + 1 - i) = i
      BY <1>1
    <2>2. QED BY <1>2, <2>1
  <1>5. ASSUME NEW i \in 1 .. Len(d), NEW j \in 1 .. Len(d), i < j PROVE Precedes(e[i], e[j], Flip(o))
    <2>1. Len(d) + 1 - j < Len(d) + 1 - i
      BY <1>1, <1>5
    <2>2. Precedes(e[j], e[i], o)
      BY <1>2, <1>4, <2>1 DEF Sorted
    <2>3. e[i] \in Rows /\ e[j] \in Rows
      BY <1>1, <1>2, <1>4
    <2>4. QED BY <2>2, <2>3 DEF Orderly
  <1>6. Sorted(e, Flip(o))
    BY <1>2, <1>5 DEF Sorted
  <1>7. Shown(e) = Shown(d)
    <2>1. ASSUME NEW i \in 1 .. Len(d) PROVE e[i] \in Shown(d) /\ d[i] \in Shown(e)
      BY <1>1, <1>2, <1>3, <1>4 DEF Shown
    <2>2. \A r \in Shown(e) : r \in Shown(d)
      BY <1>3, <2>1 DEF Shown
    <2>3. \A r \in Shown(d) : r \in Shown(e)
      BY <1>1, <2>1 DEF Shown
    <2>4. QED BY <2>2, <2>3
  <1>8. ASSUME d # <<>> PROVE e[1] = d[Len(d)] /\ e[Len(d)] = d[1]
    <2>1. Len(d) >= 1
      BY <1>1, <1>8, EmptySeq
    <2>2. 1 \in 1 .. Len(d) /\ Len(d) \in 1 .. Len(d) /\ Len(d) + 1 - 1 = Len(d) /\ Len(d) + 1 - Len(d) = 1
      BY <1>1, <2>1
    <2>3. QED BY <1>2, <2>2
  <1>9. e # <<>> <=> d # <<>>
    BY <1>1, <1>2, EmptySeq
  <1>10. QED BY <1>2, <1>6, <1>7, <1>8, <1>9 DEF e

-------------------------------------------------------------------------------
\* Reading on from a page's cursors, or back from them, the rows of the page
\* come first; and so do those of the page that was left, seen from this one.
Neighbours(w) ==
    LET o == query.order IN
    /\ w.fresh /\ w.after.there => Heads(Shown(w.data), table \ Onward(w.after, o), Flip(o))
    /\ w.fresh /\ w.before.there => Heads(Shown(w.data), table \ Onward(w.before, Flip(o)), o)
    /\ w.way = "next" /\ w.before.there => Heads(Shown(w.left), Onward(w.before, Flip(o)), Flip(o))
    /\ w.way = "previous" /\ w.after.there => Heads(Shown(w.left), Onward(w.after, o), o)

ClearWalk(w) ==
    /\ Sorted(w.data, query.order) /\ Sorted(w.left, query.order)
    /\ w.way # "none" => w.fresh
    /\ w.phase = "start" => w.way = "none"
    /\ w.phase = "page" => Neighbours(w)

MatchInv ==
    /\ query.by # "cursor" => match = TRUE
    /\ query.by = "cursor" /\ AllClear => match = TRUE /\ ClearWalk(walk)

LEMMA SameWalk ==
    ASSUME UNCHANGED <<query, stamp>>
    PROVE  /\ AllClear' <=> AllClear
           /\ \A d, o : Sorted(d, o)' <=> Sorted(d, o)
           /\ table' = table => \A w : ClearWalk(w)' <=> ClearWalk(w)
  <1>1. AllClear' <=> AllClear
    BY SameStamps DEF AllClear
  <1>2. \A d, o : Sorted(d, o)' <=> Sorted(d, o)
    BY SameOrder DEF Sorted
  <1>3. \A R, S, o : Heads(R, S, o)' <=> Heads(R, S, o)
    BY SameOrder DEF Heads
  <1>4. ASSUME table' = table PROVE \A w : ClearWalk(w)' <=> ClearWalk(w)
    <2>1. \A c, o : Onward(c, o)' = Onward(c, o)
      BY <1>4, SameStamps DEF Onward
    <2>2. \A w : Neighbours(w)' <=> Neighbours(w)
      BY <1>3, <1>4, <2>1 DEF Neighbours
    <2>3. QED BY <1>2, <2>2 DEF ClearWalk
  <1>5. QED BY <1>1, <1>2, <1>4

\* The rows before a cursor are not after those that are not.
LEMMA OnwardIsClosed ==
    ASSUME ListShape, NEW o, Orderly(o), NEW c \in Cursors, c.there = TRUE
    PROVE  Onward(c, o) \in SUBSET table /\ Closed(Onward(c, o), o)
  <1>1. PICK t \in Rows : c = Encode(t)
    BY CursorRow
  <1>2. table \subseteq Rows
    BY DEF ListShape
  <1>3. \A r \in table : r \in Onward(c, o) <=> Precedes(t, r, o)
    BY <1>1, <1>2 DEF Orderly, Onward
  <1>4. ASSUME NEW s \in table \ Onward(c, o), NEW r \in Onward(c, o) PROVE Precedes(s, r, o)
    <2>1. r \in table /\ r \in Rows /\ s \in Rows /\ ~Precedes(t, s, o) /\ Precedes(t, r, o)
      BY <1>2, <1>3, <1>4 DEF Onward
    <2>2. CASE s = t
      BY <2>1, <2>2
    <2>3. CASE s # t
      BY <2>1, <2>3 DEF Orderly
    <2>4. QED BY <2>2, <2>3
  <1>5. QED BY <1>4 DEF Onward, Closed

\* A page of the rows S that was read forward, from a cursor or from the
\* start; and one that was read backwards from a cursor, and turned round.
ReadForward(w, S) ==
    LET o == query.order IN
    /\ w.phase = "page" /\ Sorted(w.data, o)
    /\ Heads(Shown(w.data), S, o)
    /\ w.after.there => Heads(Shown(w.data), table \ Onward(w.after, o), Flip(o))
    /\ w.before.there => Onward(w.before, Flip(o)) = table \ S

ReadBackward(w, S) ==
    LET o == query.order IN
    /\ w.phase = "page" /\ Sorted(w.data, o)
    /\ Heads(Shown(w.data), S, Flip(o))
    /\ w.before.there => Heads(Shown(w.data), table \ Onward(w.before, Flip(o)), o)
    /\ w.after.there => Onward(w.after, o) = table \ S

LEMMA ForwardNeighbours ==
    ASSUME ListShape, query.by = "cursor", AllClear,
           NEW S \in SUBSET table, Closed(S, query.order),
           NEW q \in Ordered(S, query.order), NEW c, NEW w, w = Page(Prefix(q, query.limit + 1), c, NoCursor)
    PROVE  PageOrError(w) /\ ReadForward(w, S)
  <1> DEFINE o == query.order
             d == Read(q)
  <1>1. Orderly(o) /\ Orderly(Flip(o)) /\ Flip(Flip(o)) = o
    BY QueryIsOrderly
  <1>2. /\ Sorted(d, o) /\ Heads(Shown(d), S, o)
        /\ d # <<>> => Onward(Encode(d[1]), Flip(o)) = table \ S
        /\ Len(q) > query.limit => d # <<>> /\ Heads(Shown(d), table \ Onward(Encode(d[Len(d)]), o), Flip(o))
    BY <1>1, ReadIsHead
  <1>3. q \in Seq(S) /\ S \in SUBSET Rows /\ WalkShape /\ query.limit \in Nat \ {0}
    BY SomeRows, OrderedParts DEF ListShape
  <1>4. /\ PageOrError(w) /\ w.phase = "page" /\ w.data = Turned(q, c, NoCursor)
        /\ w.after = Forth(q, NoCursor, w.data) /\ w.before = Back(q, c, NoCursor, w.data)
    BY <1>3, PageParts
  <1>5. w.data = d
    BY <1>4, EncodedParts DEF Turned
  <1> HIDE DEF d
  <1>6. w.after.there => Len(q) > query.limit /\ w.after = Encode(d[Len(d)])
    BY <1>4, <1>5, EncodedParts DEF Forth
  <1>7. w.before.there => d # <<>> /\ w.before = Encode(d[1])
    BY <1>4, <1>5, EncodedParts DEF Back
  <1>8. QED BY <1>2, <1>4, <1>5, <1>6, <1>7 DEF ReadForward

LEMMA BackwardNeighbours ==
    ASSUME ListShape, query.by = "cursor", AllClear,
           NEW S \in SUBSET table, Closed(S, Flip(query.order)),
           NEW q \in Ordered(S, Flip(query.order)), NEW c, c.there = TRUE,
           NEW w, w = Page(Prefix(q, query.limit + 1), NoCursor, c)
    PROVE  PageOrError(w) /\ ReadBackward(w, S)
  <1> DEFINE o == query.order
             p == Flip(query.order)
             d == Read(q)
             e == Reversed(d)
  <1>1. Orderly(o) /\ Orderly(p) /\ Flip(p) = o /\ Flip(Flip(p)) = p /\ stamp \in [Rows -> Stamps]
    BY QueryIsOrderly DEF ListShape
  <1> HIDE DEF p
  <1>2. /\ Sorted(d, p) /\ Heads(Shown(d), S, p)
        /\ d # <<>> => Onward(Encode(d[1]), Flip(p)) = table \ S
        /\ Len(q) > query.limit => d # <<>> /\ Heads(Shown(d), table \ Onward(Encode(d[Len(d)]), p), Flip(p))
    BY <1>1, ReadIsHead DEF p
  <1>3. q \in Seq(S) /\ S \in SUBSET Rows /\ WalkShape /\ query.limit \in Nat \ {0}
    BY SomeRows, OrderedParts DEF ListShape
  <1>4. /\ PageOrError(w) /\ w.phase = "page" /\ w.data = Turned(q, NoCursor, c)
        /\ w.after = Forth(q, c, w.data) /\ w.before = Back(q, NoCursor, c, w.data)
    BY <1>3, PageParts
  <1>5. w.data = e
    BY <1>4, EncodedParts DEF Turned
  <1> HIDE DEF d
  <1>6. /\ Sorted(e, o) /\ Shown(e) = Shown(d) /\ Len(e) = Len(d)
        /\ d # <<>> => e[1] = d[Len(d)] /\ e[Len(d)] = d[1]
        /\ e # <<>> <=> d # <<>>
    BY <1>1, <1>2, ReversedIsSorted
  <1> HIDE DEF e
  <1>7. w.after.there => d # <<>> /\ w.after = Encode(d[1])
    BY <1>4, <1>5, <1>6, EncodedParts DEF Forth
  <1>8. w.before.there => Len(q) > query.limit /\ d # <<>> /\ w.before = Encode(d[Len(d)])
    BY <1>4, <1>5, <1>6, EncodedParts DEF Back
  <1>9. QED BY <1>1, <1>2, <1>4, <1>5, <1>6, <1>7, <1>8 DEF p, ReadBackward

LEMMA FirstKeepsMatch ==
    ASSUME ListShape, MatchInv, First
    PROVE  MatchInv'
  <1>1. UNCHANGED <<query, stamp, table, match>> /\ query.by = "cursor" /\ walk.phase = "start"
    BY DEF First
  <1>2. ASSUME AllClear PROVE match = TRUE /\ ClearWalk(walk')
    <2>1. match = TRUE /\ ClearWalk(walk) /\ walk.way = "none"
      BY <1>1, <1>2 DEF MatchInv, ClearWalk
    <2>2. PICK q \in Ordered(table, query.order) : walk' = Page(Prefix(q, query.limit + 1), NoCursor, NoCursor)
      BY FirstPage DEF First
    <2>3. table \in SUBSET table /\ Closed(table, query.order)
      BY DEF Closed
    <2>4. /\ walk'.phase = "page" /\ Sorted(walk'.data, query.order) /\ PageOrError(walk')
          /\ walk'.after.there => Heads(Shown(walk'.data), table \ Onward(walk'.after, query.order), Flip(query.order))
          /\ walk'.before.there => Onward(walk'.before, Flip(query.order)) = table \ table
          /\ Heads(Shown(walk'.data), table, query.order)
      <3>1. query.by = "cursor" /\ AllClear
        BY <1>1, <1>2
      <3>2. table \in SUBSET table
        BY <2>3
      <3>3. Closed(table, query.order)
        BY <2>3
      <3>4. PageOrError(walk') /\ ReadForward(walk', table)
        BY <2>2, <3>1, <3>2, <3>3, ForwardNeighbours
      <3>5. QED BY <3>4 DEF ReadForward
    <2>5. walk'.way = "none" /\ walk'.left = walk.left
      BY <2>1, <2>4 DEF PageOrError
    <2>6. walk'.before.there => table \ Onward(walk'.before, Flip(query.order)) = table
      BY <2>4
    <2>7. Neighbours(walk')
      BY <2>4, <2>5, <2>6 DEF Neighbours
    <2>8. QED BY <2>1, <2>4, <2>5, <2>7 DEF ClearWalk
  <1>3. QED BY <1>1, <1>2, SameWalk DEF MatchInv

\* What a move makes of a page.
LEMMA MoveParts ==
    ASSUME ListShape, NEW w, PageOrError(w), NEW way \in {"next", "previous"},
           walk' = [w EXCEPT !.way = IF walk.fresh THEN way ELSE "none", !.fresh = TRUE, !.left = walk.data,
                             !.turned = walk.turned \/ way = "previous"]
    PROVE  /\ walk'.phase = w.phase /\ walk'.data = w.data /\ walk'.after = w.after /\ walk'.before = w.before
           /\ walk'.way = (IF walk.fresh THEN way ELSE "none") /\ walk'.fresh = TRUE /\ walk'.left = walk.data
  BY DEF PageOrError

LEMMA NextKeepsMatch ==
    ASSUME ListShape, MatchInv, NextPage
    PROVE  MatchInv'
  <1> DEFINE c == walk.after
             o == query.order
             p == Flip(query.order)
             S == Onward(walk.after, query.order)
  <1>1. /\ c \in Cursors /\ c.there = TRUE /\ Move("next", Paginate(c, NoCursor))
        /\ walk.phase = "page" /\ query.by = "cursor"
    BY NextPageIsMove DEF Move
  <1>2. UNCHANGED <<query, stamp, table>>
    BY <1>1 DEF Move
  <1>3. PICK w \in Paginate(c, NoCursor) :
           /\ walk' = [w EXCEPT !.way = IF walk.fresh THEN "next" ELSE "none", !.fresh = TRUE, !.left = walk.data,
                                !.turned = walk.turned \/ "next" = "previous"]
           /\ match' = (w.phase = "page" /\ walk.way \notin {"none", "next"} => w.data = walk.left)
    BY <1>1 DEF Move
  <1>4. ASSUME AllClear PROVE match' = TRUE /\ ClearWalk(walk')
    <2>1. ClearWalk(walk) /\ Neighbours(walk)
      BY <1>1, <1>4 DEF MatchInv, ClearWalk
    <2>2. PageOrError(w)
      BY <1>1, <1>3, MovedShape
    <2>3. /\ walk'.phase = w.phase /\ walk'.data = w.data /\ walk'.after = w.after /\ walk'.before = w.before
          /\ walk'.way = (IF walk.fresh THEN "next" ELSE "none") /\ walk'.fresh = TRUE /\ walk'.left = walk.data
      BY <1>3, <2>2, MoveParts
    <2>4. CASE w = [walk EXCEPT !.phase = "failed"]
      <3>1. w.phase = "failed" /\ w.data = walk.data
        BY <2>4 DEF ListShape, WalkShape
      <3>2. QED BY <1>3, <2>1, <2>3, <3>1 DEF ClearWalk
    <2>5. CASE \E q \in Ordered(After(c), o) : w = Page(Prefix(q, query.limit + 1), c, NoCursor)
      <3>1. PICK q \in Ordered(S, o) : w = Page(Prefix(q, query.limit + 1), c, NoCursor)
        BY <2>5 DEF After, Onward
      <3>2. Orderly(o) /\ stamp \in [Rows -> Stamps]
        BY <1>1, <1>4, QueryIsOrderly DEF ListShape
      <3>3. S \in SUBSET table /\ Closed(S, o)
        BY <1>1, <3>2, OnwardIsClosed
      <3>4. IsFiniteSet(S) /\ S \in SUBSET Rows
        BY <3>3, SomeRows
      <3> HIDE DEF S
      <3>5. /\ w.phase = "page" /\ Sorted(w.data, o)
            /\ Heads(Shown(w.data), S, o)
            /\ w.after.there => Heads(Shown(w.data), table \ Onward(w.after, o), p)
            /\ w.before.there => Onward(w.before, p) = table \ S
        <4>1. query.by = "cursor" /\ AllClear
          BY <1>1, <1>4
        <4>2. S \in SUBSET table
          BY <3>3
        <4>3. Closed(S, o)
          BY <3>3
        <4>4. w = Page(Prefix(q, query.limit + 1), c, NoCursor)
          BY <3>1
        <4>5. q \in Ordered(S, o)
          BY DEF S
        <4>6. ReadForward(w, S)
          BY <4>1, <4>2, <4>3, <4>4, <4>5, ForwardNeighbours
        <4>7. QED BY <4>6 DEF ReadForward
      <3>6. walk.way = "previous" => Heads(Shown(walk.left), S, o)
        BY <1>1, <2>1 DEF Neighbours, S
      <3>7. walk.fresh => Heads(Shown(walk.data), table \ S, p)
        BY <1>1, <2>1 DEF Neighbours, S
      <3>8. Sorted(walk.left, o) /\ Sorted(walk.data, o)
        BY <2>1 DEF ClearWalk
      <3>9. walk.way = "previous" => w.data = walk.left
        <4>1. walk.way = "previous" => Shown(w.data) = Shown(walk.left)
          BY <3>2, <3>4, <3>5, <3>6, OneHead
        <4>2. QED BY <3>2, <3>5, <3>8, <4>1, OneOrder
      <3>10. match' = TRUE
        BY <1>3, <3>9 DEF ListShape, WalkShape
      <3>11. w.before.there => table \ Onward(w.before, p) = S
        BY <3>3, <3>5
      <3>12. Neighbours(walk')
        <4> HIDE DEF p
        <4>1. walk'.before.there => Heads(Shown(walk'.data), table \ Onward(walk'.before, p), o)
          BY <2>3, <3>5, <3>11
        <4>2. walk'.way = "next" /\ walk'.before.there => Heads(Shown(walk'.left), Onward(walk'.before, p), p)
          BY <2>3, <3>5, <3>7
        <4>3. walk'.after.there => Heads(Shown(walk'.data), table \ Onward(walk'.after, o), p)
          BY <2>3, <3>5
        <4>4. walk'.way # "previous"
          BY <2>3
        <4>5. QED BY <4>1, <4>2, <4>3, <4>4 DEF Neighbours, p
      <3>13. QED BY <2>3, <3>5, <3>8, <3>10, <3>12 DEF ClearWalk
    <2>6. QED BY <1>1, <1>3, <2>4, <2>5, PageAfter
  <1>5. QED BY <1>1, <1>2, <1>4, SameWalk DEF MatchInv

LEMMA PreviousKeepsMatch ==
    ASSUME ListShape, MatchInv, PreviousPage
    PROVE  MatchInv'
  <1> DEFINE c == walk.before
             o == query.order
             p == Flip(query.order)
             S == Onward(walk.before, Flip(query.order))
  <1>1. /\ c \in Cursors /\ c.there = TRUE /\ Move("previous", Paginate(NoCursor, c))
        /\ walk.phase = "page" /\ query.by = "cursor"
    BY PreviousPageIsMove DEF Move
  <1>2. UNCHANGED <<query, stamp, table>>
    BY <1>1 DEF Move
  <1>3. PICK w \in Paginate(NoCursor, c) :
           /\ walk' = [w EXCEPT !.way = IF walk.fresh THEN "previous" ELSE "none", !.fresh = TRUE, !.left = walk.data,
                                !.turned = walk.turned \/ "previous" = "previous"]
           /\ match' = (w.phase = "page" /\ walk.way \notin {"none", "previous"} => w.data = walk.left)
    BY <1>1 DEF Move
  <1>4. ASSUME AllClear PROVE match' = TRUE /\ ClearWalk(walk')
    <2>1. ClearWalk(walk) /\ Neighbours(walk)
      BY <1>1, <1>4 DEF MatchInv, ClearWalk
    <2>2. PageOrError(w)
      BY <1>1, <1>3, MovedShape
    <2>3. /\ walk'.phase = w.phase /\ walk'.data = w.data /\ walk'.after = w.after /\ walk'.before = w.before
          /\ walk'.way = (IF walk.fresh THEN "previous" ELSE "none") /\ walk'.fresh = TRUE /\ walk'.left = walk.data
      BY <1>3, <2>2, MoveParts
    <2>4. CASE w = [walk EXCEPT !.phase = "failed"]
      <3>1. w.phase = "failed" /\ w.data = walk.data
        BY <2>4 DEF ListShape, WalkShape
      <3>2. QED BY <1>3, <2>1, <2>3, <3>1 DEF ClearWalk
    <2>5. CASE \E q \in Ordered(Before(c), p) : w = Page(Prefix(q, query.limit + 1), NoCursor, c)
      <3>1. PICK q \in Ordered(S, p) : w = Page(Prefix(q, query.limit + 1), NoCursor, c)
        BY <2>5 DEF Before, Onward
      <3>2. Orderly(o) /\ Orderly(p) /\ stamp \in [Rows -> Stamps]
        BY <1>1, <1>4, QueryIsOrderly DEF ListShape
      <3>3. S \in SUBSET table /\ Closed(S, p)
        BY <1>1, <3>2, OnwardIsClosed
      <3>4. IsFiniteSet(S) /\ S \in SUBSET Rows
        BY <3>3, SomeRows
      <3> HIDE DEF S
      <3>5. /\ w.phase = "page" /\ Sorted(w.data, o)
            /\ Heads(Shown(w.data), S, p)
            /\ w.before.there => Heads(Shown(w.data), table \ Onward(w.before, p), o)
            /\ w.after.there => Onward(w.after, o) = table \ S
        <4>1. query.by = "cursor" /\ AllClear
          BY <1>1, <1>4
        <4>2. S \in SUBSET table
          BY <3>3
        <4>3. Closed(S, p)
          BY <3>3
        <4>4. w = Page(Prefix(q, query.limit + 1), NoCursor, c)
          BY <3>1
        <4>5. c.there = TRUE
          BY <1>1
        <4>6. q \in Ordered(S, p)
          BY DEF S
        <4>7. ReadBackward(w, S)
          BY <4>1, <4>2, <4>3, <4>4, <4>5, <4>6, BackwardNeighbours
        <4>8. QED BY <4>7 DEF ReadBackward
      <3>6. walk.way = "next" => Heads(Shown(walk.left), S, p)
        BY <1>1, <2>1 DEF Neighbours, S
      <3>7. walk.fresh => Heads(Shown(walk.data), table \ S, o)
        BY <1>1, <2>1 DEF Neighbours, S
      <3>8. Sorted(walk.left, o) /\ Sorted(walk.data, o)
        BY <2>1 DEF ClearWalk
      <3>9. walk.way = "next" => w.data = walk.left
        <4>1. walk.way = "next" => Shown(w.data) = Shown(walk.left)
          BY <3>2, <3>4, <3>5, <3>6, OneHead
        <4>2. QED BY <3>2, <3>5, <3>8, <4>1, OneOrder
      <3>10. match' = TRUE
        BY <1>3, <3>9 DEF ListShape, WalkShape
      <3>11. w.after.there => table \ Onward(w.after, o) = S
        BY <3>3, <3>5
      <3>12. Neighbours(walk')
        <4> HIDE DEF p
        <4>1. walk'.after.there => Heads(Shown(walk'.data), table \ Onward(walk'.after, o), p)
          BY <2>3, <3>5, <3>11
        <4>2. walk'.way = "previous" /\ walk'.after.there => Heads(Shown(walk'.left), Onward(walk'.after, o), o)
          BY <2>3, <3>5, <3>7
        <4>3. walk'.before.there => Heads(Shown(walk'.data), table \ Onward(walk'.before, p), o)
          BY <2>3, <3>5
        <4>4. walk'.way # "next"
          BY <2>3
        <4>5. QED BY <4>1, <4>2, <4>3, <4>4 DEF Neighbours, p
      <3>13. QED BY <2>3, <3>5, <3>8, <3>10, <3>12 DEF ClearWalk
    <2>6. QED BY <1>1, <1>3, <2>4, <2>5, PageBefore
  <1>5. QED BY <1>1, <1>2, <1>4, SameWalk DEF MatchInv

LEMMA ChangeKeepsMatch ==
    ASSUME ListShape, MatchInv, Change
    PROVE  MatchInv'
  <1>1. UNCHANGED <<query, stamp, match>> /\ walk.phase # "start"
    BY DEF Change
  <1>2. /\ walk'.phase = walk.phase /\ walk'.data = walk.data /\ walk'.left = walk.left
        /\ walk'.way = "none" /\ walk'.fresh = FALSE
    BY DEF Change, ListShape, WalkShape
  <1>3. AllClear' <=> AllClear
    BY <1>1, SameWalk
  <1>4. ASSUME ClearWalk(walk) PROVE ClearWalk(walk)'
    <2>1. Sorted(walk.data, query.order)' /\ Sorted(walk.left, query.order)'
      BY <1>1, <1>2, <1>4, SameOrder DEF ClearWalk, Sorted
    <2>2. Neighbours(walk)'
      BY <1>2 DEF Neighbours
    <2>3. QED BY <1>2, <2>1, <2>2 DEF ClearWalk
  <1>5. QED BY <1>1, <1>3, <1>4 DEF MatchInv

LEMMA ListsKeepMatch ==
    ASSUME ListShape, CursorWalk, MatchInv, Lists
    PROVE  MatchInv'
  <1>1. CASE OffsetRows
    BY <1>1 DEF OffsetRows, MatchInv
  <1>2. CASE OffsetCount
    <2>1. UNCHANGED <<query, match>> /\ walk.phase = "count"
      BY <1>2 DEF OffsetCount
    <2>2. QED BY <2>1 DEF CursorWalk, MatchInv
  <1>3. QED BY <1>1, <1>2, FirstKeepsMatch, NextKeepsMatch, PreviousKeepsMatch, ChangeKeepsMatch DEF Lists

PagesInv == WalkInv /\ MatchInv

LEMMA PagesInvAtInit == Init => PagesInv
  <1> SUFFICES ASSUME Init PROVE PagesInv
    OBVIOUS
  <1>1. match = TRUE
    BY DEF Init, PagesInit
  <1>2. ASSUME query.by = "cursor" PROVE ClearWalk(walk)
    <2>1. PagesInit
      BY <1>2 DEF Init
    <2>2. walk.phase = "start" /\ walk.data = <<>> /\ walk.left = <<>> /\ walk.way = "none"
      BY <2>1 DEF PagesInit
    <2>3. Sorted(<<>>, query.order)
      BY DEF Sorted
    <2>4. QED BY <2>2, <2>3 DEF ClearWalk
  <1>3. QED BY <1>1, <1>2, WalkInvAtInit DEF PagesInv, MatchInv

LEMMA PagesInvStep == PagesInv /\ [Next]_<<route, form, vars>> => PagesInv'
  <1> SUFFICES ASSUME PagesInv, [Next]_<<route, form, vars>> PROVE PagesInv'
    OBVIOUS
  <1>1. WalkInv'
    BY WalkInvStep DEF PagesInv
  <1>2. CASE UNCHANGED vars
    <2>1. UNCHANGED <<query, stamp, table, walk, match>>
      BY <1>2 DEF vars
    <2>2. QED BY <1>1, <2>1, SameWalk DEF PagesInv, MatchInv
  <1>3. CASE Lists
    <2>1. ListShape
      BY <1>3, FormsListNothing DEF PagesInv, WalkInv, Typed, Lists
    <2>2. QED BY <1>1, <1>3, <2>1, ListsKeepMatch DEF PagesInv, WalkInv
  <1>4. QED BY <1>2, <1>3, StepsListOrPost

LEMMA PagesInvImplies == PagesInv => PagesMatchBothWays
  <1> SUFFICES ASSUME PagesInv, \A r \in Rows : ~Blurred(r) PROVE match
    BY DEF PagesMatchBothWays
  <1>1. CASE query.by # "cursor"
    BY <1>1 DEF PagesInv, MatchInv
  <1>2. CASE query.by = "cursor"
    <2>1. CursorOrder(query.order)
      BY <1>2 DEF PagesInv, WalkInv, Typed, ListShape, NoList
    <2>2. AllClear
      BY <1>2, <2>1, ClearRows DEF AllClear
    <2>3. QED BY <1>2, <2>2 DEF PagesInv, MatchInv
  <1>3. QED BY <1>1, <1>2

\* The page before the next one is the page one came from, and the other way
\* round, unless rows changed in between or are blurred.
THEOREM PagesMatch == Spec => []PagesMatchBothWays
  BY PagesInvAtInit, PagesInvStep, PagesInvImplies, PTL DEF Spec
==================================================================================
