---------------------------------- MODULE Forms ----------------------------------
(***************************************************************************)
(* A request whose body has one property: the ValidationPipe of main.ts     *)
(* converts and checks it, a handler takes it, and GlobalExceptionFilter    *)
(* answers for whatever was thrown.                                        *)
(***************************************************************************)
EXTENDS Fields, TLC

CONSTANT Raws   \* the values a client may send

\* What a JSON body may hold: a null, a text, a number, a boolean, an object
\* or a list of these; or no such property at all.
Leaf(t, v) == [t : {t}, v : v, items : {<<>>}]
Leaves == {Null} \cup Leaf("text", STRING) \cup Leaf("number", STRING \ {"NaN"})
          \cup Leaf("boolean", {"true", "false"}) \cup Leaf("object", {"good", "bad", "odd"})

ASSUME FormsAssumption == Raws \subseteq {Undefined} \cup Leaves \cup [t : {"array"}, v : {""}, items : Seq(Leaves)]

VARIABLE form

\* case: what toLowerCase and toUpperCase say; "off" is a toLowerCase of false.
Options == [each : BOOLEAN, nullable : BOOLEAN, strict : BOOLEAN, optional : BOOLEAN,
            case : {"unset", "off", "lower", "upper"}]

\* A ValidationError of class-validator; those of a list come in any order.
Error(property, constraints, children) ==
    [property |-> property, constraints |-> constraints, children |-> children]
NotEmpty(es) == {e \in es : e.constraints # {} \/ e.children # {}}

\* ValidateNested on a single value: what an instance of the class violates.
NestedErrors(property, x, own) ==
    CASE x \in Nothing -> Error(property, own, {})
      [] x.t = "object" -> Error(property, own, IF x.v = "good" THEN {} ELSE {Error("name", {"minLength"}, {})})
      [] OTHER -> Error(property, own \cup {"nestedValidation"}, {})

\* A list's items are its properties "0", "1" and so on.
Index(i) == ToString(i - 1)

\* The errors of a property.
Validate(f, y) ==
    LET own == {c.name : c \in {d \in f.checks : ~Satisfies(d, y)}}
        items == IF f.nested THEN {NestedErrors(Index(i), y.items[i], {}) : i \in DOMAIN y.items} ELSE {}
    IN  CASE Skipped(f, y) -> {}
          [] ~Skipped(f, y) /\ (~f.nested \/ y.t = "array") -> NotEmpty({Error("field", own, NotEmpty(items))})
          [] OTHER -> NotEmpty({NestedErrors("field", y, own)})

-------------------------------------------------------------------------------
Thrown(class) == [class |-> class, errors |-> {}]

\* ValidationPipe: what a transformation throws is thrown on.
Pipe ==
    /\ form.phase = "sent"
    /\ LET f == FieldOf(form.kind, form.o)
           errors == Validate(f, Converted(f, form.raw))
       IN  form' = CASE Throws(f, form.raw) -> [form EXCEPT !.phase = "thrown", !.thrown = Thrown("error")]
                     [] ~Throws(f, form.raw) /\ errors # {} ->
                          [form EXCEPT !.phase = "thrown", !.thrown = [class |-> "unprocessable", errors |-> errors]]
                     [] OTHER -> [form EXCEPT !.phase = "handled", !.reached = TRUE, !.value = Converted(f, form.raw)]

\* The handler returns or throws.
Respond ==
    /\ form.phase = "handled"
    /\ form' = [form EXCEPT !.phase = "answered", !.status = 200]

Throw ==
    /\ form.phase = "handled"
    /\ \E class \in {"unprocessableText", "validation", "http", "uniqueIndex", "query", "notFound", "error"} :
        form' = [form EXCEPT !.phase = "thrown", !.thrown = Thrown(class)]

\* The errors one level down, under the path of their parents.
At(path, error) == [path |-> path, error |-> error]
Children(S) == UNION {{At(Append(x.path, c.property), c) : c \in x.error.children} : x \in S}

\* Mutant: children are reported without their parents.
ExtractErrors_NoPath(errors) ==
    LET own == {At(<<e.property>>, e) : e \in errors} IN
    {At(<<x.error.property>>, x.error) : x \in own \cup Children(own) \cup Children(Children(own))}

\* extractErrors: each error under the path of its parents, then its
\* children; an error of a property of an item is the deepest there is.
ExtractErrors(errors) ==
    LET own == {At(<<e.property>>, e) : e \in errors} IN own \cup Children(own) \cup Children(Children(own))

Details(errors) == UNION {{[path |-> x.path, code |-> c] : c \in x.error.constraints} : x \in ExtractErrors(errors)}

\* A text where the filter expects errors makes it throw; what it throws
\* comes back to it as an error of no class of its own.
Status(class) ==
    CASE class = "unprocessable" -> 422
      [] class = "validation" -> 400
      [] class = "http" -> 403
      [] class = "uniqueIndex" -> 409
      [] class = "notFound" -> 404
      [] class \in {"query", "error", "unprocessableText"} -> 500

Catch ==
    /\ form.phase = "thrown"
    /\ form' = [form EXCEPT !.phase = "answered", !.status = Status(form.thrown.class),
                            !.details = Details(form.thrown.errors)]

FormInit ==
    form \in [phase : {"sent"}, kind : Kinds, o : Options, raw : Raws, value : {Undefined}, reached : {FALSE},
              thrown : {Thrown("none")}, status : {0}, details : {{}}]

-------------------------------------------------------------------------------
\* What a handler's code takes a property of a kind for; an e-mail is in the
\* case that its field's options ask for.
Instance(x) == x.t = "object" /\ x.v = "good"
MailTexts(o) == CASE o.case \in {"unset", "lower"} -> {"mail"} [] o.case = "upper" -> {"MAIL"} [] o.case = "off" -> Mails
FitsOne(k, o, x) ==
    CASE k = "number" -> x.t = "number" /\ x.v # "NaN"
      [] k = "boolean" -> x.t = "boolean"
      [] k = "date" -> x = Scalar("date", "valid")
      [] k = "json" -> x.t = "object"
      [] k \in {"class", "deep", "array"} -> Instance(x)
      [] k \in {"string", "email", "url", "password", "token", "uuid", "enum", "permissions"} ->
            x.t = "text" /\ x.v # "" /\ (k = "email" => x.v \in MailTexts(o)) /\ (k = "url" => x.v = "url") /\ (k = "enum" => x.v = "MEMBER")

\* Fields of lists take a single value for a list of one; a list may be
\* empty, and ValidateNested takes lists of instances and passes over nulls.
Fits(k, o, x) ==
    \/ FitsOne(k, o, x) /\ k \notin {"array", "permissions"}
    \/ x.t = "array" /\ (o.each \/ k \in {"array", "permissions", "class", "deep"})
       /\ \A i \in DOMAIN x.items : FitsOne(k, o, x.items[i]) \/ (x.items[i] = Null /\ k \in {"array", "class", "deep"})

\* A handler gets nothing but values its property fits, and null or nothing
\* only for an optional field, which takes null even if it is not nullable,
\* a nullable one, or DeepObjectField.
AcceptedValuesFit ==
    form.phase = "handled" =>
        \/ Fits(form.kind, form.o, form.value)
        \/ form.value \in Nothing /\ (form.o.optional \/ form.kind = "deep")
        \/ form.value = Null /\ form.o.nullable
        \/ form.value = Undefined /\ form.kind = "array" /\ form.o.nullable

\* Whether a path leads to something in the value that was sent.
Leads(x, path) ==
    LET Within(y, rest) == rest = <<>> \/ (rest = <<"name">> /\ y.t = "object")
    IN  /\ path # <<>> /\ path[1] = "field"
        /\ IF x.t = "array"
           THEN Len(path) = 1 \/ \E i \in DOMAIN x.items : path[2] = Index(i) /\ Within(x.items[i], SubSeq(path, 3, Len(path)))
           ELSE Within(x, Tail(path))

\* What a transformation throws at: a null in a list of a field that changes
\* the case of its texts, as every e-mail does unless told not to, and an
\* object that no text, number or date can be made of.
ChangesCase(k, o) ==
    \/ k \in {"string", "password", "url"} /\ o.case \in Cases
    \/ k = "email" /\ o.case # "off"
Unusable(k, o, x) ==
    \/ ChangesCase(k, o) /\ x.t = "array" /\ \E i \in DOMAIN x.items : x.items[i] = Null
    \/ k \notin {"boolean", "enum", "json", "permissions"} /\ OddIn(x)

\* A request that reached no handler is answered with 422 and at least one
\* detail, and every detail's path leads to a part of what was sent; only a
\* value that is unusable in the sense above ends as an error of the server.
RejectionsAreExplained ==
    form.phase = "answered" /\ ~form.reached =>
        \/ form.status = 422 /\ form.details # {} /\ \A d \in form.details : Leads(form.raw, d.path)
        \/ form.status = 500 /\ Unusable(form.kind, form.o, form.raw)
==================================================================================
