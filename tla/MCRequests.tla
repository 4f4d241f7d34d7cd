------------------------------- MODULE MCRequests -------------------------------
EXTENDS Requests

MCNoDate == [ms |-> 9, us |-> 0]
MCStamps == {[ms |-> 1, us |-> 1], [ms |-> 1, us |-> 2], [ms |-> 2, us |-> 1], MCNoDate}
MCTables == {Rows, Rows \ {2}}
MCKeys == {<<"id">>, <<"at">>, <<"at", "id">>, <<"id", "at">>}
MCSorts == {<<>>, <<[key |-> "name", up |-> TRUE]>>, <<[key |-> "at", up |-> FALSE], [key |-> "id", up |-> TRUE]>>}

MCTexts == {"", "5", "0.5", "true", "false", "word", "secret1", "mail", "Mail", "MAIL", "url", "uuid", "jwt", "day", "MEMBER", "perm"}
MCScalars == {Text(x) : x \in MCTexts}
             \cup {Null, Num("5"), Scalar("boolean", "true"), Scalar("boolean", "false"),
                   Scalar("object", "good"), Scalar("object", "bad"), Odd}
MCRaws == MCScalars \cup {Undefined, List(<<>>)} \cup {List(<<x>>) : x \in MCScalars}
          \cup {List(<<x, y>>) : x, y \in {Null, Text("mail"), Scalar("object", "good"), Scalar("object", "bad"), Odd}}
==================================================================================
