-------------------------------- MODULE Requests --------------------------------
(***************************************************************************)
(* What a client is answered: it walks through a list, or sends a form.     *)
(***************************************************************************)
EXTENDS Pages, Forms

VARIABLE route

\* What is not asked for.
NoForm == [phase |-> "none"]
NoWalk == [phase |-> "none", after |-> NoCursor, before |-> NoCursor]

Init ==
    \/ route = "list" /\ PagesInit /\ form = NoForm
    \/ /\ route = "form" /\ FormInit
       /\ query = [by |-> "none", order |-> <<>>, limit |-> 0] /\ stamp = <<>> /\ table = {} /\ changes = MaxChanges
       /\ walk = NoWalk /\ seen = <<>> /\ stayed = {} /\ match = TRUE

Listing == UNCHANGED <<route, form>>
Posting == UNCHANGED <<route, vars>>

Next ==
    \/ First /\ Listing
    \/ NextPage /\ Listing
    \/ PreviousPage /\ Listing
    \/ OffsetRows /\ Listing
    \/ OffsetCount /\ Listing
    \/ Change /\ Listing
    \/ Pipe /\ Posting
    \/ Respond /\ Posting
    \/ Throw /\ Posting
    \/ Catch /\ Posting

Spec == Init /\ [][Next]_<<route, form, vars>>
==================================================================================
