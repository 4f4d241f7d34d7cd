------------------------------- MODULE MCServer -------------------------------
EXTENDS Server

\* Components that share nothing but the process are not mixed.
MCMixes == {[kinds |-> {"get", "update"}, max |-> 3],
            [kinds |-> {"mail"}, max |-> 2],
            [kinds |-> {"setup"}, max |-> 2],
            [kinds |-> {"role", "unrole", "assign", "sign"}, max |-> 3]}
==============================================================================
