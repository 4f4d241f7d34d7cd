------------------------------- MODULE MCDisks -------------------------------
EXTENDS Disks, TLC

CONSTANTS c1, c2, c3

\* A file beside the directory, whose name begins with the directory's, and
\* one of the same name in it.
MCPaths == {"dx", "d/dx"}
MCNested == {"d/dx"}
MCBase == [p \in MCPaths |-> "dx"]
MCKinds == {"put", "putStream", "putTimed", "append", "prepend", "delete", "copy", "move", "setVisibility",
            "makeDirectory", "deleteDirectory", "deleteExpired"}
MCDrivers == {"local", "buffer", "readonly", "s3", "dropbox", "gdrive"}
Symmetry == Permutations(Clients)
==============================================================================
