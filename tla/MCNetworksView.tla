--------------------------- MODULE MCNetworksView ---------------------------
(* Two lists of rotated files, one of them with a file that is broken, dropped
   over one another, with panics and with visits to the networks view. *)
EXTENDS NetworksView

First == [stamp |-> 1, name |-> 2, chunks |-> 1, bad |-> 0]
Second == [stamp |-> 2, name |-> 1, chunks |-> 2, bad |-> 1]
Third == [stamp |-> 3, name |-> 3, chunks |-> 1, bad |-> 2]

MCFiles == {First, Second, Third}
MCLists == {{First, Second}, {Third}}

=============================================================================
