---------------------------- MODULE MCContactSync ---------------------------
(* ContactSync on small instances: both contacts are in one address book,  *)
(* so that a listing can take two pages; another book may stay empty.      *)
EXTENDS ContactSync

AllInOneBook == [c \in Contacts |-> "a"]
=============================================================================
