------------------------------- MODULE MCFiles -------------------------------
(* Small instances of Files for TLC. *)
EXTENDS Files

CONSTANTS name, x, y

OnePath == {name}
TwoData == {x, y}

AllCalls == {"read_file", "read_file_into", "write_file", "append_file"}
=============================================================================
