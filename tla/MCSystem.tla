------------------------------ MODULE MCSystem -------------------------------
(* Small instances of System for TLC. *)
EXTENDS System

CONSTANTS x, y, p1, p2, p3,   \* sockets: a program and its peers, three programs
          name,               \* files
          t1, t2              \* errors

\* Datagrams are shorter and longer than the buffer.
OneMessage   == {<<x, y>>}
TwoPayloads  == {<<x>>, <<x, y, y>>}
ThreeParties == {p1, p2, p3}

OnePath  == {name}
TwoData  == {x, y}
AllCalls == {"read_file", "read_file_into", "write_file", "append_file"}

TwoThreads == {t1, t2}

\* Functions that clear, log and print or do not,
\* and one whose type of error is that of none.
AllKinds == {uga_vec_at, uga_dl_list_at, uga_dl_list_peek_front, uga_str_at, uga_recv,
             uga_mtx_acquire}
=============================================================================
