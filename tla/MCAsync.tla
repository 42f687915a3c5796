------------------------------- MODULE MCAsync -------------------------------
(* Small instances of Async for TLC. *)
EXTENDS Async

CONSTANTS f1, f2

TwoFds == {f1, f2}
=============================================================================
