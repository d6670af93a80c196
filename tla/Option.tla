------------------------------- MODULE Option -------------------------------
(* Rust's Option, as the modules of one connection's settings share it: a   *)
(* field holds a value, or None when it was never given.                    *)
CONSTANT None
=============================================================================
