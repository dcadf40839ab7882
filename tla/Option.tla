------------------------------- MODULE Option -------------------------------
(* Rust's Option: None, or a value that is not None.                       *)
CONSTANT None
=============================================================================
