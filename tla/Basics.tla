-------------------------------- MODULE Basics --------------------------------
(* What every model of the TypeScript code is given. *)

CONSTANTS
    None,       \* JavaScript's null, where a value may be missing
    Agents      \* the agents of the account
=============================================================================
