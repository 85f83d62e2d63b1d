------------------------------- MODULE Accounts -------------------------------
(* What the modules about sign-in (Sessions) and access (Doors) share. *)

CONSTANTS
    Users,      \* the accounts
    Admins,     \* those with the admin role
    Handlers,   \* requests, or calls of the data plane, in flight
    None
===============================================================================
