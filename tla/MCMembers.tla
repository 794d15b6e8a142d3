------------------------------ MODULE MCMembers ------------------------------
(* Two admins, one maker and one e-mail without an account.                  *)
EXTENDS Members

CONSTANTS alice, bob, mira, nina

Account(email, role) ==
  [email |-> email, role |-> role, status |-> "active", password |-> TRUE,
   name |-> TRUE, notes |-> FALSE]

MCSeedUsers == <<Account(alice, "admin"), Account(bob, "admin"), Account(mira, "maker")>>
==============================================================================
