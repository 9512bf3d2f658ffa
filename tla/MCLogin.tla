------------------------------ MODULE MCLogin ------------------------------
(* Small instance of Login and of the CredentialStore it composes: two
   concurrent changes, one login at a time (logins share nothing but the
   store) and three passwords, any of which a first start may draw. *)
EXTENDS Login

CONSTANTS c1, c2, p1, p2, p3, l1

MCChangers == {c1, c2}
MCPasswords == {p1, p2, p3}
MCLogins == {l1}
=============================================================================
