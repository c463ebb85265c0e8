------------------------------- MODULE MCUeNas -------------------------------
(* Values for the constants of UeNas, for TLC. *)
EXTENDS UeNas, TLC

\* The tests with a second command.  The initial registration test is what each
\* of them does until then.
ContinuedTests == {"periodicRegistration", "deRegistration"}

\* RANDs are only ever compared with each other.
RandSymmetry == Permutations(Rands)
=============================================================================
