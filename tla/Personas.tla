------------------------------- MODULE Personas -------------------------------
(***************************************************************************)
(* New personas: the rows of the user table that they get (Accounts), and  *)
(* the matrix they are dealt from (PersonaMatrix).  They share no state:   *)
(* the matrix is drawn before the first batch is asked for.                *)
(***************************************************************************)
EXTENDS Accounts, PersonaMatrix

\* New personas are dealt as the shares and the catalogs say, and stored whole, once,
\* under names of their own.
PersonasSound == AccountsSound /\ MatrixSound
================================================================================
