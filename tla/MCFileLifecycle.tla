---------------------------- MODULE MCFileLifecycle ----------------------------
(***************************************************************************)
(* FileLifecycle on one file slot that is reused.                          *)
(***************************************************************************)
EXTENDS FileLifecycle

\* Three operations on the first file, so that an operation slot is reused
\* against the submission order; one on the file that follows it.
MCMaxSequence == <<3, 1>>
===============================================================================
