------------------------------- MODULE MCBackup -------------------------------
(* Two calls in the same second, and two saves, to a text of more blocks,  *)
(* of fewer or of the same.                                                *)
EXTENDS Backup

CONSTANTS c1, c2, a, b

MCTexts == {<<a, a>>, <<b>>}
=============================================================================
